----------------------------- MODULE FmcbProofs -----------------------------
(***************************************************************************)
(* The safety of the installer, in six parts: the card a transaction       *)
(* belongs to, the two journal slots, what a commit relies on, the promise *)
(* that what was overwritten can be put back, what a rollback leaves, and  *)
(* that an installation is all or nothing.                                 *)
(***************************************************************************)
EXTENDS FmcbTypeProofs

-----------------------------------------------------------------------------
(***************************************************************************)
(* The card identity of a transaction, for every plan, every set of cards  *)
(* and every kind and number of faults: no destination is written on a     *)
(* card other than the one the journal was captured from, provided that    *)
(* nobody changes the card while the program is writing.                   *)
(*                                                                         *)
(* The argument: a token is drawn once, so when it is written to a card no *)
(* other card can carry it (Fresh); hence a card that carries the token of *)
(* the USB stick is the card of the armed transaction (Owner); and every   *)
(* path to a write goes through the arming of that card or through         *)
(* FmcbRecoveryCheckCard() (OnCard).                                       *)
(***************************************************************************)

OnCardPc ==
  \/ pc \in {"dirs", "files", "source", "wipe", "write", "writeData", "verify",
             "restore", "restoreWrite", "restoreVerify", "rmDirs"}
  \/ pc \in SavePcs /\ k \in {"nextDir", "source", "restore"}

(* Program counters at which neither OnCard nor Fresh says anything. *)
AwayPcs ==
  {"idle", "off", "probe", "reconcile", "tryDiscard", "dropToken", "inventory",
   "begin", "arm", "armToken", "armTokenWrite", "undo", "dropMarker", "finish",
   "run", "runCheck", "rmBackup", "rmJournal1", "clear", "clearToken"}

TokenOK ==
  /\ token \in {NoToken, TornToken} \cup 1 .. drawn
  /\ \A c \in Cards : marker[c] <= drawn
Fresh ==
  pc \in {"armMarker", "armMarkerWrite"} =>
    token \in 1 .. drawn /\ \A c \in Cards : marker[c] < token
Owner ==
  \A c \in Cards : token >= Foreign /\ marker[c] = token => c = hist.card
OnCard ==
  OnCardPc => CardMatches /\ inserted = hist.card

CardInv == TokenOK /\ Fresh /\ Owner /\ OnCard

Identity == <<token, marker, inserted, drawn, hist.card>>

-----------------------------------------------------------------------------
(* Steps that leave tokens and cards alone. *)

LEMMA QuietStep ==
  ASSUME CardInv, UNCHANGED Identity,
         pc' \notin {"armMarker", "armMarkerWrite"},
         OnCardPc' => OnCardPc
  PROVE  CardInv'
<1>1. /\ token' = token /\ marker' = marker /\ inserted' = inserted
      /\ drawn' = drawn /\ hist'.card = hist.card
  BY DEF Identity
<1>2. TokenOK'
  BY <1>1 DEF CardInv, TokenOK
<1>3. Fresh'
  BY DEF Fresh
<1>4. Owner'
  BY <1>1 DEF CardInv, Owner
<1>5. OnCard'
  BY <1>1 DEF CardInv, OnCard, CardMatches
<1> QED
  BY <1>2, <1>3, <1>4, <1>5 DEF CardInv

LEMMA AwayStep ==
  ASSUME CardInv, UNCHANGED Identity, pc' \in AwayPcs
  PROVE  CardInv'
BY QuietStep DEF AwayPcs, OnCardPc, SavePcs

(* Every way a function returns leads away from the card. *)
LEMMA ReturnsAway ==
  /\ \A s : ProbeReturns(s) => pc' \in AwayPcs
  /\ \A s : InstallReturns(s) => pc' \in AwayPcs
  /\ \A r, s : RunReturns(r, s) => pc' \in AwayPcs
  /\ StartRollback => pc' \in AwayPcs
  /\ \A j, c : StartRemove(j, c) => pc' \in AwayPcs
  /\ \A c : StartClear(c) => pc' \in AwayPcs
  /\ \A c, s : StartDiscard(c, s) => pc' \in AwayPcs
  /\ \A c : ArmFails(c) => pc' \in AwayPcs
BY DEF ProbeReturns, InstallReturns, RunReturns, StartRollback, StartRemove,
   StartClear, StartDiscard, ArmFails, AwayPcs

LEMMA DiscardAway ==
  ASSUME NEW r, NEW s, DiscardReturns(r, s)
  PROVE  pc' \in AwayPcs
BY ReturnsAway DEF DiscardReturns, AwayPcs

LEMMA ClearAway ==
  ASSUME NEW r, ClearReturns(r)
  PROVE  pc' \in AwayPcs
BY ReturnsAway, DiscardAway DEF ClearReturns, AwayPcs

LEMMA SaveAway ==
  ASSUME NEW j, NEW c, c \notin {"nextDir", "source", "restore"}, StartSave(j, c)
  PROVE  pc' = "save" /\ ~OnCardPc'
BY DEF StartSave, OnCardPc, SavePcs

(* Tokens removed, from the USB stick or from the inserted card. *)
LEMMA TokenRemoved ==
  ASSUME CardInv, token' \in {token, NoToken, TornToken},
         UNCHANGED <<marker, inserted, drawn, hist>>, pc' \in AwayPcs
  PROVE  CardInv'
<1>1. TokenOK'
  BY DEF CardInv, TokenOK
<1>2. Owner'
  BY DEF CardInv, Owner, NoToken, TornToken, Foreign
<1>3. Fresh' /\ OnCard'
  BY DEF Fresh, OnCard, OnCardPc, SavePcs, AwayPcs
<1> QED
  BY <1>1, <1>2, <1>3 DEF CardInv

LEMMA MarkerRemoved ==
  ASSUME TypeInv, CardInv,
         NEW m \in {NoToken, TornToken}, marker' = [marker EXCEPT ![inserted] = m],
         UNCHANGED <<token, inserted, drawn, hist>>, pc' \in AwayPcs
  PROVE  CardInv'
<1>0. marker \in [Cards -> Tokens] /\ drawn \in Nat
  BY DEF TypeInv, TypeOK, CardsOK, HistoryOK
<1>1. TokenOK'
  BY <1>0 DEF CardInv, TokenOK, NoToken, TornToken
<1>2. Owner'
  BY <1>0 DEF CardInv, Owner, NoToken, TornToken, Foreign
<1>3. Fresh' /\ OnCard'
  BY DEF Fresh, OnCard, OnCardPc, SavePcs, AwayPcs
<1> QED
  BY <1>1, <1>2, <1>3 DEF CardInv

-----------------------------------------------------------------------------
(* Each group of actions preserves CardInv. *)

LEMMA SaveCard ==
  ASSUME TypeInv, CardInv, SaveNext
  PROVE  CardInv'
<1>0. hist \in History
  BY DEF TypeInv, TypeOK, HistoryOK
<1>1. CASE SaveOpen
  BY <1>1, QuietStep DEF SaveOpen, Step, Identity, card, OnCardPc, SavePcs
<1>2. hist'.card = hist.card /\ UNCHANGED <<token, marker, inserted, drawn>> => UNCHANGED Identity
  BY DEF Identity
<1>3. CASE SaveWrite
  <2>1. UNCHANGED Identity
    BY <1>0, <1>2, <1>3 DEF SaveWrite, HistAfterSave, Committed, History, card
  <2>2. CASE pc' \in AwayPcs
    BY <2>1, <2>2, AwayStep
  <2>3. CASE pc' \in {"dirs", "source", "restore"} /\ OnCardPc
    BY <2>1, <2>3, QuietStep
  <2>4. pc' \in AwayPcs \/ (pc' \in {"dirs", "source", "restore"} /\ OnCardPc)
    BY <1>3, ReturnsAway DEF SaveWrite, OnCardPc, SavePcs, AwayPcs
  <2> QED
    BY <2>2, <2>3, <2>4
<1>4. CASE SaveFails
  <2>1. UNCHANGED Identity
    BY <1>0, <1>2, <1>4 DEF SaveFails, HistAfterSave, Committed, History, card
  <2>2. pc' \in AwayPcs
    BY <1>4, ReturnsAway DEF SaveFails, Step, AwayPcs
  <2> QED
    BY <2>1, <2>2, AwayStep
<1> QED
  BY <1>1, <1>3, <1>4 DEF SaveNext

LEMMA RemoveCard ==
  ASSUME CardInv, RemoveNext
  PROVE  CardInv'
<1>1. UNCHANGED Identity
  BY DEF RemoveNext, RemoveBackup, RemoveJournal0, RemoveJournal1, Identity, card
<1>2. pc' \in AwayPcs
  BY ReturnsAway, DiscardAway
  DEF RemoveNext, RemoveBackup, RemoveJournal0, RemoveJournal1, Step, Loop, AwayPcs
<1> QED
  BY <1>1, <1>2, AwayStep

LEMMA ClearCard ==
  ASSUME TypeInv, CardInv, ClearNext
  PROVE  CardInv'
<1>1. CASE ClearMarker
  BY <1>1, MarkerRemoved DEF ClearMarker, Step, AwayPcs, usb
<1>2. CASE ClearRefused
  BY <1>2, AwayStep, ClearAway DEF ClearRefused, Identity, usb, card
<1>3. CASE ClearToken
  <2>1. token' \in {token, NoToken} /\ UNCHANGED <<marker, inserted, drawn, hist>>
    BY <1>3 DEF ClearToken, card
  <2>2. pc' \in AwayPcs
    BY <1>3, ClearAway DEF ClearToken
  <2> QED
    BY <2>1, <2>2, TokenRemoved
<1> QED
  BY <1>1, <1>2, <1>3 DEF ClearNext

LEMMA DiscardEmptyAway ==
  ASSUME NEW c, DiscardEmptyJournal(c)
  PROVE  pc' \in AwayPcs
BY ReturnsAway, DiscardAway DEF DiscardEmptyJournal

LEMMA ProbeCard ==
  ASSUME CardInv, ProbeNext
  PROVE  CardInv'
<1>1. CASE Probe
  <2>1. pc' \in AwayPcs
    BY <1>1, ReturnsAway DEF Probe, AwayPcs
  <2> QED
    BY <1>1, <2>1, AwayStep DEF Probe, Identity, usb, card
<1>2. CASE Reconcile
  <2>1. pc' \in AwayPcs
    BY <1>2, ReturnsAway DEF Reconcile
  <2> QED
    BY <1>2, <2>1, AwayStep DEF Reconcile, Identity, usb, card
<1>3. CASE TryDiscard
  <2>1. pc' \in AwayPcs
    BY <1>3, DiscardAway, DiscardEmptyAway DEF TryDiscard
  <2> QED
    BY <1>3, <2>1, AwayStep DEF TryDiscard, Identity, usb, card
<1>4. CASE DiscardToken
  <2>1. token' \in {token, NoToken} /\ UNCHANGED <<marker, inserted, drawn, hist>>
    BY <1>4 DEF DiscardToken, card
  <2>2. pc' \in AwayPcs
    BY <1>4, DiscardAway DEF DiscardToken
  <2> QED
    BY <2>1, <2>2, TokenRemoved
<1> QED
  BY <1>1, <1>2, <1>3, <1>4 DEF ProbeNext

(* Drawing a token makes it larger than every marker; writing it to the    *)
(* inserted card makes that card its owner.                                *)
LEMMA ArmCard ==
  ASSUME TypeInv, CardInv, ArmNext
  PROVE  CardInv'
<1>0. /\ marker \in [Cards -> Tokens] /\ inserted \in Cards
      /\ drawn \in Nat /\ hist \in History /\ token \in Tokens
  BY DEF TypeInv, TypeOK, UsbOK, CardsOK, HistoryOK
<1>1. CASE Begin
  <2>1. pc' \in AwayPcs \/ (pc' = "save" /\ ~OnCardPc')
    BY <1>1, ReturnsAway, SaveAway DEF Begin
  <2> QED
    BY <1>1, <2>1, AwayStep, QuietStep DEF Begin, Identity, usb, card
<1>2. CASE ArmCheck
  <2>1. pc' \in AwayPcs
    BY <1>2, ReturnsAway DEF ArmCheck, Step, AwayPcs
  <2> QED
    BY <1>2, <2>1, AwayStep DEF ArmCheck, Identity, usb, card
<1>3. CASE ArmTokenOpen
  BY <1>3, TokenRemoved DEF ArmTokenOpen, Step, AwayPcs, card
<1>4. CASE ArmTokenWrite
  <2>1. /\ drawn' = drawn + 1 /\ token' \in {TornToken, drawn + 1}
        /\ UNCHANGED <<marker, inserted, hist>>
    BY <1>4 DEF ArmTokenWrite, card
  <2>2. \A c \in Cards : marker[c] < drawn + 1 /\ marker[c] \in Int
    BY <1>0 DEF CardInv, TokenOK, Tokens
  <2>3. TokenOK'
    <3>1. token' \in {NoToken, TornToken} \cup 1 .. drawn'
      BY <1>0, <2>1
    <3>2. \A c \in Cards : marker'[c] <= drawn'
      BY <1>0, <2>1, <2>2
    <3> QED
      BY <3>1, <3>2 DEF TokenOK
  <2>4. Owner'
    BY <1>0, <2>1, <2>2 DEF Owner, TornToken, Foreign
  <2>5. pc' \in {"armMarker", "undo"}
    BY <1>4 DEF ArmTokenWrite, Step, ArmFails
  <2>6. Fresh'
    <3>1. pc' = "armMarker" => token' = drawn + 1
      BY <1>4 DEF ArmTokenWrite, Step, ArmFails
    <3> QED
      BY <1>0, <2>1, <2>2, <2>5, <3>1 DEF Fresh
  <2>7. OnCard'
    BY <2>5 DEF OnCard, OnCardPc, SavePcs
  <2> QED
    BY <2>3, <2>4, <2>6, <2>7 DEF CardInv
<1>5. CASE ArmMarkerOpen
  <2>1. /\ marker' = [marker EXCEPT ![inserted] = TornToken]
        /\ UNCHANGED <<token, inserted, drawn, hist>>
        /\ pc = "armMarker" /\ pc' = "armMarkerWrite"
    BY <1>5 DEF ArmMarkerOpen, Step, usb
  <2>2. token \in 1 .. drawn /\ \A c \in Cards : marker[c] < token
    BY <2>1 DEF CardInv, Fresh
  <2>3. TokenOK'
    BY <1>0, <2>1 DEF CardInv, TokenOK, TornToken
  <2>4. Fresh'
    BY <1>0, <2>1, <2>2 DEF Fresh, TornToken
  <2>5. Owner'
    BY <1>0, <2>1 DEF CardInv, Owner, TornToken, Foreign
  <2>6. OnCard'
    BY <2>1 DEF OnCard, OnCardPc, SavePcs
  <2> QED
    BY <2>3, <2>4, <2>5, <2>6 DEF CardInv
<1>6. CASE ArmMarkerWrite
  <2>1. PICK m \in {TornToken, token} : marker' = [marker EXCEPT ![inserted] = m]
    BY <1>6 DEF ArmMarkerWrite
  <2>2. UNCHANGED <<token, inserted, drawn>> /\ pc = "armMarkerWrite"
    BY <1>6 DEF ArmMarkerWrite, usb
  <2>3. token \in 1 .. drawn /\ \A c \in Cards : marker[c] < token
    BY <2>2 DEF CardInv, Fresh
  <2>4. hist' = IF m = token THEN Armed ELSE hist
    BY <1>0, <1>6, <2>1 DEF ArmMarkerWrite
  <2>5. TokenOK'
    BY <1>0, <2>1, <2>2, <2>3 DEF CardInv, TokenOK, TornToken
  <2>6. pc' \in {"dirs", "undo"} /\ (pc' = "dirs" => m = token)
    <3>1. CASE marker' = [marker EXCEPT ![inserted] = token] /\ Loop("dirs", 1)
      BY <1>0, <2>1, <3>1 DEF Loop
    <3>2. CASE ArmFails("undoDrop")
      BY <3>2 DEF ArmFails
    <3> QED
      BY <1>6, <3>1, <3>2 DEF ArmMarkerWrite
  <2>7. Fresh'
    BY <2>6 DEF Fresh
  <2>8. Owner'
    <3>1. CASE m = token
      BY <1>0, <2>1, <2>2, <2>3, <2>4, <3>1 DEF Owner, Armed
    <3>2. CASE m # token
      BY <1>0, <2>1, <2>2, <2>3, <2>4, <3>2 DEF Owner, TornToken, Foreign
    <3> QED
      BY <3>1, <3>2
  <2>9. OnCard'
    BY <1>0, <2>1, <2>2, <2>3, <2>4, <2>6
    DEF OnCard, OnCardPc, SavePcs, CardMatches, Armed, Foreign
  <2> QED
    BY <2>5, <2>7, <2>8, <2>9 DEF CardInv
<1>7. CASE ArmUndo
  <2>1. pc' \in AwayPcs \/ (pc' = "save" /\ ~OnCardPc')
    <3>1. k \in {"undoKeep", "undoDrop"}
      BY <1>7 DEF ArmUndo, TypeInv, IndexOK
    <3> QED
      BY <1>7, <3>1, ReturnsAway, SaveAway DEF ArmUndo, Step, AwayPcs
  <2> QED
    BY <1>7, <2>1, AwayStep, QuietStep DEF ArmUndo, Identity, usb, card
<1>8. CASE ArmDropMarker
  <2>1. pc' \in AwayPcs /\ UNCHANGED <<token, inserted, drawn, hist>>
    BY <1>8 DEF ArmDropMarker, Loop, AwayPcs, usb
  <2>2. CASE marker' = marker
    BY <2>1, <2>2, AwayStep DEF Identity
  <2>3. CASE marker' = [marker EXCEPT ![inserted] = NoToken]
    BY <2>1, <2>3, MarkerRemoved
  <2> QED
    BY <1>8, <2>2, <2>3 DEF ArmDropMarker
<1>9. CASE ArmDropToken
  <2>1. pc' \in AwayPcs
    BY <1>9, ReturnsAway DEF ArmDropToken
  <2> QED
    BY <1>9, <2>1, TokenRemoved DEF ArmDropToken, card
<1> QED
  BY <1>1, <1>2, <1>3, <1>4, <1>5, <1>6, <1>7, <1>8, <1>9 DEF ArmNext

(* The installer never leaves the armed card. *)
LEMMA InstallCard ==
  ASSUME CardInv, InstallNext
  PROVE  CardInv'
<1>1. UNCHANGED Identity
  BY DEF InstallNext, Inventory, NoSpace, MakeDirectory, DirectoriesDone, SkipFile,
     Capture, FilesDone, Source, Wipe, WriteOpen, WriteData, Verify, Finish,
     Identity, usb, card
<1>2. CASE pc' \in AwayPcs
  BY <1>1, <1>2, AwayStep
<1>3. CASE pc' \notin {"armMarker", "armMarkerWrite"} /\ (OnCardPc' => OnCardPc)
  BY <1>1, <1>3, QuietStep
<1>4. CASE Inventory
  BY <1>2, <1>4, ReturnsAway DEF Inventory, NoSpace, AwayPcs
<1>5. CASE Finish
  BY <1>2, <1>3, <1>5, ReturnsAway, SaveAway DEF Finish
<1>6. CASE OnCardPc /\ pc' \in AwayPcs \cup {"dirs", "files", "source", "wipe", "write",
                                         "writeData", "verify", "save"}
  BY <1>2, <1>3, <1>6
<1>7. CASE MakeDirectory
  BY <1>6, <1>7, ReturnsAway DEF MakeDirectory, StartSave, OnCardPc
<1>8. CASE Capture
  BY <1>6, <1>8, ReturnsAway DEF Capture, StartSave, OnCardPc
<1>9. CASE DirectoriesDone \/ SkipFile \/ FilesDone
  BY <1>6, <1>9 DEF DirectoriesDone, SkipFile, FilesDone, Loop, OnCardPc, AwayPcs
<1>10. CASE Source \/ Wipe \/ WriteOpen \/ WriteData \/ Verify
  BY <1>6, <1>10, ReturnsAway DEF Source, Wipe, WriteOpen, WriteData, Verify, Step, Loop, OnCardPc
<1> QED
  BY <1>4, <1>5, <1>7, <1>8, <1>9, <1>10 DEF InstallNext

(* FmcbRecoveryCheckCard() is the only way into a rollback. *)
LEMMA RunCard ==
  ASSUME TypeInv, CardInv, RunNext
  PROVE  CardInv'
<1>1. /\ UNCHANGED <<token, marker, inserted, drawn>>
      /\ hist' = hist \/ hist' = [hist EXCEPT !.open = FALSE]
  BY DEF RunNext, Run, RunCheck, Restore, RestoreWrite, RestoreVerify, RestoreDone,
     RemoveDirectory, RollbackDone, usb, card
<1>2. UNCHANGED Identity
  BY <1>1 DEF Identity, TypeInv, TypeOK, HistoryOK, History
<1>3. CASE pc' \in AwayPcs
  BY <1>2, <1>3, AwayStep
<1>4. CASE pc' \notin {"armMarker", "armMarkerWrite"} /\ (OnCardPc' => OnCardPc)
  BY <1>2, <1>4, QuietStep
<1>5. CASE Run \/ RollbackDone
  BY <1>3, <1>5, ReturnsAway DEF Run, RollbackDone, Step, AwayPcs
<1>6. CASE RunCheck
  <2>1. CASE CardMatches /\ pc' = "save"
    <3>1. inserted = hist.card
      BY <2>1 DEF CardInv, Owner, CardMatches, TypeInv, TypeOK, CardsOK
    <3>2. OnCard'
      BY <1>2, <2>1, <3>1 DEF OnCard, CardMatches, Identity
    <3>3. TokenOK' /\ Owner' /\ Fresh'
      BY <1>2, <2>1 DEF CardInv, TokenOK, Owner, Fresh, Identity
    <3> QED
      BY <3>2, <3>3 DEF CardInv
  <2> QED
    BY <1>3, <1>6, <2>1, ReturnsAway DEF RunCheck, StartSave
<1>7. CASE Restore \/ RestoreWrite \/ RestoreVerify
  BY <1>4, <1>7 DEF Restore, RestoreWrite, RestoreVerify, RestoreNext, Step, OnCardPc
<1>8. CASE RestoreDone \/ RemoveDirectory
  BY <1>3, <1>4, <1>8, ReturnsAway DEF RestoreDone, RemoveDirectory, Loop, OnCardPc
<1> QED
  BY <1>5, <1>6, <1>7, <1>8 DEF RunNext

(* The one assumption about the user: the card is changed only while the   *)
(* console is off or shows the dashboard.                                  *)
LEMMA EnvironmentCard ==
  ASSUME CardInv, SwapPoints \subseteq {"idle"},
         UiInstall \/ UiRecover \/ UiRefresh \/ PowerCut \/ Boot \/ SwapCard
  PROVE  CardInv'
<1>1. CASE UiInstall \/ UiRecover \/ UiRefresh
  BY <1>1, AwayStep DEF UiInstall, UiRecover, UiRefresh, Starts, AwayPcs, Identity, usb, card
<1>2. CASE PowerCut \/ Boot
  BY <1>2, AwayStep DEF PowerCut, Boot, Step, AwayPcs, Identity, usb, card
<1>3. CASE SwapCard
  <2>1. pc \in {"idle", "off"} /\ pc' = pc /\ UNCHANGED <<token, marker, drawn, hist>>
    BY <1>3 DEF SwapCard, usb, card, ctl
  <2> QED
    BY <2>1 DEF CardInv, TokenOK, Owner, Fresh, OnCard, OnCardPc, SavePcs
<1> QED
  BY <1>1, <1>2, <1>3

LEMMA CardInit == Init => CardInv
<1> SUFFICES ASSUME Init PROVE CardInv
  OBVIOUS
<1>1. \A c \in Cards : marker[c] \in {NoToken, Foreign}
  BY InitialMarkersAssumption DEF Init
<1>2. TokenOK
  BY <1>1 DEF Init, TokenOK, NoToken, Foreign
<1>3. Owner
  BY DEF Init, Owner, NoToken, Foreign
<1>4. Fresh /\ OnCard
  BY DEF Init, Fresh, OnCard, OnCardPc, SavePcs
<1> QED
  BY <1>2, <1>3, <1>4 DEF CardInv

-----------------------------------------------------------------------------
(* Every step that changes a destination is one of the six that write, and *)
(* those start where OnCard holds.                                         *)
LEMMA WritersOnCard ==
  ASSUME TypeInv, CardInv, Next, file' # file
  PROVE  WritesArmedCard
<1>1. CASE \/ Wipe \/ WriteOpen \/ WriteData
           \/ Restore \/ RestoreWrite \/ RestoreVerify
  <2>1. pc \in {"wipe", "write", "writeData", "restore", "restoreWrite", "restoreVerify"}
    BY <1>1 DEF Wipe, WriteOpen, WriteData, Restore, RestoreWrite, RestoreVerify
  <2>2. CardMatches /\ inserted = hist.card
    BY <2>1 DEF CardInv, OnCard, OnCardPc
  <2>3. \E x : PutFile(x)
    BY <1>1 DEF Wipe, WriteOpen, WriteData, Restore, RestoreWrite, RestoreVerify
  <2>4. \A c \in Cards \ {inserted} : file'[c] = file[c]
    BY <2>3 DEF PutFile, TypeInv, TypeOK, CardsOK
  <2> QED
    BY <2>2, <2>4 DEF WritesArmedCard, CardMatches
<1>2. file' = file \/ Wipe \/ WriteOpen \/ WriteData \/ Restore \/ RestoreWrite \/ RestoreVerify
  <2>1. CASE SaveNext \/ RemoveNext \/ ClearNext \/ ProbeNext
    BY <2>1 DEF SaveNext, RemoveNext, ClearNext, ProbeNext, SaveOpen, SaveWrite, SaveFails,
       RemoveBackup, RemoveJournal0, RemoveJournal1, ClearMarker, ClearRefused, ClearToken,
       Probe, Reconcile, TryDiscard, DiscardToken, card
  <2>2. CASE ArmNext
    BY <2>2 DEF ArmNext, Begin, ArmCheck, ArmTokenOpen, ArmTokenWrite, ArmMarkerOpen,
       ArmMarkerWrite, ArmUndo, ArmDropMarker, ArmDropToken, card
  <2>3. CASE InstallNext
    BY <2>3 DEF InstallNext, Inventory, NoSpace, MakeDirectory, DirectoriesDone, SkipFile,
       Capture, FilesDone, Source, Verify, Finish, card
  <2>4. CASE RunNext
    BY <2>4 DEF RunNext, Run, RunCheck, RestoreDone, RemoveDirectory, RollbackDone, card
  <2>5. CASE UiInstall \/ UiRecover \/ UiRefresh \/ PowerCut \/ Boot \/ SwapCard
    BY <2>5 DEF UiInstall, UiRecover, UiRefresh, Starts, PowerCut, Boot, SwapCard, card
  <2> QED
    BY <2>1, <2>2, <2>3, <2>4, <2>5 DEF Next, Program
<1> QED
  BY <1>1, <1>2

LEMMA CardStep ==
  ASSUME TypeInv, CardInv, SwapPoints \subseteq {"idle"}, [Next]_vars
  PROVE  CardInv'
<1>1. CASE SaveNext       BY <1>1, SaveCard
<1>2. CASE RemoveNext     BY <1>2, RemoveCard
<1>3. CASE ClearNext      BY <1>3, ClearCard
<1>4. CASE ProbeNext      BY <1>4, ProbeCard
<1>5. CASE ArmNext        BY <1>5, ArmCard
<1>6. CASE InstallNext    BY <1>6, InstallCard
<1>7. CASE RunNext        BY <1>7, RunCard
<1>8. CASE UiInstall \/ UiRecover \/ UiRefresh \/ PowerCut \/ Boot \/ SwapCard
  BY <1>8, EnvironmentCard
<1>9. CASE UNCHANGED vars
  BY <1>9 DEF vars, usb, card, ctl, CardInv, TokenOK, Fresh, Owner, OnCard, OnCardPc,
     SavePcs, CardMatches
<1> QED
  BY <1>1, <1>2, <1>3, <1>4, <1>5, <1>6, <1>7, <1>8, <1>9 DEF Next, Program

(* A destination is only ever written, by the installer or by a rollback,  *)
(* on the card that carries the token of the armed transaction and that    *)
(* the journal was captured from, for every plan, every set of cards and   *)
(* every kind and number of faults, if no card is changed while the        *)
(* program is at work.                                                     *)
THEOREM ArmedCardOnly ==
  ASSUME SwapPoints \subseteq {"idle"}
  PROVE  Spec => OnlyArmedCardWritten
<1>1. TypeInv /\ CardInv /\ [Next]_vars => CardInv'
  BY CardStep
<1>2. TypeInv /\ CardInv /\ [Next]_vars => [file' # file => WritesArmedCard]_vars
  BY WritersOnCard
<1> QED
  BY <1>1, <1>2, TypeInvariance, CardInit, PTL DEF Spec, OnlyArmedCardWritten

-----------------------------------------------------------------------------
(***************************************************************************)
(* The dual-slot journal, for every plan, set of cards and number of       *)
(* faults other than an unreadable slot: while a journal is being written, *)
(* the newest complete one stays in the other slot.                        *)
(*                                                                         *)
(* The argument: a slot only ever holds generations of its own parity      *)
(* (Parity), so the generation after the newest never goes to the slot of  *)
(* the newest; and a save always starts from the newest (OtherNewest).     *)
(***************************************************************************)

Parity == \A s \in Slots : JournalValid(slot[s]) => SlotOf(slot[s].seq) = s
OtherNewest ==
  pc \in SavePcs /\ k # "arm" =>
    LET s == SlotOf(jr.seq) IN
    /\ JournalValid(slot[1 - s]) /\ slot[1 - s].seq = jr.seq - 1
    /\ JournalValid(slot[s]) => slot[s].seq < jr.seq - 1
JournalInv == Parity /\ OtherNewest

-----------------------------------------------------------------------------
LEMMA NextSlot ==
  ASSUME NEW n \in Nat
  PROVE  SlotOf(n) \in Slots /\ SlotOf(n + 1) = 1 - SlotOf(n)
BY DEF SlotOf, Slots

LEMMA NewestLoaded ==
  ASSUME "read" \notin FaultKinds, NEW j, Loaded(j)
  PROVE  j = Latest
BY DEF Loaded, Fault

(* Steps that neither write a slot nor start a save.                       *)
LEMMA SlotsKept ==
  ASSUME JournalInv, UNCHANGED slot,
         pc' \notin SavePcs \/ (UNCHANGED <<pc, k, jr>>)
  PROVE  JournalInv'
BY DEF JournalInv, Parity, OtherNewest

LEMMA AwayKept ==
  ASSUME JournalInv, UNCHANGED slot, pc' \in AwayPcs
  PROVE  JournalInv'
BY SlotsKept DEF AwayPcs, SavePcs

(* A save of the generation after the newest goes to the other slot.       *)
LEMMA SaveStarts ==
  ASSUME TypeInv, JournalInv, UNCHANGED slot, JournalValid(Latest),
         NEW x \in Journal, x.seq = Latest.seq, NEW c, StartSave(x, c)
  PROVE  JournalInv'
<1>1. slot \in [Slots -> Journal] BY DEF TypeInv, TypeOK, UsbOK
<1>2. jr'.seq = Latest.seq + 1 /\ x.seq \in Nat BY DEF StartSave, Journal
<1>3. PICK s \in Slots : /\ Latest = slot[s] /\ JournalValid(slot[s])
                         /\ JournalValid(slot[1 - s]) => slot[1 - s].seq <= slot[s].seq
  <2>1. slot[0].seq \in Nat /\ slot[1].seq \in Nat BY <1>1 DEF Slots, Journal
  <2>2. ~JournalValid(AbsentSlot) /\ ~JournalValid(TornSlot)
    BY DEF JournalValid, AbsentSlot, TornSlot, JournalStates
  <2> QED BY <2>1, <2>2 DEF Latest, LatestOf, Slots
<1>4. SlotOf(slot[s].seq) = s BY <1>3 DEF JournalInv, Parity
<1>5. SlotOf(jr'.seq) = 1 - s BY <1>2, <1>3, <1>4, NextSlot
<1>6. JournalValid(slot[1 - s]) => slot[1 - s].seq < slot[s].seq
  <2>1. 1 - s \in Slots /\ 1 - s # s BY DEF Slots
  <2>2. JournalValid(slot[1 - s]) => SlotOf(slot[1 - s].seq) = 1 - s
    BY <2>1 DEF JournalInv, Parity
  <2>3. slot[s].seq \in Nat /\ slot[1 - s].seq \in Nat BY <1>1, <2>1 DEF Journal
  <2> QED BY <1>3, <1>4, <2>1, <2>2, <2>3
<1>7. 1 - (1 - s) = s BY DEF Slots
<1> QED BY <1>1, <1>2, <1>3, <1>5, <1>6, <1>7 DEF JournalInv, Parity, OtherNewest, Journal

LEMMA SaveSlots ==
  ASSUME TypeInv, JournalInv, SaveNext
  PROVE  JournalInv'
<1>1. slot \in [Slots -> Journal] /\ jr \in Journal
  BY DEF TypeInv, TypeOK, UsbOK, CtlOK
<1>2. SlotOf(jr.seq) \in Slots /\ 1 - SlotOf(jr.seq) \in Slots
      /\ 1 - SlotOf(jr.seq) # SlotOf(jr.seq)
  BY <1>1, NextSlot DEF Journal, Slots
<1>3. CASE SaveOpen
  <2>1. PICK t \in {AbsentSlot, TornSlot} : slot' = [slot EXCEPT ![SlotOf(jr.seq)] = t]
    BY <1>3 DEF SaveOpen
  <2>2. ~JournalValid(t)
    BY DEF JournalValid, AbsentSlot, TornSlot, JournalStates
  <2>3. pc \in SavePcs /\ UNCHANGED <<k, jr>> BY <1>3 DEF SaveOpen, Step, SavePcs
  <2> QED BY <1>1, <1>2, <2>1, <2>2, <2>3 DEF JournalInv, Parity, OtherNewest
<1>4. CASE SaveWrite \/ SaveFails
  <2>1. slot' = slot \/ slot' = [slot EXCEPT ![SlotOf(jr.seq)] = jr]
    BY <1>4 DEF SaveWrite, SaveFails, SavedJournal
  <2>2. pc' \notin SavePcs
    BY <1>4, ReturnsAway
    DEF SaveWrite, SaveFails, AwayPcs, SavePcs, Step, DropLocals
  <2> QED BY <1>1, <1>2, <2>1, <2>2 DEF JournalInv, Parity, OtherNewest
<1> QED BY <1>3, <1>4 DEF SaveNext

LEMMA RemoveSlots ==
  ASSUME TypeInv, JournalInv, RemoveNext
  PROVE  JournalInv'
<1>1. pc' \in AwayPcs
  BY ReturnsAway, DiscardAway
  DEF RemoveNext, RemoveBackup, RemoveJournal0, RemoveJournal1, Step, Loop, AwayPcs
<1>2. slot' = slot \/ \E s \in Slots : slot' = [slot EXCEPT ![s] = AbsentSlot]
  BY DEF RemoveNext, RemoveBackup, RemoveJournal0, RemoveJournal1, Removed, Slots
<1>3. ~JournalValid(AbsentSlot) BY DEF JournalValid, AbsentSlot, JournalStates
<1>4. slot \in [Slots -> Journal] BY DEF TypeInv, TypeOK, UsbOK
<1> QED
  BY <1>1, <1>2, <1>3, <1>4 DEF JournalInv, Parity, OtherNewest, AwayPcs, SavePcs

LEMMA ClearProbeSlots ==
  ASSUME JournalInv, ClearNext \/ ProbeNext
  PROVE  JournalInv'
<1>1. CASE ClearMarker \/ ClearRefused \/ ClearToken
  BY <1>1, AwayKept, ClearAway
  DEF ClearMarker, ClearRefused, ClearToken, Step, AwayPcs, usb
<1>2. CASE Probe
  BY <1>2, AwayKept, ReturnsAway DEF Probe, AwayPcs, usb
<1>3. CASE Reconcile
  BY <1>3, AwayKept, ReturnsAway DEF Reconcile, usb
<1>4. CASE TryDiscard
  BY <1>4, AwayKept, DiscardAway, DiscardEmptyAway DEF TryDiscard, usb
<1>5. CASE DiscardToken
  BY <1>5, AwayKept, DiscardAway DEF DiscardToken
<1> QED BY <1>1, <1>2, <1>3, <1>4, <1>5 DEF ClearNext, ProbeNext

(* What is saved is the newest journal with a change that keeps its        *)
(* generation.                                                             *)
LEMMA Changed ==
  ASSUME NEW j \in Journal
  PROVE  /\ \A st \in JournalStates : LET x == [j EXCEPT !.state = st] IN
              x \in Journal /\ x.seq = j.seq
         /\ \A f \in Files, c \in Entry : LET x == [j EXCEPT !.entry[f] = c] IN
              x \in Journal /\ x.seq = j.seq
         /\ \A d \in Dirs, created \in BOOLEAN : LET x == Recorded(j, d, created) IN
              x \in Journal /\ x.seq = j.seq
BY DEF Journal, Recorded

LEMMA ArmSlots ==
  ASSUME "read" \notin FaultKinds, TypeInv, JournalInv, ArmNext
  PROVE  JournalInv'
<1>1. slot' = slot
  BY DEF ArmNext, Begin, ArmCheck, ArmTokenOpen, ArmTokenWrite, ArmMarkerOpen,
     ArmMarkerWrite, ArmUndo, ArmDropMarker, ArmDropToken, usb
<1>2. CASE Begin
  <2>1. pc' \in AwayPcs \/ k' = "arm"
    BY <1>2, ReturnsAway DEF Begin, StartSave
  <2> QED BY <1>1, <2>1, AwayKept DEF JournalInv, Parity, OtherNewest
<1>3. CASE ArmCheck \/ ArmTokenOpen \/ ArmTokenWrite \/ ArmMarkerOpen \/ ArmMarkerWrite
  <2>1. pc' \notin SavePcs
    BY <1>3 DEF ArmCheck, ArmTokenOpen, ArmTokenWrite, ArmMarkerOpen, ArmMarkerWrite,
       ArmFails, Step, Loop, SavePcs
  <2> QED BY <1>1, <2>1, SlotsKept
<1>4. CASE ArmUndo
  <2>1. PICK j \in Loads :
          /\ Loaded(j)
          /\ \/ JournalValid(j) /\ StartSave([j EXCEPT !.state = "ROLLING_BACK"], k)
             \/ pc' \in AwayPcs
    BY <1>4, ReturnsAway DEF ArmUndo, Step, AwayPcs
  <2>2. j = Latest /\ j \in Journal
    BY <2>1, NewestLoaded, LoadsType DEF TypeInv, TypeOK
  <2>3. [j EXCEPT !.state = "ROLLING_BACK"] \in Journal
        /\ [j EXCEPT !.state = "ROLLING_BACK"].seq = j.seq
    BY <2>2, Changed DEF JournalStates
  <2> QED BY <1>1, <2>1, <2>2, <2>3, SaveStarts, AwayKept
<1>5. CASE ArmDropMarker \/ ArmDropToken
  <2>1. pc' \in AwayPcs
    BY <1>5, ReturnsAway DEF ArmDropMarker, ArmDropToken, Loop, AwayPcs
  <2> QED BY <1>1, <2>1, AwayKept
<1> QED BY <1>2, <1>3, <1>4, <1>5 DEF ArmNext

LEMMA InstallSlots ==
  ASSUME "read" \notin FaultKinds, TypeInv, JournalInv, InstallNext
  PROVE  JournalInv'
<1>1. slot' = slot
  BY DEF InstallNext, Inventory, NoSpace, MakeDirectory, DirectoriesDone, SkipFile,
     Capture, FilesDone, Source, Wipe, WriteOpen, WriteData, Verify, Finish, usb
<1>2. CASE Inventory \/ Source \/ Wipe \/ WriteOpen \/ WriteData \/ Verify
           \/ DirectoriesDone \/ SkipFile \/ FilesDone
  <2>1. pc' \notin SavePcs
    BY <1>2, ReturnsAway
    DEF Inventory, NoSpace, Source, Wipe, WriteOpen, WriteData, Verify,
       DirectoriesDone, SkipFile, FilesDone, Step, Loop, AwayPcs, SavePcs
  <2> QED BY <1>1, <2>1, SlotsKept
<1>3. CASE MakeDirectory
  <2>1. i \in Dirs BY <1>3 DEF MakeDirectory, TypeInv, IndexOK, UpPcs, Dirs, TypeOK, CtlOK
  <2>2. CASE pc' \in AwayPcs BY <1>1, <2>2, AwayKept
  <2>3. CASE \E j \in Loads : /\ Loaded(j) /\ j.state = "ACTIVE"
                              /\ StartSave(Recorded(j, i, i \notin dir[inserted]), "nextDir")
    <3>1. PICK j \in Loads :
            /\ Loaded(j) /\ j.state = "ACTIVE"
            /\ StartSave(Recorded(j, i, i \notin dir[inserted]), "nextDir")
      BY <2>3
    <3>2. j = Latest /\ j \in Journal /\ JournalValid(j)
      BY <3>1, NewestLoaded, LoadsType DEF TypeInv, TypeOK, JournalValid, JournalStates
    <3>3. (i \notin dir[inserted]) \in BOOLEAN OBVIOUS
    <3>4. Recorded(j, i, i \notin dir[inserted]) \in Journal
          /\ Recorded(j, i, i \notin dir[inserted]).seq = j.seq
      BY <2>1, <3>2, <3>3, Changed
    <3> QED BY <1>1, <3>1, <3>2, <3>4, SaveStarts
  <2> QED BY <1>3, <2>2, <2>3, ReturnsAway DEF MakeDirectory
<1>4. CASE Capture
  <2>1. i \in Files /\ file[inserted][i] \in Entry
    <3>1. i \in Nat /\ i >= 1 /\ i <= NFiles
      BY <1>4 DEF Capture, TypeInv, IndexOK, UpPcs, TypeOK, CtlOK
    <3>2. i \in Files BY <3>1 DEF Files
    <3>3. file \in [Cards -> [Files -> Content]] /\ inserted \in Cards
      BY DEF TypeInv, TypeOK, CardsOK
    <3> QED BY <3>2, <3>3 DEF Entry
  <2>2. CASE pc' \in AwayPcs BY <1>1, <2>2, AwayKept
  <2>3. CASE \E j \in Loads :
               /\ Loaded(j) /\ j.state = "ACTIVE"
               /\ StartSave([j EXCEPT !.entry[i] = file[inserted][i]], "source")
    <3>1. PICK j \in Loads :
            /\ Loaded(j) /\ j.state = "ACTIVE"
            /\ StartSave([j EXCEPT !.entry[i] = file[inserted][i]], "source")
      BY <2>3
    <3>2. j = Latest /\ j \in Journal /\ JournalValid(j)
      BY <3>1, NewestLoaded, LoadsType DEF TypeInv, TypeOK, JournalValid, JournalStates
    <3>3. [j EXCEPT !.entry[i] = file[inserted][i]] \in Journal
          /\ [j EXCEPT !.entry[i] = file[inserted][i]].seq = j.seq
      BY <2>1, <3>2, Changed
    <3> QED BY <1>1, <3>1, <3>2, <3>3, SaveStarts
  <2> QED BY <1>4, <2>2, <2>3, ReturnsAway DEF Capture
<1>5. CASE Finish
  <2>1. PICK j \in Loads :
          \/ /\ Loaded(j) /\ JournalValid(j)
             /\ StartSave([j EXCEPT !.state = "COMMITTED"], "finish")
          \/ pc' \in AwayPcs
    BY <1>5, ReturnsAway DEF Finish, Loads
  <2>2. CASE pc' \in AwayPcs BY <1>1, <2>2, AwayKept
  <2>3. CASE /\ Loaded(j) /\ JournalValid(j)
             /\ StartSave([j EXCEPT !.state = "COMMITTED"], "finish")
    <3>1. j = Latest /\ j \in Journal
      BY <2>3, NewestLoaded, LoadsType DEF TypeInv, TypeOK
    <3>2. [j EXCEPT !.state = "COMMITTED"] \in Journal
          /\ [j EXCEPT !.state = "COMMITTED"].seq = j.seq
      BY <3>1, Changed DEF JournalStates
    <3> QED BY <1>1, <2>3, <3>1, <3>2, SaveStarts
  <2> QED BY <2>1, <2>2, <2>3
<1> QED BY <1>2, <1>3, <1>4, <1>5 DEF InstallNext

LEMMA RunSlots ==
  ASSUME "read" \notin FaultKinds, TypeInv, JournalInv, RunNext
  PROVE  JournalInv'
<1>1. slot' = slot
  BY DEF RunNext, Run, RunCheck, Restore, RestoreWrite, RestoreVerify, RestoreDone,
     RemoveDirectory, RollbackDone, usb
<1>2. CASE Run \/ Restore \/ RestoreWrite \/ RestoreVerify \/ RestoreDone
           \/ RemoveDirectory \/ RollbackDone
  <2>1. pc' \notin SavePcs
    BY <1>2, ReturnsAway
    DEF Run, Restore, RestoreWrite, RestoreVerify, RestoreDone, RemoveDirectory,
       RollbackDone, RestoreNext, Step, Loop, AwayPcs, SavePcs
  <2> QED BY <1>1, <2>1, SlotsKept
<1>3. CASE RunCheck
  <2>1. PICK j \in Loads :
          \/ /\ Loaded(j) /\ j.state \in {"ACTIVE", "ROLLING_BACK"}
             /\ StartSave([j EXCEPT !.state = "ROLLING_BACK"], "restore")
          \/ pc' \in AwayPcs
    BY <1>3, ReturnsAway DEF RunCheck, Loads
  <2>2. CASE pc' \in AwayPcs BY <1>1, <2>2, AwayKept
  <2>3. CASE /\ Loaded(j) /\ j.state \in {"ACTIVE", "ROLLING_BACK"}
             /\ StartSave([j EXCEPT !.state = "ROLLING_BACK"], "restore")
    <3>1. j = Latest /\ j \in Journal /\ JournalValid(j)
      BY <2>3, NewestLoaded, LoadsType DEF TypeInv, TypeOK, JournalValid, JournalStates
    <3>2. [j EXCEPT !.state = "ROLLING_BACK"] \in Journal
          /\ [j EXCEPT !.state = "ROLLING_BACK"].seq = j.seq
      BY <3>1, Changed DEF JournalStates
    <3> QED BY <1>1, <2>3, <3>1, <3>2, SaveStarts
  <2> QED BY <2>1, <2>2, <2>3
<1> QED BY <1>2, <1>3 DEF RunNext

-----------------------------------------------------------------------------
LEMMA JournalInvariance ==
  ASSUME "read" \notin FaultKinds
  PROVE  Spec => []JournalInv
<1>1. Init => JournalInv
  BY DEF Init, JournalInv, Parity, OtherNewest, JournalValid, AbsentSlot,
     JournalStates, SavePcs
<1>2. TypeInv /\ JournalInv /\ [Next]_vars => JournalInv'
  <2> SUFFICES ASSUME TypeInv, JournalInv, [Next]_vars PROVE JournalInv'
    OBVIOUS
  <2>1. CASE SaveNext                 BY <2>1, SaveSlots
  <2>2. CASE RemoveNext               BY <2>2, RemoveSlots
  <2>3. CASE ClearNext \/ ProbeNext   BY <2>3, ClearProbeSlots
  <2>4. CASE ArmNext                  BY <2>4, ArmSlots
  <2>5. CASE InstallNext              BY <2>5, InstallSlots
  <2>6. CASE RunNext                  BY <2>6, RunSlots
  <2>7. CASE UiInstall \/ UiRecover \/ UiRefresh \/ PowerCut \/ Boot
    <3>1. pc' \in AwayPcs /\ slot' = slot
      BY <2>7 DEF UiInstall, UiRecover, UiRefresh, Starts, PowerCut, Boot, Step,
                  AwayPcs, usb
    <3> QED BY <3>1, AwayKept
  <2>8. CASE SwapCard \/ UNCHANGED vars
    BY <2>8, SlotsKept DEF SwapCard, vars, usb, ctl
  <2> QED
    BY <2>1, <2>2, <2>3, <2>4, <2>5, <2>6, <2>7, <2>8 DEF Next, Program
<1> QED BY <1>1, <1>2, TypeInvariance, PTL DEF Spec

(* While SaveJournal() writes a generation, the one before it is complete  *)
(* in the other slot and is the newest, wherever the save is cut off or    *)
(* fails (fmcb_recovery.c:393-417), for every number of generations; the   *)
(* one fault excluded is a slot that cannot be read.                       *)
THEOREM NewestAlwaysKept ==
  ASSUME "read" \notin FaultKinds
  PROVE  Spec => []SaveKeepsNewest
<1>1. TypeInv /\ JournalInv => SaveKeepsNewest
  <2> SUFFICES ASSUME TypeInv, JournalInv, pc \in SavePcs, k # "arm"
               PROVE  JournalValid(Latest) /\ Latest.seq = jr.seq - 1
    BY DEF SaveKeepsNewest, SavePcs
  <2>1. slot \in [Slots -> Journal] /\ jr \in Journal
    BY DEF TypeInv, TypeOK, UsbOK, CtlOK
  <2>2. SlotOf(jr.seq) \in Slots BY <2>1, NextSlot DEF Journal
  <2>3. slot[0].seq \in Nat /\ slot[1].seq \in Nat /\ jr.seq \in Nat
    BY <2>1 DEF Slots, Journal
  <2> QED
    BY <2>2, <2>3 DEF JournalInv, OtherNewest, Latest, LatestOf, Slots
<1> QED BY <1>1, TypeInvariance, JournalInvariance, PTL

-----------------------------------------------------------------------------
(***************************************************************************)
(* What FmcbRecoveryFinish() may rely on, for every plan, set of cards,    *)
(* verify policy and every kind and number of faults: the installer only   *)
(* commits what it had to verify and did verify, and what it was told to   *)
(* preserve is untouched.                                                  *)
(*                                                                         *)
(* The argument: the destinations before the one being installed are done  *)
(* (Upto), the one being installed is not a preserved one (Working), and   *)
(* the preserved ones are as they were when the card was armed.            *)
(***************************************************************************)

FileSteps == {"source", "wipe", "write", "writeData", "verify"}
Saves(c) == pc \in SavePcs /\ k = c

InstallPc ==
  \/ pc \in FileSteps \cup {"dirs", "files", "finish"}
  \/ Saves("nextDir") \/ Saves("source") \/ Saves("finish")

Upto(n) ==
  \A f \in Files : f < n /\ ~Skipped(f) /\ MustVerify(f) => file[inserted][f] = "new"

Preserved ==
  InstallPc => \A f \in Files : Skipped(f) => file[inserted][f] = hist.file[f]
Working ==
  /\ pc \in FileSteps \cup {"files"} \/ Saves("source") => Upto(i)
  /\ pc \in FileSteps \/ Saves("source") => ~Skipped(i)
Done ==
  pc = "finish" \/ Saves("finish") => Upto(NFiles + 1)

CommitInv == Preserved /\ Working /\ Done

(* Where the invariant says nothing. *)
OutPcs == Pcs \ (FileSteps \cup {"dirs", "files", "finish"} \cup SavePcs)
Kept == <<file, inserted, inv, opt, hist>>

-----------------------------------------------------------------------------
LEMMA OutStep ==
  ASSUME pc' \in OutPcs
  PROVE  CommitInv'
BY DEF OutPcs, CommitInv, Preserved, Working, Done, InstallPc, Saves, SavePcs, FileSteps

LEMMA OtherSave ==
  ASSUME pc' \in SavePcs, k' \notin {"nextDir", "source", "finish"}
  PROVE  CommitInv'
BY DEF CommitInv, Preserved, Working, Done, InstallPc, Saves, SavePcs, FileSteps

LEMMA ReturnsOut ==
  /\ \A s : ProbeReturns(s) => pc' \in OutPcs
  /\ \A s : InstallReturns(s) => pc' \in OutPcs
  /\ \A r, s : RunReturns(r, s) => pc' \in OutPcs
  /\ StartRollback => pc' \in OutPcs
  /\ \A j, c : StartRemove(j, c) => pc' \in OutPcs
  /\ \A c : StartClear(c) => pc' \in OutPcs
  /\ \A c, s : StartDiscard(c, s) => pc' \in OutPcs
  /\ \A c : ArmFails(c) => pc' \in OutPcs
BY DEF ProbeReturns, InstallReturns, RunReturns, StartRollback, StartRemove, StartClear,
   StartDiscard, ArmFails, OutPcs, Pcs, FileSteps, SavePcs

LEMMA DiscardOut ==
  ASSUME NEW r, NEW s, DiscardReturns(r, s)
  PROVE  pc' \in OutPcs
BY ReturnsOut DEF DiscardReturns, OutPcs, Pcs, FileSteps, SavePcs

LEMMA ClearOut ==
  ASSUME NEW r, ClearReturns(r)
  PROVE  pc' \in OutPcs
BY ReturnsOut, DiscardOut DEF ClearReturns, OutPcs, Pcs, FileSteps, SavePcs

LEMMA KeptMeans ==
  ASSUME UNCHANGED Kept
  PROVE  /\ \A f : Skipped(f)' = Skipped(f) /\ MustVerify(f)' = MustVerify(f)
         /\ \A n : Upto(n)' = Upto(n)
BY DEF Kept, Skipped, MustVerify, Upto

-----------------------------------------------------------------------------
LEMMA SaveCommit ==
  ASSUME TypeInv, CommitInv, SaveNext
  PROVE  CommitInv'
<1>1. CASE SaveOpen
  <2>1. UNCHANGED Kept /\ UNCHANGED <<k, i>> /\ pc \in SavePcs /\ pc' \in SavePcs
    BY <1>1 DEF SaveOpen, Step, Kept, card, SavePcs
  <2>2. Preserved'
    BY <2>1, KeptMeans DEF CommitInv, Preserved, InstallPc, Saves, Kept, FileSteps, SavePcs
  <2>3. Working' /\ Done'
    BY <2>1, KeptMeans DEF CommitInv, Working, Done, Saves, FileSteps, SavePcs
  <2> QED BY <2>2, <2>3 DEF CommitInv
<1>2. CASE SaveWrite
  <2>0. /\ pc \in SavePcs /\ UNCHANGED <<file, inserted>> /\ hist'.file = hist.file
    BY <1>2 DEF SaveWrite, HistAfterSave, Committed, card, SavePcs, TypeInv, TypeOK,
       HistoryOK, History
  <2>1. CASE k = "nextDir" /\ pc' = "dirs" /\ UNCHANGED <<inv, opt>>
    BY <2>0, <2>1
    DEF CommitInv, Preserved, Working, Done, InstallPc, Saves, Skipped, FileSteps, SavePcs
  <2>2. CASE k = "source" /\ pc' = "source" /\ UNCHANGED <<i, inv, opt>>
    BY <2>0, <2>2
    DEF CommitInv, Preserved, Working, Done, InstallPc, Saves, Skipped, MustVerify, Upto,
        FileSteps, SavePcs
  <2>3. CASE pc' \in OutPcs
    BY <2>3, OutStep
  <2> QED BY <1>2, <2>1, <2>2, <2>3, ReturnsOut
      DEF SaveWrite, OutPcs, Pcs, FileSteps, SavePcs
<1>3. CASE SaveFails
  <2>1. pc' \in OutPcs
    BY <1>3, ReturnsOut DEF SaveFails, Step, OutPcs, Pcs, FileSteps, SavePcs
  <2> QED BY <2>1, OutStep
<1> QED BY <1>1, <1>2, <1>3 DEF SaveNext

LEMMA RemoveClearProbeCommit ==
  ASSUME RemoveNext \/ ClearNext \/ ProbeNext
  PROVE  CommitInv'
<1>1. CASE RemoveNext
  <2>1. pc' \in OutPcs
    BY <1>1, ReturnsOut, DiscardOut
    DEF RemoveNext, RemoveBackup, RemoveJournal0, RemoveJournal1, Step, Loop, OutPcs, Pcs,
        FileSteps, SavePcs
  <2> QED BY <2>1, OutStep
<1>2. CASE ClearNext
  <2>1. pc' \in OutPcs
    BY <1>2, ClearOut
    DEF ClearNext, ClearMarker, ClearRefused, ClearToken, Step, OutPcs, Pcs, FileSteps,
        SavePcs
  <2> QED BY <2>1, OutStep
<1>3. CASE ProbeNext
  <2>1. \A c : DiscardEmptyJournal(c) => pc' \in OutPcs
    BY ReturnsOut, DiscardOut DEF DiscardEmptyJournal
  <2>2. pc' \in OutPcs
    BY <1>3, <2>1, ReturnsOut, DiscardOut
    DEF ProbeNext, Probe, Reconcile, TryDiscard, DiscardToken, OutPcs, Pcs, FileSteps,
        SavePcs
  <2> QED BY <2>2, OutStep
<1> QED BY <1>1, <1>2, <1>3

(* Arming a card records what its destinations hold. *)
LEMMA ArmCommit ==
  ASSUME TypeInv, ArmNext
  PROVE  CommitInv'
<1>1. CASE Begin
  <2>1. pc' \in OutPcs \/ (pc' \in SavePcs /\ k' = "arm")
    BY <1>1, ReturnsOut DEF Begin, StartSave, SavePcs
  <2> QED BY <2>1, OutStep, OtherSave
<1>2. CASE ArmUndo
  <2>1. pc' \in OutPcs \/ (pc' \in SavePcs /\ k' \in {"undoKeep", "undoDrop"})
    BY <1>2, ReturnsOut
    DEF ArmUndo, StartSave, Step, TypeInv, IndexOK, OutPcs, Pcs, FileSteps, SavePcs
  <2> QED BY <2>1, OutStep, OtherSave
<1>3. CASE ArmMarkerWrite
  <2>1. CASE pc' = "dirs"
    <3>1. /\ marker' = [marker EXCEPT ![inserted] = token]
          /\ UNCHANGED <<file, inserted>>
      BY <1>3, <2>1 DEF ArmMarkerWrite, ArmFails
    <3>2. marker'[inserted] = token
      BY <3>1 DEF TypeInv, TypeOK, CardsOK
    <3>3. hist'.file = file[inserted]
      BY <1>3, <3>2 DEF ArmMarkerWrite, Armed
    <3> QED BY <2>1, <3>1, <3>3
      DEF CommitInv, Preserved, Working, Done, Saves, FileSteps, SavePcs
  <2> QED BY <1>3, <2>1, ReturnsOut, OutStep DEF ArmMarkerWrite, Loop
<1>4. CASE ArmCheck \/ ArmTokenOpen \/ ArmTokenWrite \/ ArmMarkerOpen
           \/ ArmDropMarker \/ ArmDropToken
  <2>1. pc' \in OutPcs
    BY <1>4, ReturnsOut
    DEF ArmCheck, ArmTokenOpen, ArmTokenWrite, ArmMarkerOpen, ArmDropMarker, ArmDropToken,
        Step, Loop, OutPcs, Pcs, FileSteps, SavePcs
  <2> QED BY <2>1, OutStep
<1> QED BY <1>1, <1>2, <1>3, <1>4 DEF ArmNext

LEMMA InstallCommit ==
  ASSUME TypeInv, CommitInv, InstallNext
  PROVE  CommitInv'
<1>0. /\ file \in [Cards -> [Files -> Content]] /\ inserted \in Cards /\ i \in Nat
  BY DEF TypeInv, TypeOK, CardsOK, CtlOK
<1>1. CASE pc' \in OutPcs
  BY <1>1, OutStep
<1>2. CASE Inventory
  BY <1>1, <1>2, ReturnsOut DEF Inventory, NoSpace, OutPcs, Pcs, FileSteps, SavePcs
<1>3. CASE MakeDirectory
  <2>1. CASE pc = "dirs" /\ pc' = "save" /\ k' = "nextDir" /\ UNCHANGED Kept
    BY <2>1, KeptMeans
    DEF CommitInv, Preserved, Working, Done, InstallPc, Saves, Kept, FileSteps, SavePcs
  <2> QED BY <1>1, <1>3, <2>1, ReturnsOut DEF MakeDirectory, StartSave, Kept
<1>4. CASE DirectoriesDone
  <2>1. pc = "dirs" /\ pc' = "files" /\ i' = 1 /\ UNCHANGED Kept
    BY <1>4 DEF DirectoriesDone, Loop, Kept, card
  <2>2. Upto(i)'
    BY <2>1 DEF Upto, Files
  <2> QED BY <2>1, <2>2, KeptMeans
    DEF CommitInv, Preserved, Working, Done, InstallPc, Saves, Kept, FileSteps, SavePcs
<1>5. CASE SkipFile \/ Verify
  <2>1. CASE /\ pc' = "files" /\ i' = i + 1 /\ UNCHANGED Kept
             /\ pc \in {"files", "verify"}
             /\ ~Skipped(i) /\ MustVerify(i) => file[inserted][i] = "new"
    <3>1. Upto(i)
      BY <2>1 DEF CommitInv, Working, FileSteps
    <3>2. \A f \in Files : f < i + 1 => f < i \/ f = i
      BY <1>0 DEF Files
    <3>3. Upto(i + 1)
      BY <2>1, <3>1, <3>2 DEF Upto
    <3>4. Upto(i)'
      BY <2>1, <3>3, KeptMeans DEF Upto, Kept
    <3> QED BY <2>1, <3>4, KeptMeans
      DEF CommitInv, Preserved, Working, Done, InstallPc, Saves, Kept, FileSteps, SavePcs
  <2> QED BY <1>1, <1>5, <2>1, ReturnsOut DEF SkipFile, Verify, Loop, Kept, card
<1>6. CASE Capture
  <2>1. pc = "files" /\ ~Skipped(i) /\ UNCHANGED <<file, inserted, hist>>
    BY <1>6 DEF Capture, card
  <2>2. CASE pc' = "save" /\ k' = "source" /\ UNCHANGED <<i, inv, opt>>
    <3>1. UNCHANGED Kept
      BY <2>1, <2>2 DEF Kept
    <3> QED BY <2>1, <2>2, <3>1, KeptMeans
      DEF CommitInv, Preserved, Working, Done, InstallPc, Saves, Skipped, MustVerify, Upto,
          Kept, FileSteps, SavePcs
  <2> QED BY <1>1, <1>6, <2>2, ReturnsOut DEF Capture, StartSave
<1>7. CASE FilesDone
  <2>1. pc = "files" /\ pc' = "finish" /\ UNCHANGED Kept /\ i > NFiles
    BY <1>7 DEF FilesDone, Loop, Kept, card
  <2>2. Upto(NFiles + 1)
    <3>1. Upto(i)
      BY <2>1 DEF CommitInv, Working
    <3>2. \A f \in Files : f < i
      BY <1>0, <2>1, NFilesAssumption DEF Files
    <3> QED BY <3>1, <3>2 DEF Upto
  <2> QED BY <2>1, <2>2, KeptMeans
    DEF CommitInv, Preserved, Working, Done, InstallPc, Saves, Kept, FileSteps, SavePcs
<1>8. CASE Source \/ Wipe \/ WriteOpen \/ WriteData
  <2>1. /\ pc \in FileSteps /\ UNCHANGED <<inserted, hist>>
        /\ file' = file \/ \E x : PutFile(x)
    BY <1>8 DEF Source, Wipe, WriteOpen, WriteData, card, FileSteps
  <2>2. ~Skipped(i) /\ Upto(i)
    BY <2>1 DEF CommitInv, Working
  <2>3. \A f \in Files : f # i => file'[inserted][f] = file[inserted][f]
    BY <1>0, <2>1 DEF PutFile
  <2>4. CASE pc' \in FileSteps /\ UNCHANGED <<i, inv, opt>>
    <3>1. \A f : Skipped(f)' = Skipped(f) /\ MustVerify(f)' = MustVerify(f)
      BY <2>4 DEF Skipped, MustVerify
    <3>2. Upto(i)'
      BY <1>0, <2>1, <2>2, <2>3, <2>4, <3>1 DEF Upto, Files
    <3>3. Preserved'
      BY <2>1, <2>2, <2>3, <3>1 DEF CommitInv, Preserved, InstallPc
    <3>4. ~Skipped(i)'
      BY <2>2, <2>4 DEF Skipped
    <3> QED BY <2>4, <3>2, <3>3, <3>4
      DEF CommitInv, Working, Done, Saves, FileSteps, SavePcs
  <2> QED BY <1>1, <1>8, <2>4, ReturnsOut
      DEF Source, Wipe, WriteOpen, WriteData, Step, FileSteps
<1>9. CASE Finish
  <2>1. CASE pc = "finish" /\ pc' = "save" /\ k' = "finish" /\ UNCHANGED Kept
    BY <2>1, KeptMeans
    DEF CommitInv, Preserved, Working, Done, InstallPc, Saves, Kept, FileSteps, SavePcs
  <2> QED BY <1>1, <1>9, <2>1, ReturnsOut DEF Finish, StartSave, Kept, card
<1> QED
  BY <1>2, <1>3, <1>4, <1>5, <1>6, <1>7, <1>8, <1>9 DEF InstallNext

LEMMA RunCommit ==
  ASSUME RunNext
  PROVE  CommitInv'
<1>1. CASE RunCheck
  <2>1. pc' \in OutPcs \/ (pc' \in SavePcs /\ k' = "restore")
    BY <1>1, ReturnsOut DEF RunCheck, StartSave, SavePcs
  <2> QED BY <2>1, OutStep, OtherSave
<1>2. CASE Run \/ Restore \/ RestoreWrite \/ RestoreVerify \/ RestoreDone
           \/ RemoveDirectory \/ RollbackDone
  <2>1. pc' \in OutPcs
    BY <1>2, ReturnsOut
    DEF Run, Restore, RestoreWrite, RestoreVerify, RestoreDone, RemoveDirectory,
        RollbackDone, RestoreNext, Step, Loop, OutPcs, Pcs, FileSteps, SavePcs
  <2> QED BY <2>1, OutStep
<1> QED BY <1>1, <1>2 DEF RunNext

-----------------------------------------------------------------------------
LEMMA CommitStep ==
  ASSUME TypeInv, CommitInv, SwapPoints \subseteq {"idle"}, [Next]_vars
  PROVE  CommitInv'
<1>1. CASE SaveNext                               BY <1>1, SaveCommit
<1>2. CASE RemoveNext \/ ClearNext \/ ProbeNext   BY <1>2, RemoveClearProbeCommit
<1>3. CASE ArmNext                                BY <1>3, ArmCommit
<1>4. CASE InstallNext                            BY <1>4, InstallCommit
<1>5. CASE RunNext                                BY <1>5, RunCommit
<1>6. CASE UiInstall \/ UiRecover \/ UiRefresh \/ PowerCut \/ Boot \/ SwapCard
  <2>1. pc' \in OutPcs
    BY <1>6 DEF UiInstall, UiRecover, UiRefresh, Starts, PowerCut, Boot, SwapCard, Step,
                ctl, OutPcs, Pcs, FileSteps, SavePcs
  <2> QED BY <2>1, OutStep
<1>7. CASE UNCHANGED vars
  <2>1. UNCHANGED Kept /\ UNCHANGED <<pc, k, i>>
    BY <1>7 DEF vars, Kept, card, ctl
  <2>2. Preserved'
    BY <2>1, KeptMeans DEF CommitInv, Preserved, InstallPc, Saves, Kept
  <2>3. Working' /\ Done'
    BY <2>1, KeptMeans DEF CommitInv, Working, Done, Saves
  <2> QED BY <2>2, <2>3 DEF CommitInv
<1> QED
  BY <1>1, <1>2, <1>3, <1>4, <1>5, <1>6, <1>7 DEF Next, Program

(* FmcbInstallCrossRegionTransactional() reaches FmcbRecoveryFinish() only *)
(* when every destination it had to verify holds the new bytes and every   *)
(* preserved FREEMCB.CNF is what it was when the card was armed, for every *)
(* plan, policy and every kind and number of faults.                       *)
THEOREM CommitAlwaysInstalled ==
  ASSUME SwapPoints \subseteq {"idle"}
  PROVE  Spec => []CommitMeansInstalled
<1>1. Init => CommitInv
  BY DEF Init, CommitInv, Preserved, Working, Done, InstallPc, Saves, SavePcs, FileSteps
<1>2. TypeInv /\ CommitInv /\ [Next]_vars => CommitInv'
  BY CommitStep
<1>3. CommitInv => CommitMeansInstalled
  <2> SUFFICES ASSUME CommitInv, pc = "finish" \/ Saves("finish"), NEW f \in Files
               PROVE  IF Skipped(f) THEN file[inserted][f] = hist.file[f]
                                    ELSE MustVerify(f) => file[inserted][f] = "new"
    BY DEF CommitMeansInstalled, MustVerify, Saves, SavePcs
  <2>1. InstallPc /\ Upto(NFiles + 1)
    BY DEF CommitInv, Done, InstallPc
  <2>2. f < NFiles + 1
    BY NFilesAssumption DEF Files
  <2> QED BY <2>1, <2>2 DEF CommitInv, Preserved, Upto
<1> QED BY <1>1, <1>2, <1>3, TypeInvariance, PTL DEF Spec

-----------------------------------------------------------------------------
(***************************************************************************)
(* The promise of the recovery journal, for every plan, set of cards and   *)
(* number of faults other than an unreadable slot, if cards are exchanged  *)
(* only at the menu: until a transaction has ended, whatever differs from  *)
(* what the card held before it is in the newest journal, and backed up.   *)
(*                                                                         *)
(* The argument: entries are made while the destination is untouched, so   *)
(* they tell the truth (Truth); journals of one transaction only grow      *)
(* (Grows); a destination is written only after its entry was saved        *)
(* (CapturedFirst) and restored only from the newest journal (Restoring);  *)
(* and slots and backups are removed only when nothing is captured or the  *)
(* transaction has ended (RemovingOK).                                     *)
(***************************************************************************)

Valid == {s \in Slots : JournalValid(slot[s])}

(* What journal j says of a destination is what the card held.             *)
Truth(j) ==
  \A f \in Files : j.entry[f] # "none" =>
    /\ j.entry[f] = hist.file[f]
    /\ HasBackup(hist.file[f]) => backup[f] = hist.file[f]
Grows(old, new) ==
  \A f \in Files : old.entry[f] # "none" => new.entry[f] = old.entry[f]
BlankFrom(j, n) == \A f \in Files : f >= n => j.entry[f] = "none"
Uncaptured(n) == \A s \in Valid : BlankFrom(slot[s], n)

ArmPcs == {"arm", "armToken", "armTokenWrite", "armMarker", "armMarkerWrite", "undo"}
RestorePcs == {"restore", "restoreWrite", "restoreVerify"}
RemovePcs == {"rmBackup", "rmJournal1"}

SlotsTrue ==
  hist.open =>
    \A s \in Valid : /\ Truth(slot[s]) /\ slot[s].state # "COMMITTED"
                     /\ Grows(slot[s], Latest)
Saving ==
  pc \in SavePcs =>
    /\ JournalValid(jr)
    /\ hist.open /\ k # "arm" => Truth(jr) /\ Grows(Latest, jr)
    /\ k \in {"arm", "nextDir", "undoKeep", "undoDrop"} => Uncaptured(1) /\ BlankFrom(jr, 1)
    /\ k = "arm" => Valid = {} /\ jr.state = "ACTIVE"
    /\ k = "source" => /\ Uncaptured(i) /\ jr.entry[i] # "none" /\ BlankFrom(jr, i + 1)
    /\ jr.state = "COMMITTED" => k = "finish"
    /\ k = "finish" => jr.state = "COMMITTED"
Arming ==
  pc \in ArmPcs => Uncaptured(1) /\ \A s \in Valid : slot[s].state # "COMMITTED"
Installing ==
  /\ pc = "dirs" => Uncaptured(1)
  /\ pc = "files" => Uncaptured(i)
  /\ pc \in {"source", "wipe", "write", "writeData", "verify"} => Uncaptured(i + 1)
CapturedFirst ==
  pc \in {"source", "wipe", "write", "writeData"} =>
    JournalValid(Latest) /\ Latest.entry[i] # "none"
Restoring ==
  pc \in RestorePcs => JournalValid(Latest) /\ Latest.entry = jr.entry
RemovingOK ==
  pc \in RemovePcs /\ hist.open => Uncaptured(1) /\ BlankFrom(jr, 1)

RecoverInv ==
  /\ Recoverable /\ SlotsTrue /\ Saving /\ Arming /\ Installing /\ CapturedFirst
  /\ Restoring /\ RemovingOK

QuietPcs ==
  {"idle", "off", "probe", "reconcile", "tryDiscard", "dropToken", "inventory",
   "begin", "dropMarker", "finish", "run", "runCheck", "rmDirs", "clear",
   "clearToken"}
Durable == <<slot, backup, file, hist>>
InPlace == Saving /\ Arming /\ Installing /\ CapturedFirst /\ Restoring /\ RemovingOK

-----------------------------------------------------------------------------
(* What the newest journal is, and what blank journals say. *)

LEMMA LatestSlot ==
  /\ JournalValid(Latest) => \E s \in Valid : Latest = slot[s]
  /\ ~JournalValid(Latest) => Valid = {}
<1>1. ~JournalValid(AbsentSlot) /\ ~JournalValid(TornSlot)
  BY DEF JournalValid, AbsentSlot, TornSlot, JournalStates
<1> QED BY <1>1 DEF Latest, LatestOf, Valid, Slots

LEMMA BlankTruth ==
  ASSUME NEW j, BlankFrom(j, 1)
  PROVE  Truth(j) /\ (\A x : Grows(j, x))
BY DEF BlankFrom, Truth, Grows, Files

(* A destination that is in no journal is as it was. *)
LEMMA UntouchedFile ==
  ASSUME TypeInv, Recoverable, hist.open, NEW f \in Files,
         JournalValid(Latest) => Latest.entry[f] = "none"
  PROVE  file[hist.card][f] = hist.file[f]
<1>1. hist.file[f] \in Content
  BY DEF TypeInv, TypeOK, HistoryOK, History
<1> QED BY <1>1 DEF Recoverable, Content

-----------------------------------------------------------------------------
(* Steps that leave the durable objects alone. *)

LEMMA CoreKept ==
  ASSUME Recoverable, SlotsTrue, UNCHANGED Durable
  PROVE  Recoverable' /\ SlotsTrue'
<1>1. slot' = slot /\ backup' = backup /\ file' = file /\ hist' = hist
  BY DEF Durable
<1>2. Latest' = Latest /\ Valid' = Valid
  BY <1>1 DEF Latest, Valid
<1> QED BY <1>1, <1>2 DEF Recoverable, SlotsTrue, Truth, Grows

LEMMA QuietPlace ==
  ASSUME pc' \in QuietPcs
  PROVE  InPlace'
BY DEF QuietPcs, InPlace, Saving, Arming, Installing, CapturedFirst, Restoring,
   RemovingOK, SavePcs, ArmPcs, RestorePcs, RemovePcs

LEMMA QuietRecover ==
  ASSUME RecoverInv, UNCHANGED Durable, pc' \in QuietPcs
  PROVE  RecoverInv'
BY CoreKept, QuietPlace DEF RecoverInv, InPlace

LEMMA ReturnsQuiet ==
  /\ \A s : ProbeReturns(s) => pc' \in QuietPcs
  /\ \A s : InstallReturns(s) => pc' \in QuietPcs
  /\ \A r, s : RunReturns(r, s) => pc' \in QuietPcs
  /\ StartRollback => pc' \in QuietPcs
  /\ \A c : StartClear(c) => pc' \in QuietPcs
  /\ \A c, s : StartDiscard(c, s) => pc' \in QuietPcs
BY DEF ProbeReturns, InstallReturns, RunReturns, StartRollback, StartClear,
   StartDiscard, QuietPcs

LEMMA DiscardQuiet ==
  ASSUME NEW r, NEW s, DiscardReturns(r, s)
  PROVE  pc' \in QuietPcs
BY ReturnsQuiet DEF DiscardReturns, QuietPcs

LEMMA ClearQuiet ==
  ASSUME NEW r, ClearReturns(r)
  PROVE  pc' \in QuietPcs
BY ReturnsQuiet, DiscardQuiet DEF ClearReturns, QuietPcs

(* A save, a removal starts where its part of the invariant holds. *)
LEMMA AtSave ==
  ASSUME RecoverInv, Recoverable', SlotsTrue', pc' = "save", Saving'
  PROVE  RecoverInv'
BY DEF RecoverInv, Arming, Installing, CapturedFirst, Restoring, RemovingOK, ArmPcs,
   RestorePcs, RemovePcs

LEMMA AtRemove ==
  ASSUME RecoverInv, Recoverable', SlotsTrue', pc' = "rmBackup", RemovingOK'
  PROVE  RecoverInv'
BY DEF RecoverInv, Saving, Arming, Installing, CapturedFirst, Restoring, SavePcs, ArmPcs,
   RestorePcs

-----------------------------------------------------------------------------
(* SaveJournal() *)

(* Opening a slot for a journal loses at most the older generation.        *)
LEMMA SlotOpened ==
  ASSUME TypeInv, JournalInv, RecoverInv, SaveOpen
  PROVE  /\ Valid' \subseteq Valid /\ \A v \in Valid' : slot'[v] = slot[v]
         /\ k = "arm" => Valid = {}
         /\ k # "arm" => Latest' = Latest
<1> DEFINE s == SlotOf(jr.seq)
<1>1. slot \in [Slots -> Journal] /\ jr \in Journal
  BY DEF TypeInv, TypeOK, UsbOK, CtlOK
<1>2. s \in Slots /\ 1 - s \in Slots /\ 1 - s # s
  BY <1>1, NextSlot DEF Journal, Slots
<1>3. PICK t \in {AbsentSlot, TornSlot} : slot' = [slot EXCEPT ![s] = t]
  BY DEF SaveOpen
<1>4. ~JournalValid(t)
  BY DEF JournalValid, AbsentSlot, TornSlot, JournalStates
<1>5. pc \in SavePcs
  BY DEF SaveOpen, SavePcs
<1>6. Valid' \subseteq Valid /\ \A v \in Valid' : slot'[v] = slot[v]
  BY <1>1, <1>2, <1>3, <1>4 DEF Valid
<1>7. k = "arm" => Valid = {}
  BY <1>5 DEF RecoverInv, Saving
<1>8. ASSUME k # "arm" PROVE Latest' = Latest
  <2>1. /\ JournalValid(slot[1 - s]) /\ slot[1 - s].seq = jr.seq - 1
        /\ JournalValid(slot[s]) => slot[s].seq < jr.seq - 1
    BY <1>5, <1>8 DEF JournalInv, OtherNewest
  <2>2. slot[0].seq \in Nat /\ slot[1].seq \in Nat /\ jr.seq \in Nat
    BY <1>1 DEF Slots, Journal
  <2>3. Latest = slot[1 - s]
    BY <1>2, <2>1, <2>2 DEF Latest, LatestOf, Slots
  <2>4. Latest' = slot[1 - s]
    BY <1>1, <1>2, <1>3, <1>4, <2>1 DEF Latest, LatestOf, Slots
  <2> QED BY <2>3, <2>4
<1> QED BY <1>6, <1>7, <1>8

LEMMA SaveOpenRecover ==
  ASSUME TypeInv, JournalInv, RecoverInv, SaveOpen
  PROVE  RecoverInv'
<1>1. /\ UNCHANGED <<backup, file, hist, k, jr, i>>
      /\ pc \in SavePcs /\ pc' = "saveWrite"
  BY DEF SaveOpen, Step, card, SavePcs
<1>2. /\ Valid' \subseteq Valid /\ \A v \in Valid' : slot'[v] = slot[v]
      /\ k = "arm" => Valid = {}
      /\ k # "arm" => Latest' = Latest
  BY SlotOpened
<1>3. CASE k = "arm"
  <2>1. Valid = {} /\ Valid' = {}
    BY <1>2, <1>3
  <2>2. ~JournalValid(Latest)
    BY <2>1, LatestSlot
  <2>3. Recoverable'
    BY <1>1, <2>2 DEF RecoverInv, Recoverable
  <2>4. SlotsTrue'
    BY <2>1 DEF SlotsTrue
  <2>5. Saving'
    BY <1>1, <1>3, <2>1 DEF RecoverInv, Saving, Uncaptured, BlankFrom, SavePcs
  <2> QED BY <1>1, <2>3, <2>4, <2>5
    DEF RecoverInv, Arming, Installing, CapturedFirst, Restoring, RemovingOK, ArmPcs,
        RestorePcs, RemovePcs
<1>4. CASE k # "arm"
  <2>1. Latest' = Latest
    BY <1>2, <1>4
  <2>2. Recoverable'
    BY <1>1, <2>1 DEF RecoverInv, Recoverable
  <2>3. SlotsTrue'
    BY <1>1, <1>2, <2>1 DEF RecoverInv, SlotsTrue, Truth, Grows
  <2>4. Saving'
    BY <1>1, <1>2, <1>4, <2>1
    DEF RecoverInv, Saving, Uncaptured, BlankFrom, Truth, Grows, SavePcs
  <2> QED BY <1>1, <2>2, <2>3, <2>4
    DEF RecoverInv, Arming, Installing, CapturedFirst, Restoring, RemovingOK, ArmPcs,
        RestorePcs, RemovePcs
<1> QED BY <1>3, <1>4

(* The complete journal is the newest; the other slot keeps what it held.  *)
LEMMA SlotSaved ==
  ASSUME TypeInv, JournalInv, RecoverInv, pc \in SavePcs, SavedJournal
  PROVE  /\ Latest' = jr /\ JournalValid(jr)
         /\ k # "arm" => JournalValid(Latest)
         /\ \A v \in Valid' : slot'[v] = jr \/ (v \in Valid /\ slot'[v] = slot[v])
<1> DEFINE s == SlotOf(jr.seq)
<1>1. slot \in [Slots -> Journal] /\ jr \in Journal
  BY DEF TypeInv, TypeOK, UsbOK, CtlOK
<1>2. s \in Slots /\ 1 - s \in Slots /\ 1 - s # s
  BY <1>1, NextSlot DEF Journal, Slots
<1>3. slot' = [slot EXCEPT ![s] = jr] /\ JournalValid(jr)
  BY DEF SavedJournal, RecoverInv, Saving
<1>4. \A v \in Valid' : slot'[v] = jr \/ (v \in Valid /\ slot'[v] = slot[v])
  BY <1>1, <1>2, <1>3 DEF Valid, Slots
<1>5. slot[0].seq \in Nat /\ slot[1].seq \in Nat /\ jr.seq \in Nat
  BY <1>1 DEF Slots, Journal
<1>6. k = "arm" => ~JournalValid(slot[1 - s])
  BY <1>2 DEF RecoverInv, Saving, Valid
<1>7. k # "arm" => /\ JournalValid(slot[1 - s]) /\ slot[1 - s].seq = jr.seq - 1
                   /\ JournalValid(slot[s]) => slot[s].seq < jr.seq - 1
  BY DEF JournalInv, OtherNewest
<1>8. slot'[s] = jr /\ slot'[1 - s] = slot[1 - s]
  BY <1>1, <1>2, <1>3
<1>9. Latest' = jr
  BY <1>2, <1>3, <1>5, <1>6, <1>7, <1>8 DEF Latest, LatestOf, Slots
<1>10. k # "arm" => JournalValid(Latest)
  BY <1>2, <1>7, LatestSlot DEF Valid
<1> QED BY <1>3, <1>4, <1>9, <1>10

(* The complete journal is the newest, and says no less than the last one. *)
LEMMA JournalSaved ==
  ASSUME TypeInv, JournalInv, RecoverInv, pc \in SavePcs, SavedJournal,
         HistAfterSave, UNCHANGED <<backup, file>>
  PROVE  /\ Recoverable' /\ SlotsTrue' /\ Latest' = jr
         /\ \A n \in Nat : BlankFrom(jr, n) /\ Uncaptured(n) => Uncaptured(n)'
         /\ jr.state = "COMMITTED" => ~hist'.open
         /\ k = "arm" => \A v \in Valid' : slot'[v] = jr
<1>1. hist \in History
  BY DEF TypeInv, TypeOK, HistoryOK
<1>2. /\ Latest' = jr /\ JournalValid(jr)
      /\ \A v \in Valid' : slot'[v] = jr \/ (v \in Valid /\ slot'[v] = slot[v])
  BY SlotSaved
<1>3. k = "arm" => Valid = {} /\ BlankFrom(jr, 1)
  BY DEF RecoverInv, Saving
<1>4. \A n \in Nat : BlankFrom(jr, n) /\ Uncaptured(n) => Uncaptured(n)'
  BY <1>2 DEF Uncaptured, BlankFrom
<1>5. jr.state = "COMMITTED" => ~hist'.open
  BY <1>1 DEF HistAfterSave, Committed, History
<1>6. k = "arm" => \A v \in Valid' : slot'[v] = jr
  BY <1>2, <1>3
<1>7. CASE jr.state = "COMMITTED"
  BY <1>2, <1>4, <1>5, <1>6, <1>7 DEF Recoverable, SlotsTrue
<1>8. CASE jr.state # "COMMITTED"
  <2>1. hist' = hist
    BY <1>8 DEF HistAfterSave
  <2>2. hist.open => Truth(jr)
    BY <1>3, BlankTruth DEF RecoverInv, Saving
  <2>3. SlotsTrue'
    <3> SUFFICES ASSUME hist.open, NEW v \in Valid'
                 PROVE  /\ Truth(slot'[v]) /\ slot'[v].state # "COMMITTED"
                        /\ Grows(slot'[v], jr)
      BY <1>2, <2>1 DEF SlotsTrue, Truth, Grows
    <3>1. CASE slot'[v] = jr
      BY <1>2, <1>8, <2>1, <2>2, <3>1 DEF Truth, Grows
    <3>2. CASE v \in Valid /\ slot'[v] = slot[v]
      <4>1. k # "arm"
        BY <1>3, <3>2
      <4>2. Grows(slot[v], Latest) /\ Grows(Latest, jr)
        BY <3>2, <4>1 DEF RecoverInv, Saving, SlotsTrue
      <4>3. Truth(slot[v]) /\ slot[v].state # "COMMITTED"
        BY <3>2 DEF RecoverInv, SlotsTrue
      <4> QED BY <1>2, <2>1, <3>2, <4>2, <4>3 DEF Truth, Grows
    <3> QED BY <1>2, <3>1, <3>2
  <2>4. Recoverable'
    <3> SUFFICES ASSUME hist.open, NEW f \in Files, file[hist.card][f] # hist.file[f]
                 PROVE  /\ jr.entry[f] = hist.file[f]
                        /\ HasBackup(hist.file[f]) => backup[f] = hist.file[f]
      BY <1>2, <2>1 DEF Recoverable
    <3>1. /\ JournalValid(Latest) /\ Latest.entry[f] = hist.file[f]
          /\ HasBackup(hist.file[f]) => backup[f] = hist.file[f]
      BY DEF RecoverInv, Recoverable
    <3>2. k # "arm"
      BY <1>3, <3>1, LatestSlot
    <3>3. hist.file[f] # "none"
      BY <1>1 DEF History, Content
    <3>4. Grows(Latest, jr)
      BY <3>2 DEF RecoverInv, Saving
    <3> QED BY <3>1, <3>3, <3>4 DEF Grows
  <2> QED BY <1>2, <1>4, <1>5, <1>6, <2>3, <2>4
<1> QED BY <1>7, <1>8

LEMMA SaveRecover ==
  ASSUME TypeInv, JournalInv, RecoverInv, SaveNext
  PROVE  RecoverInv'
<1>1. CASE SaveOpen
  BY <1>1, SaveOpenRecover
<1>2. CASE SaveFails
  <2>1. pc' \in QuietPcs
    BY <1>2, ReturnsQuiet DEF SaveFails, Step, QuietPcs
  <2>2. CASE UNCHANGED <<slot, hist>>
    BY <1>2, <2>1, <2>2, QuietRecover DEF SaveFails, Durable, card
  <2>3. CASE SavedJournal /\ HistAfterSave
    <3>1. Recoverable' /\ SlotsTrue'
      BY <1>2, <2>3, JournalSaved DEF SaveFails, card, SavePcs
    <3> QED BY <2>1, <3>1, QuietPlace DEF RecoverInv, InPlace
  <2> QED BY <1>2, <2>2, <2>3 DEF SaveFails
<1>3. CASE SaveWrite
  <2>1. /\ Recoverable' /\ SlotsTrue' /\ Latest' = jr
        /\ \A n \in Nat : BlankFrom(jr, n) /\ Uncaptured(n) => Uncaptured(n)'
        /\ jr.state = "COMMITTED" => ~hist'.open
        /\ k = "arm" => \A v \in Valid' : slot'[v] = jr
    BY <1>3, JournalSaved DEF SaveWrite, card, SavePcs
  <2>2. JournalValid(jr) /\ pc \in SavePcs
    BY <1>3 DEF RecoverInv, Saving, SaveWrite, SavePcs
  <2>3. CASE k = "arm" /\ pc' = "arm"
    <3>1. BlankFrom(jr, 1) /\ jr.state = "ACTIVE"
      BY <2>2, <2>3 DEF RecoverInv, Saving
    <3>2. Arming'
      BY <2>1, <2>3, <3>1 DEF Arming, Uncaptured
    <3> QED BY <2>1, <2>3, <3>2
      DEF RecoverInv, Saving, Installing, CapturedFirst, Restoring, RemovingOK,
          SavePcs, RestorePcs, RemovePcs
  <2>4. CASE k = "nextDir" /\ pc' = "dirs"
    <3>1. Uncaptured(1)'
      BY <2>1, <2>2, <2>4 DEF RecoverInv, Saving
    <3> QED BY <2>1, <2>4, <3>1
      DEF RecoverInv, Saving, Arming, Installing, CapturedFirst, Restoring, RemovingOK,
          SavePcs, ArmPcs, RestorePcs, RemovePcs
  <2>5. CASE k = "source" /\ pc' = "source" /\ UNCHANGED <<jr, i>>
    <3>1. i + 1 \in Nat /\ i \in Nat
      BY DEF TypeInv, TypeOK, CtlOK
    <3>2. Uncaptured(i) /\ jr.entry[i] # "none" /\ BlankFrom(jr, i + 1)
      BY <2>2, <2>5 DEF RecoverInv, Saving
    <3>3. Uncaptured(i + 1)
      BY <3>1, <3>2 DEF Uncaptured, BlankFrom, Files
    <3>4. Uncaptured(i + 1)'
      BY <2>1, <2>5, <3>1, <3>2, <3>3 DEF Uncaptured, BlankFrom
    <3> QED BY <2>1, <2>2, <2>5, <3>2, <3>4
      DEF RecoverInv, Saving, Arming, Installing, CapturedFirst, Restoring, RemovingOK,
          SavePcs, ArmPcs, RestorePcs, RemovePcs
  <2>6. CASE k = "restore" /\ pc' = "restore" /\ UNCHANGED jr
    BY <2>1, <2>2, <2>6
    DEF RecoverInv, Saving, Arming, Installing, CapturedFirst, Restoring, RemovingOK,
        SavePcs, ArmPcs, RestorePcs, RemovePcs
  <2>7. CASE k \in {"undoKeep", "undoDrop", "finish"} /\ pc' = "rmBackup" /\ jr' = jr
    <3>1. k = "finish" => jr.state = "COMMITTED"
      BY <2>2 DEF RecoverInv, Saving
    <3>2. k # "finish" => Uncaptured(1)' /\ BlankFrom(jr, 1)
      BY <2>1, <2>2, <2>7 DEF RecoverInv, Saving
    <3>3. RemovingOK'
      BY <2>1, <2>7, <3>1, <3>2 DEF RemovingOK, BlankFrom
    <3> QED BY <2>1, <2>7, <3>3, AtRemove
  <2> QED
    BY <1>3, <2>3, <2>4, <2>5, <2>6, <2>7 DEF SaveWrite, StartRemove
<1> QED BY <1>1, <1>2, <1>3 DEF SaveNext

-----------------------------------------------------------------------------
(* RemoveRecoveryFiles() *)

(* Slots that say nothing can go: then the card is as it was.              *)
LEMMA BlankRemoved ==
  ASSUME TypeInv, RecoverInv, hist.open => Uncaptured(1),
         NEW s \in Slots, slot' = [slot EXCEPT ![s] = AbsentSlot],
         UNCHANGED <<file, hist>>
  PROVE  Recoverable' /\ SlotsTrue' /\ (hist.open => Uncaptured(1)')
<1> SUFFICES ASSUME hist.open PROVE Recoverable' /\ SlotsTrue' /\ Uncaptured(1)'
  BY DEF Recoverable, SlotsTrue
<1>1. ~JournalValid(AbsentSlot)
  BY DEF JournalValid, AbsentSlot, JournalStates
<1>2. Valid' \subseteq Valid /\ \A v \in Valid' : slot'[v] = slot[v]
  BY <1>1 DEF Valid, TypeInv, TypeOK, UsbOK
<1>3. \A f \in Files : JournalValid(Latest) => Latest.entry[f] = "none"
  BY LatestSlot DEF Uncaptured, BlankFrom, Files
<1>4. \A f \in Files : file[hist.card][f] = hist.file[f]
  BY <1>3, UntouchedFile DEF RecoverInv
<1>5. Recoverable'
  BY <1>4 DEF Recoverable
<1>6. Uncaptured(1)'
  BY <1>2 DEF Uncaptured, BlankFrom
<1>7. SlotsTrue'
  BY <1>2, <1>6 DEF SlotsTrue, Truth, Grows, Uncaptured, BlankFrom, Files, RecoverInv
<1> QED BY <1>5, <1>6, <1>7

LEMMA RemoveRecover ==
  ASSUME TypeInv, RecoverInv, RemoveNext
  PROVE  RecoverInv'
<1>1. CASE RemoveBackup
  <2>1. /\ pc = "rmBackup" /\ pc' = "rmBackup" /\ i \in Files
        /\ UNCHANGED <<slot, file, hist, jr>>
        /\ jr.entry[i] = "none" => UNCHANGED backup
    BY <1>1 DEF RemoveBackup, Loop, card, TypeInv, TypeOK, CtlOK, IndexOK, UpPcs, Files
  <2>2. hist.open => Uncaptured(1) /\ BlankFrom(jr, 1)
    BY <2>1 DEF RecoverInv, RemovingOK, RemovePcs
  <2>3. hist.open => UNCHANGED Durable
    BY <2>1, <2>2 DEF BlankFrom, Files, Durable
  <2>4. Recoverable' /\ SlotsTrue'
    <3>1. CASE hist.open
      BY <2>3, <3>1, CoreKept DEF RecoverInv
    <3>2. CASE ~hist.open
      BY <2>1, <3>2 DEF Recoverable, SlotsTrue
    <3> QED BY <3>1, <3>2
  <2>5. RemovingOK'
    BY <2>1, <2>2 DEF RemovingOK, Uncaptured, Valid, BlankFrom
  <2> QED BY <2>1, <2>4, <2>5, AtRemove
<1>2. CASE RemoveJournal0 \/ RemoveJournal1
  <2>1. /\ pc \in RemovePcs /\ UNCHANGED <<backup, file, hist>>
        /\ slot' = slot \/ \E s \in Slots : slot' = [slot EXCEPT ![s] = AbsentSlot]
    BY <1>2 DEF RemoveJournal0, RemoveJournal1, Removed, card, Slots, RemovePcs
  <2>2. hist.open => Uncaptured(1) /\ BlankFrom(jr, 1)
    BY <2>1 DEF RecoverInv, RemovingOK
  <2>3. Recoverable' /\ SlotsTrue' /\ (hist.open => Uncaptured(1)')
    <3>1. CASE slot' = slot
      BY <2>1, <2>2, <3>1, CoreKept DEF RecoverInv, Durable, Uncaptured, Valid
    <3> QED BY <2>1, <2>2, <3>1, BlankRemoved
  <2>4. CASE RemoveJournal0
    <3>1. pc' = "rmJournal1" /\ jr' = jr
      BY <2>4 DEF RemoveJournal0, Step
    <3>2. RemovingOK'
      BY <2>1, <2>2, <2>3, <3>1 DEF RemovingOK, BlankFrom
    <3> QED BY <2>3, <3>1, <3>2
      DEF RecoverInv, Saving, Arming, Installing, CapturedFirst, Restoring, SavePcs,
          ArmPcs, RestorePcs
  <2>5. CASE RemoveJournal1
    <3>1. pc' \in QuietPcs
      BY <2>5, ReturnsQuiet, DiscardQuiet DEF RemoveJournal1, Loop, QuietPcs
    <3> QED BY <2>3, <3>1, QuietPlace DEF RecoverInv, InPlace
  <2> QED BY <1>2, <2>4, <2>5
<1> QED BY <1>1, <1>2 DEF RemoveNext

-----------------------------------------------------------------------------
(* Probing and clearing: what is removed is committed, or says nothing.    *)

LEMMA StartsRemoving ==
  ASSUME TypeInv, RecoverInv, UNCHANGED Durable, NEW c, JournalValid(Latest),
         StartRemove(Latest, c), Latest.state = "COMMITTED" \/ ~Prepared(Latest)
  PROVE  RecoverInv'
<1>1. Recoverable' /\ SlotsTrue'
  BY CoreKept DEF RecoverInv
<1>2. pc' = "rmBackup" /\ jr' = Latest
  BY DEF StartRemove
<1>3. hist.open => Latest.state # "COMMITTED"
  BY LatestSlot DEF RecoverInv, SlotsTrue
<1>4. hist.open => BlankFrom(Latest, 1) /\ Uncaptured(1)
  <2>1. hist.open => ~Prepared(Latest)
    BY <1>3
  <2>2. hist.open => \A v \in Valid : Grows(slot[v], Latest)
    BY DEF RecoverInv, SlotsTrue
  <2> QED BY <2>1, <2>2 DEF BlankFrom, Uncaptured, Prepared, Grows
<1>5. RemovingOK'
  BY <1>2, <1>4 DEF RemovingOK, Uncaptured, Valid, BlankFrom, Durable
<1> QED BY <1>1, <1>2, <1>5, AtRemove

LEMMA ClearProbeRecover ==
  ASSUME "read" \notin FaultKinds, TypeInv, RecoverInv, ClearNext \/ ProbeNext
  PROVE  RecoverInv'
<1>1. UNCHANGED Durable
  BY DEF ClearNext, ProbeNext, ClearMarker, ClearRefused, ClearToken, Probe, Reconcile,
     TryDiscard, DiscardToken, Durable, usb, card
<1>2. CASE pc' \in QuietPcs
  BY <1>1, <1>2, QuietRecover
<1>3. CASE ClearNext \/ Reconcile \/ DiscardToken
  <2>1. pc' \in QuietPcs
    BY <1>3, ClearQuiet, ReturnsQuiet, DiscardQuiet
    DEF ClearNext, ClearMarker, ClearRefused, ClearToken, Step, Reconcile, DiscardToken,
        QuietPcs
  <2> QED BY <1>2, <2>1
<1>4. CASE Probe
  <2>1. PICK j \in Loads :
          /\ Loaded(j)
          /\ \/ j.state = "COMMITTED" /\ StartRemove(j, "reconcile")
             \/ pc' \in QuietPcs
    BY <1>4, ReturnsQuiet DEF Probe, QuietPcs
  <2>2. j = Latest
    BY <2>1, NewestLoaded
  <2>3. j.state = "COMMITTED" => JournalValid(j)
    BY DEF JournalValid, JournalStates
  <2> QED BY <1>1, <1>2, <2>1, <2>2, <2>3, StartsRemoving
<1>5. CASE TryDiscard
  <2>1. CASE pc' \notin QuietPcs
    <3>1. PICK c : DiscardEmptyJournal(c)
      BY <1>5, <2>1, DiscardQuiet DEF TryDiscard
    <3>2. PICK j \in Loads : Loaded(j) /\ Discardable(j) /\ StartRemove(j, c)
      BY <2>1, <3>1, DiscardQuiet DEF DiscardEmptyJournal
    <3>3. j = Latest /\ JournalValid(j) /\ ~Prepared(j)
      BY <3>2, NewestLoaded DEF Discardable, JournalValid, JournalStates
    <3> QED BY <1>1, <3>2, <3>3, StartsRemoving
  <2> QED BY <1>2, <2>1
<1> QED BY <1>3, <1>4, <1>5 DEF ClearNext, ProbeNext

-----------------------------------------------------------------------------
(* Saves that start from the newest journal. *)

(* The journal to be saved says what the newest one says, and changes only *)
(* its state or its directories.                                           *)
LEMMA StartsSaving ==
  ASSUME TypeInv, RecoverInv, UNCHANGED Durable, JournalValid(Latest),
         NEW x \in Journal, x.entry = Latest.entry, JournalValid(x),
         NEW c, c \notin {"arm", "source"}, StartSave(x, c),
         c \in {"nextDir", "undoKeep", "undoDrop"} => Uncaptured(1),
         x.state = "COMMITTED" <=> c = "finish"
  PROVE  RecoverInv'
<1>1. Recoverable' /\ SlotsTrue'
  BY CoreKept DEF RecoverInv
<1>2. /\ pc' = "save" /\ k' = c /\ jr' = [x EXCEPT !.seq = @ + 1]
      /\ jr'.entry = Latest.entry /\ jr'.state = x.state
  BY DEF StartSave, Journal
<1>3. UNCHANGED <<slot, backup, file, hist>> /\ Latest' = Latest /\ Valid' = Valid
  BY DEF Durable, Latest, Valid
<1>4. hist.open => Truth(Latest)
  BY LatestSlot DEF RecoverInv, SlotsTrue
<1>5. Uncaptured(1) => BlankFrom(Latest, 1)
  BY LatestSlot DEF Uncaptured
<1>6. Saving'
  BY <1>2, <1>3, <1>4, <1>5
  DEF Saving, JournalValid, Truth, Grows, Uncaptured, BlankFrom
<1> QED BY <1>1, <1>2, <1>6, AtSave

LEMMA ArmRecover ==
  ASSUME "read" \notin FaultKinds, TypeInv, RecoverInv, ArmNext
  PROVE  RecoverInv'
<1>1. UNCHANGED <<slot, backup, file>>
  BY DEF ArmNext, Begin, ArmCheck, ArmTokenOpen, ArmTokenWrite, ArmMarkerOpen,
     ArmMarkerWrite, ArmUndo, ArmDropMarker, ArmDropToken, usb, card
<1>2. ~ArmMarkerWrite => UNCHANGED Durable
  BY <1>1 DEF ArmNext, Begin, ArmCheck, ArmTokenOpen, ArmTokenWrite, ArmMarkerOpen,
     ArmUndo, ArmDropMarker, ArmDropToken, Durable
<1>3. CASE Begin
  <2>0. UNCHANGED Durable
    BY <1>3 DEF Begin, Durable, usb, card
  <2>1. CASE pc' \in QuietPcs
    BY <2>0, <2>1, QuietRecover
  <2>2. CASE \E j \in Loads : Loaded(j) /\ j.state = "absent" /\ StartSave(EmptyJournal, "arm")
    <3>1. ~JournalValid(Latest)
      BY <2>2, NewestLoaded DEF JournalValid, JournalStates
    <3>2. Valid = {} /\ Valid' = {}
      BY <1>1, <3>1, LatestSlot DEF Valid
    <3>3. /\ pc' = "save" /\ k' = "arm" /\ jr'.state = "ACTIVE"
          /\ jr'.entry = NoEntries
      BY <2>2 DEF StartSave, EmptyJournal, AbsentSlot
    <3>4. Saving'
      BY <3>2, <3>3
      DEF Saving, JournalValid, JournalStates, Uncaptured, BlankFrom, NoEntries
    <3> QED BY <2>0, <3>3, <3>4, CoreKept, AtSave DEF RecoverInv
  <2> QED BY <1>3, <2>1, <2>2, ReturnsQuiet DEF Begin
<1>4. CASE ArmCheck \/ ArmTokenOpen \/ ArmTokenWrite \/ ArmMarkerOpen
  <2>1. pc \in ArmPcs /\ pc' \in ArmPcs
    BY <1>4 DEF ArmCheck, ArmTokenOpen, ArmTokenWrite, ArmMarkerOpen, ArmFails, Step, ArmPcs
  <2>2. UNCHANGED Durable
    BY <1>4 DEF ArmCheck, ArmTokenOpen, ArmTokenWrite, ArmMarkerOpen, Durable, usb, card
  <2>3. Arming'
    BY <2>1, <2>2 DEF RecoverInv, Arming, Uncaptured, Valid, Durable
  <2> QED BY <2>1, <2>2, <2>3, CoreKept
    DEF RecoverInv, Saving, Installing, CapturedFirst, Restoring, RemovingOK,
        SavePcs, ArmPcs, RestorePcs, RemovePcs
<1>5. CASE ArmMarkerWrite
  <2>1. /\ pc = "armMarkerWrite"
        /\ hist' \in {Armed, hist}
        /\ pc' \in {"dirs", "undo"}
    BY <1>5 DEF ArmMarkerWrite, ArmFails, Loop
  <2>2. Uncaptured(1) /\ \A s \in Valid : slot[s].state # "COMMITTED"
    BY <2>1 DEF RecoverInv, Arming, ArmPcs
  <2>3. Valid' = Valid
    BY <1>1 DEF Valid
  <2>4. Recoverable'
    <3>1. CASE hist' = Armed
      BY <1>1, <3>1 DEF Recoverable, Armed
    <3>2. CASE hist' = hist
      BY <1>1, <3>2, CoreKept DEF RecoverInv, Durable
    <3> QED BY <2>1, <3>1, <3>2
  <2>5. SlotsTrue'
    BY <1>1, <2>2, <2>3 DEF SlotsTrue, Truth, Grows, Uncaptured, BlankFrom, Files
  <2>6. Uncaptured(1)' /\ Arming'
    BY <1>1, <2>2, <2>3 DEF Arming, Uncaptured
  <2> QED BY <2>1, <2>4, <2>5, <2>6
    DEF RecoverInv, Saving, Installing, CapturedFirst, Restoring, RemovingOK,
        SavePcs, RestorePcs, RemovePcs
<1>6. CASE ArmUndo
  <2>0. UNCHANGED Durable
    BY <1>6 DEF ArmUndo, Durable, usb, card
  <2>1. PICK j \in Loads :
          /\ Loaded(j)
          /\ \/ JournalValid(j) /\ StartSave([j EXCEPT !.state = "ROLLING_BACK"], k)
             \/ pc' \in QuietPcs
    BY <1>6, ReturnsQuiet DEF ArmUndo, Step, QuietPcs
  <2>2. j = Latest /\ j \in Journal
    BY <2>1, NewestLoaded, LoadsType DEF TypeInv, TypeOK
  <2> DEFINE x == [j EXCEPT !.state = "ROLLING_BACK"]
  <2>3. x \in Journal /\ x.entry = j.entry /\ JournalValid(x) /\ x.state = "ROLLING_BACK"
    BY <2>2 DEF Journal, JournalValid, JournalStates
  <2>4. k \in {"undoKeep", "undoDrop"} /\ Uncaptured(1)
    BY <1>6 DEF ArmUndo, TypeInv, IndexOK, RecoverInv, Arming, ArmPcs
  <2> HIDE DEF x
  <2>5. CASE JournalValid(j) /\ StartSave(x, k)
    BY <2>0, <2>2, <2>3, <2>4, <2>5, StartsSaving
  <2> QED BY <2>0, <2>1, <2>5, QuietRecover DEF x
<1>7. CASE ArmDropMarker \/ ArmDropToken
  <2>1. pc' \in QuietPcs
    BY <1>7, ReturnsQuiet DEF ArmDropMarker, ArmDropToken, Loop, QuietPcs
  <2>2. UNCHANGED Durable
    BY <1>7 DEF ArmDropMarker, ArmDropToken, Durable, usb, card
  <2> QED BY <2>1, <2>2, QuietRecover
<1> QED BY <1>3, <1>4, <1>5, <1>6, <1>7 DEF ArmNext

-----------------------------------------------------------------------------
(* The installer *)

(* A destination is written only while its entry and its backup stand.     *)
LEMMA FileWritten ==
  ASSUME TypeInv, RecoverInv, JournalValid(Latest), i \in Files, Latest.entry[i] # "none",
         NEW x, PutFile(x), UNCHANGED <<slot, backup, hist>>
  PROVE  Recoverable' /\ SlotsTrue'
<1>1. Latest' = Latest /\ Valid' = Valid
  BY DEF Latest, Valid
<1>2. SlotsTrue'
  BY <1>1 DEF RecoverInv, SlotsTrue, Truth, Grows
<1>3. Recoverable'
  <2> SUFFICES ASSUME hist.open, NEW f \in Files, file'[hist.card][f] # hist.file[f]
               PROVE  /\ Latest.entry[f] = hist.file[f]
                      /\ HasBackup(hist.file[f]) => backup[f] = hist.file[f]
    BY <1>1 DEF Recoverable
  <2>1. Truth(Latest)
    BY LatestSlot DEF RecoverInv, SlotsTrue
  <2>2. CASE f = i
    BY <2>1, <2>2 DEF Truth
  <2>3. CASE f # i
    <3>1. file'[hist.card][f] = file[hist.card][f]
      BY <2>3 DEF PutFile, TypeInv, TypeOK, CardsOK, HistoryOK, History
    <3> QED BY <3>1 DEF RecoverInv, Recoverable
  <2> QED BY <2>2, <2>3
<1> QED BY <1>2, <1>3

LEMMA CaptureRecover ==
  ASSUME "read" \notin FaultKinds, TypeInv, CardInv, RecoverInv, Capture
  PROVE  RecoverInv'
<1>1. pc = "files" /\ i \in Files /\ Uncaptured(i)
  BY DEF Capture, TypeInv, TypeOK, CtlOK, IndexOK, UpPcs, Files, RecoverInv, Installing
<1>2. UNCHANGED <<slot, file, hist>> /\ i \in Nat
  BY <1>1 DEF Capture, card, Files
<1>3. Latest' = Latest /\ Valid' = Valid
  BY <1>2 DEF Latest, Valid
<1>4. file \in [Cards -> [Files -> Content]] /\ inserted \in Cards /\ inserted = hist.card
      /\ backup \in [Files -> Entry]
  BY <1>1 DEF TypeInv, TypeOK, UsbOK, CardsOK, CardInv, OnCard, OnCardPc
<1> DEFINE c == file[inserted][i]
<1>5. c \in Content
  BY <1>1, <1>4
<1>6. \A f \in Files : f # i => backup'[f] = backup[f]
  BY <1>1, <1>4 DEF Capture, Captured, BackedUp
<1>7. JournalValid(Latest) => Latest.entry[i] = "none"
  BY <1>1, LatestSlot DEF Uncaptured, BlankFrom, Files
<1>8. hist.open => c = hist.file[i]
  BY <1>1, <1>4, <1>7, UntouchedFile DEF RecoverInv
<1>9. Recoverable'
  <2> SUFFICES ASSUME hist.open, NEW f \in Files, file[hist.card][f] # hist.file[f]
               PROVE  /\ JournalValid(Latest) /\ Latest.entry[f] = hist.file[f]
                      /\ HasBackup(hist.file[f]) => backup'[f] = hist.file[f]
    BY <1>2, <1>3 DEF Recoverable
  <2>1. f # i
    BY <1>4, <1>8
  <2> QED BY <1>6, <2>1 DEF RecoverInv, Recoverable
<1>10. \A s \in Valid : slot[s].entry[i] = "none"
  BY <1>1 DEF Uncaptured, BlankFrom, Files
<1>11. SlotsTrue'
  BY <1>2, <1>3, <1>6, <1>10 DEF RecoverInv, SlotsTrue, Truth, Grows
<1>12. CASE pc' \in QuietPcs
  BY <1>9, <1>11, <1>12, QuietPlace DEF RecoverInv, InPlace
<1>13. CASE \E j \in Loads :
              /\ Loaded(j) /\ j.state = "ACTIVE" /\ Captured(c)
              /\ StartSave([j EXCEPT !.entry[i] = c], "source")
  <2>1. PICK j \in Loads :
          /\ Loaded(j) /\ j.state = "ACTIVE" /\ Captured(c)
          /\ StartSave([j EXCEPT !.entry[i] = c], "source")
    BY <1>13
  <2>2. j = Latest /\ j \in Journal /\ JournalValid(j)
    BY <2>1, NewestLoaded, LoadsType DEF TypeInv, TypeOK, JournalValid, JournalStates
  <2>3. /\ pc' = "save" /\ k' = "source" /\ i' = i /\ jr'.state = "ACTIVE"
        /\ jr'.entry = [Latest.entry EXCEPT ![i] = c]
    BY <2>1, <2>2 DEF StartSave, Journal
  <2>4. Latest.entry \in [Files -> Entry]
    BY <2>2 DEF Journal
  <2>5. jr'.entry[i] = c /\ \A f \in Files : f # i => jr'.entry[f] = Latest.entry[f]
    BY <1>1, <2>3, <2>4
  <2>6. BlankFrom(Latest, i)
    BY <1>1, <2>2, LatestSlot DEF Uncaptured
  <2>7. BlankFrom(jr', i + 1)
    BY <1>2, <2>5, <2>6 DEF BlankFrom, Files
  <2>8. HasBackup(c) => backup'[i] = c
    BY <1>1, <1>4, <2>1 DEF Captured, BackedUp
  <2>9. ASSUME hist.open, NEW f \in Files, jr'.entry[f] # "none"
        PROVE  /\ jr'.entry[f] = hist.file[f]
               /\ HasBackup(hist.file[f]) => backup'[f] = hist.file[f]
    <3>1. Truth(Latest)
      BY <2>2, <2>9, LatestSlot DEF RecoverInv, SlotsTrue
    <3>2. CASE f = i
      BY <1>8, <2>5, <2>8, <2>9, <3>2
    <3>3. CASE f # i
      BY <1>6, <2>5, <2>9, <3>1, <3>3 DEF Truth
    <3> QED BY <3>2, <3>3
  <2>10. c # "none"
    BY <1>5 DEF Content
  <2>11. JournalValid(jr)'
    BY <2>3 DEF JournalValid, JournalStates
  <2>12. hist.open => Truth(jr)' /\ Grows(Latest, jr)'
    <3>1. hist.open => Truth(jr)'
      BY <1>2, <2>9 DEF Truth
    <3>2. Grows(Latest, jr)'
      BY <1>3, <1>7, <2>2, <2>5 DEF Grows
    <3> QED BY <3>1, <3>2
  <2>13. Uncaptured(i)' /\ jr'.entry[i'] # "none" /\ BlankFrom(jr, i + 1)'
    BY <1>1, <1>2, <1>3, <2>3, <2>5, <2>7, <2>10 DEF Uncaptured, BlankFrom
  <2>14. Saving'
    BY <1>2, <2>3, <2>11, <2>12, <2>13 DEF Saving
  <2> QED BY <1>9, <1>11, <2>3, <2>14, AtSave
<1> QED BY <1>12, <1>13, ReturnsQuiet DEF Capture

LEMMA WriteRecover ==
  ASSUME TypeInv, RecoverInv, Wipe \/ WriteOpen \/ WriteData
  PROVE  RecoverInv'
<1>1. /\ UNCHANGED <<slot, backup, hist>> /\ pc \in {"wipe", "write", "writeData"}
      /\ file' = file \/ \E x : PutFile(x)
  BY DEF Wipe, WriteOpen, WriteData, usb
<1>2. i \in Files /\ JournalValid(Latest) /\ Latest.entry[i] # "none" /\ Uncaptured(i + 1)
  BY <1>1 DEF TypeInv, IndexOK, FilePcs, RecoverInv, CapturedFirst, Installing
<1>3. Recoverable' /\ SlotsTrue'
  <2>1. CASE file' = file
    BY <1>1, <2>1, CoreKept DEF RecoverInv, Durable
  <2> QED BY <1>1, <1>2, <2>1, FileWritten
<1>4. CASE pc' \in QuietPcs
  BY <1>3, <1>4, QuietPlace DEF RecoverInv, InPlace
<1>5. CASE pc' \in {"write", "writeData", "verify"} /\ UNCHANGED i
  <2>1. Uncaptured(i + 1)' /\ Latest' = Latest
    BY <1>1, <1>2, <1>5 DEF Uncaptured, Valid, Latest
  <2> QED BY <1>2, <1>3, <1>5, <2>1
    DEF RecoverInv, Saving, Arming, Installing, CapturedFirst, Restoring, RemovingOK,
        SavePcs, ArmPcs, RestorePcs, RemovePcs
<1> QED BY <1>4, <1>5, ReturnsQuiet DEF Wipe, WriteOpen, WriteData, Step

LEMMA InstallRecover ==
  ASSUME "read" \notin FaultKinds, TypeInv, CardInv, RecoverInv, InstallNext
  PROVE  RecoverInv'
<1>1. CASE Capture
  BY <1>1, CaptureRecover
<1>2. CASE Wipe \/ WriteOpen \/ WriteData
  BY <1>2, WriteRecover
<1>3. CASE ~(Capture \/ Wipe \/ WriteOpen \/ WriteData)
  <2>1. UNCHANGED Durable
    BY <1>3 DEF InstallNext, Inventory, NoSpace, MakeDirectory, DirectoriesDone, SkipFile,
       FilesDone, Source, Verify, Finish, Durable, usb, card
  <2>2. CASE pc' \in QuietPcs
    BY <2>1, <2>2, QuietRecover
  <2>3. Latest' = Latest /\ Valid' = Valid /\ slot' = slot
    BY <2>1 DEF Latest, Valid, Durable
  <2>4. CASE Inventory \/ FilesDone
    BY <2>2, <2>4, ReturnsQuiet DEF Inventory, NoSpace, FilesDone, Loop, QuietPcs
  <2>5. CASE MakeDirectory
    <3>1. i \in Dirs /\ Uncaptured(1)
      BY <2>5 DEF MakeDirectory, TypeInv, TypeOK, CtlOK, IndexOK, UpPcs, Dirs, RecoverInv,
         Installing
    <3>2. CASE \E j \in Loads : /\ Loaded(j) /\ j.state = "ACTIVE"
                                /\ StartSave(Recorded(j, i, i \notin dir[inserted]), "nextDir")
      <4>1. PICK j \in Loads :
              /\ Loaded(j) /\ j.state = "ACTIVE"
              /\ StartSave(Recorded(j, i, i \notin dir[inserted]), "nextDir")
        BY <3>2
      <4>2. j = Latest /\ j \in Journal /\ JournalValid(j)
        BY <4>1, NewestLoaded, LoadsType DEF TypeInv, TypeOK, JournalValid, JournalStates
      <4> DEFINE x == Recorded(j, i, i \notin dir[inserted])
      <4>3. (i \notin dir[inserted]) \in BOOLEAN
        OBVIOUS
      <4>4. x \in Journal
        BY <3>1, <4>2, <4>3, Changed
      <4>5. x.entry = j.entry /\ x.state = "ACTIVE" /\ JournalValid(x)
        BY <4>1, <4>2 DEF Recorded, Journal, JournalValid, JournalStates
      <4> HIDE DEF x
      <4>6. StartSave(x, "nextDir")
        BY <4>1 DEF x
      <4> QED BY <2>1, <3>1, <4>2, <4>4, <4>5, <4>6, StartsSaving
    <3> QED BY <2>2, <2>5, <3>2, ReturnsQuiet DEF MakeDirectory
  <2>6. CASE DirectoriesDone
    <3>1. pc = "dirs" /\ pc' = "files" /\ i' = 1
      BY <2>6 DEF DirectoriesDone, Loop
    <3>2. Uncaptured(i)'
      BY <2>3, <3>1 DEF RecoverInv, Installing, Uncaptured
    <3> QED BY <2>1, <3>1, <3>2, CoreKept
      DEF RecoverInv, Saving, Arming, Installing, CapturedFirst, Restoring, RemovingOK,
          SavePcs, ArmPcs, RestorePcs, RemovePcs
  <2>7. CASE SkipFile \/ Verify
    <3>1. i \in Nat /\ Uncaptured(i + 1)
      BY <2>7 DEF SkipFile, Verify, TypeInv, TypeOK, CtlOK, RecoverInv, Installing,
         Uncaptured, BlankFrom, Files
    <3>2. CASE pc' = "files" /\ i' = i + 1
      <4>1. Uncaptured(i)'
        BY <2>3, <3>1, <3>2 DEF Uncaptured
      <4> QED BY <2>1, <3>2, <4>1, CoreKept
        DEF RecoverInv, Saving, Arming, Installing, CapturedFirst, Restoring, RemovingOK,
            SavePcs, ArmPcs, RestorePcs, RemovePcs
    <3> QED BY <2>2, <2>7, <3>2, ReturnsQuiet DEF SkipFile, Verify, Loop
  <2>8. CASE Source
    <3>1. CASE pc = "source" /\ pc' = "wipe" /\ i' = i
      <4>1. Uncaptured(i + 1)' /\ JournalValid(Latest)' /\ (Latest.entry[i] # "none")'
        BY <2>3, <3>1 DEF RecoverInv, Installing, CapturedFirst, Uncaptured
      <4> QED BY <2>1, <3>1, <4>1, CoreKept
        DEF RecoverInv, Saving, Arming, Installing, CapturedFirst, Restoring, RemovingOK,
            SavePcs, ArmPcs, RestorePcs, RemovePcs
    <3> QED BY <2>2, <2>8, <3>1, ReturnsQuiet DEF Source
  <2>9. CASE Finish
    <3>1. PICK j \in Loads :
            \/ /\ Loaded(j) /\ JournalValid(j)
               /\ StartSave([j EXCEPT !.state = "COMMITTED"], "finish")
            \/ pc' \in QuietPcs
      BY <2>9, ReturnsQuiet DEF Finish, Loads
    <3>2. CASE /\ Loaded(j) /\ JournalValid(j)
               /\ StartSave([j EXCEPT !.state = "COMMITTED"], "finish")
      <4>1. j = Latest /\ j \in Journal
        BY <3>2, NewestLoaded, LoadsType DEF TypeInv, TypeOK
      <4> DEFINE x == [j EXCEPT !.state = "COMMITTED"]
      <4>2. x \in Journal /\ x.entry = j.entry /\ x.state = "COMMITTED" /\ JournalValid(x)
        BY <4>1 DEF Journal, JournalValid, JournalStates
      <4> HIDE DEF x
      <4>3. StartSave(x, "finish")
        BY <3>2 DEF x
      <4> QED BY <2>1, <3>2, <4>1, <4>2, <4>3, StartsSaving
    <3> QED BY <2>2, <3>1, <3>2
  <2> QED BY <1>3, <2>4, <2>5, <2>6, <2>7, <2>8, <2>9 DEF InstallNext
<1> QED BY <1>1, <1>2, <1>3

-----------------------------------------------------------------------------
(* The rollback *)

LEMMA RestoreRecover ==
  ASSUME TypeInv, RecoverInv, Restore \/ RestoreWrite \/ RestoreVerify
  PROVE  RecoverInv'
<1>1. /\ UNCHANGED <<slot, backup, hist>> /\ pc \in RestorePcs /\ pc' \in RestorePcs
      /\ jr' = jr
  BY DEF Restore, RestoreWrite, RestoreVerify, RestoreNext, Step, usb, RestorePcs
<1>2. JournalValid(Latest) /\ Latest.entry = jr.entry
  BY <1>1 DEF RecoverInv, Restoring
<1>3. file' = file \/ ((\E x : PutFile(x)) /\ i \in Files /\ jr.entry[i] # "none")
  <2>1. CASE Restore
    <3>1. i \in Files
      BY <2>1 DEF Restore, TypeInv, IndexOK, Files
    <3>2. file' = file \/ ((\E x : PutFile(x)) /\ jr.entry[i] # "none")
      BY <2>1 DEF Restore, HasBackup
    <3> QED BY <3>1, <3>2
  <2>2. CASE RestoreWrite \/ RestoreVerify
    <3>1. i \in Files /\ jr.entry[i] # "none"
      BY <2>2 DEF RestoreWrite, RestoreVerify, TypeInv, IndexOK, FilePcs, HasBackup
    <3> QED BY <2>2, <3>1 DEF RestoreWrite, RestoreVerify
  <2> QED BY <2>1, <2>2
<1>4. Recoverable' /\ SlotsTrue'
  <2>1. CASE file' = file
    BY <1>1, <2>1, CoreKept DEF RecoverInv, Durable
  <2> QED BY <1>1, <1>2, <1>3, <2>1, FileWritten
<1>5. Restoring'
  BY <1>1, <1>2 DEF Restoring, Latest
<1> QED BY <1>1, <1>4, <1>5
  DEF RecoverInv, Saving, Arming, Installing, CapturedFirst, RemovingOK, SavePcs,
      ArmPcs, RestorePcs, RemovePcs

LEMMA RunRecover ==
  ASSUME "read" \notin FaultKinds, TypeInv, RecoverInv, RunNext
  PROVE  RecoverInv'
<1>1. CASE Restore \/ RestoreWrite \/ RestoreVerify
  BY <1>1, RestoreRecover
<1>2. CASE Run \/ RestoreDone \/ RemoveDirectory
  <2>1. UNCHANGED Durable
    BY <1>2 DEF Run, RestoreDone, RemoveDirectory, Durable, usb, card
  <2>2. pc' \in QuietPcs
    BY <1>2, ReturnsQuiet DEF Run, RestoreDone, RemoveDirectory, Step, Loop, QuietPcs
  <2> QED BY <2>1, <2>2, QuietRecover
<1>3. CASE RunCheck
  <2>1. UNCHANGED Durable
    BY <1>3 DEF RunCheck, Durable, usb, card
  <2>2. PICK j \in Loads :
          \/ Loaded(j) /\ j.state = "COMMITTED" /\ StartRemove(j, "run")
          \/ /\ Loaded(j) /\ j.state \in {"ACTIVE", "ROLLING_BACK"}
             /\ StartSave([j EXCEPT !.state = "ROLLING_BACK"], "restore")
          \/ pc' \in QuietPcs
    BY <1>3, ReturnsQuiet DEF RunCheck, Loads
  <2>3. CASE Loaded(j) /\ j.state = "COMMITTED" /\ StartRemove(j, "run")
    <3>1. j = Latest /\ JournalValid(j)
      BY <2>3, NewestLoaded DEF JournalValid, JournalStates
    <3> QED BY <2>1, <2>3, <3>1, StartsRemoving
  <2>4. CASE /\ Loaded(j) /\ j.state \in {"ACTIVE", "ROLLING_BACK"}
             /\ StartSave([j EXCEPT !.state = "ROLLING_BACK"], "restore")
    <3>1. j = Latest /\ j \in Journal /\ JournalValid(j)
      BY <2>4, NewestLoaded, LoadsType DEF TypeInv, TypeOK, JournalValid, JournalStates
    <3> DEFINE x == [j EXCEPT !.state = "ROLLING_BACK"]
    <3>2. x \in Journal /\ x.entry = j.entry /\ x.state = "ROLLING_BACK" /\ JournalValid(x)
      BY <3>1 DEF Journal, JournalValid, JournalStates
    <3> HIDE DEF x
    <3>3. StartSave(x, "restore")
      BY <2>4 DEF x
    <3> QED BY <2>1, <3>1, <3>2, <3>3, StartsSaving
  <2> QED BY <2>1, <2>2, <2>3, <2>4, QuietRecover
<1>4. CASE RollbackDone
  <2>1. ~hist'.open /\ pc' = "rmBackup"
    BY <1>4 DEF RollbackDone, StartRemove, TypeInv, TypeOK, HistoryOK, History
  <2> QED BY <2>1, AtRemove DEF Recoverable, SlotsTrue, RemovingOK
<1> QED BY <1>1, <1>2, <1>3, <1>4 DEF RunNext

-----------------------------------------------------------------------------
LEMMA RecoverStep ==
  ASSUME "read" \notin FaultKinds, TypeInv, CardInv, JournalInv, RecoverInv, [Next]_vars
  PROVE  RecoverInv'
<1>1. CASE SaveNext                 BY <1>1, SaveRecover
<1>2. CASE RemoveNext               BY <1>2, RemoveRecover
<1>3. CASE ClearNext \/ ProbeNext   BY <1>3, ClearProbeRecover
<1>4. CASE ArmNext                  BY <1>4, ArmRecover
<1>5. CASE InstallNext              BY <1>5, InstallRecover
<1>6. CASE RunNext                  BY <1>6, RunRecover
<1>7. CASE UiInstall \/ UiRecover \/ UiRefresh \/ PowerCut \/ Boot
  <2>1. UNCHANGED Durable /\ pc' \in QuietPcs
    BY <1>7 DEF UiInstall, UiRecover, UiRefresh, Starts, PowerCut, Boot, Step, Durable,
                usb, card, QuietPcs
  <2> QED BY <2>1, QuietRecover
<1>8. CASE SwapCard \/ UNCHANGED vars
  <2>1. UNCHANGED Durable /\ UNCHANGED <<pc, k, jr, i>>
    BY <1>8 DEF SwapCard, vars, Durable, usb, card, ctl
  <2>2. Recoverable' /\ SlotsTrue'
    BY <2>1, CoreKept DEF RecoverInv
  <2>3. Latest' = Latest /\ Valid' = Valid
    BY <2>1 DEF Latest, Valid, Durable
  <2>4. Saving'
    BY <2>1, <2>3 DEF RecoverInv, Saving, Durable, Truth, Grows, Uncaptured, BlankFrom
  <2>5. Arming' /\ Installing'
    BY <2>1, <2>3 DEF RecoverInv, Arming, Installing, Durable, Uncaptured
  <2>6. CapturedFirst' /\ Restoring' /\ RemovingOK'
    BY <2>1, <2>3
    DEF RecoverInv, CapturedFirst, Restoring, RemovingOK, Durable, Uncaptured, BlankFrom
  <2> QED BY <2>2, <2>4, <2>5, <2>6 DEF RecoverInv
<1> QED
  BY <1>1, <1>2, <1>3, <1>4, <1>5, <1>6, <1>7, <1>8 DEF Next, Program

LEMMA RecoverInit == Init => RecoverInv
BY DEF Init, RecoverInv, Recoverable, SlotsTrue, Saving, Arming, Installing,
   CapturedFirst, Restoring, RemovingOK, SavePcs, ArmPcs, RestorePcs, RemovePcs

(* FmcbRecoveryCaptureTarget() before WriteCardFile(): until an armed      *)
(* transaction has ended, every destination that differs from what the     *)
(* card held is in the newest journal with that content, and its backup is *)
(* intact, for every plan, every set of cards and every number of power    *)
(* cuts, failing writes, failing removals and silent losses, if no card is *)
(* changed at work and no slot read fails.                                 *)
THEOREM AlwaysRecoverable ==
  ASSUME "read" \notin FaultKinds, SwapPoints \subseteq {"idle"}
  PROVE  Spec => []Recoverable
<1>1. TypeInv /\ CardInv /\ [Next]_vars => CardInv'
  BY CardStep
<1>2. TypeInv /\ CardInv /\ JournalInv /\ RecoverInv /\ [Next]_vars => RecoverInv'
  BY RecoverStep
<1>3. RecoverInv => Recoverable
  BY DEF RecoverInv
<1>4. Spec => []JournalInv
  BY JournalInvariance
<1> QED
  BY <1>1, <1>2, <1>3, <1>4, TypeInvariance, CardInit, RecoverInit, PTL DEF Spec

-----------------------------------------------------------------------------
(***************************************************************************)
(* How a transaction ends, for every plan, set of cards and number of      *)
(* faults: what FmcbRecoveryRun() reports as done is done, the dashboard   *)
(* never hides a card that holds part of an installation, and directories  *)
(* that were there before are kept.                                        *)
(*                                                                         *)
(* The argument goes on where AlwaysRecoverable stops, at the end of the   *)
(* rollback.  The journals stay true after it, until they are removed or a *)
(* power cut leaves them (EntriesTrue); they still account for every       *)
(* destination that a second rollback is rewriting (Accounted); and from   *)
(* the last restored entry on the card is as it was (Ended), which is why  *)
(* the journals, the marker and the token can go in that order (Emptied).  *)
(***************************************************************************)

-----------------------------------------------------------------------------
(* What a journal says and covers, until the transaction is committed. *)

Told(j) == \A f \in Files : j.entry[f] # "none" => j.entry[f] = hist.file[f]
Covers(new, old) == \A f \in Files : old.entry[f] # "none" => new.entry[f] # "none"
Covered(f) == JournalValid(Latest) /\ Latest.entry[f] # "none"
AsBefore(f) == file[hist.card][f] = hist.file[f]
Restored == ~hist.committed => \A f \in Files : AsBefore(f)

EndPcs ==
  {"reconcile", "rmDirs", "rmBackup", "rmJournal1", "dropMarker", "dropToken", "clear",
   "clearToken"}

OneOutcome == ~(hist.open /\ hist.committed)
EntriesTrue ==
  ~hist.committed => \A s \in Valid : slot[s].state # "COMMITTED" /\ Told(slot[s])
Accounted == ~hist.committed => \A f \in Files : AsBefore(f) \/ Covered(f)
SavesMore ==
  pc \in SavePcs /\ ~hist.committed => Told(jr) /\ (k # "arm" => Covers(jr, Latest))
SoFar ==
  pc \in RestorePcs /\ err = "ok" /\ ~hist.committed =>
    \A f \in Files : f > i => AsBefore(f)
Ended == pc \in EndPcs => Restored

EndInv == OneOutcome /\ EntriesTrue /\ Accounted /\ SavesMore /\ SoFar /\ Ended

-----------------------------------------------------------------------------
(* What is already gone at each step of the cleanup, if removals succeed.  *)

Emptied ==
  /\ pc = "rmJournal1" => slot[0] = AbsentSlot
  /\ pc \in {"clear", "clearToken"} /\ k \in {"clearDiscard", "run"} => Valid = {}
  /\ pc = "dropToken" /\ k = "dropToken" => Valid = {}
  /\ pc \in RemovePcs /\ k = "discarded" => token = NoToken
  /\ pc = "dropMarker" => k = "undoDrop"
OkMeans ==
  rc = "ok" =>
    /\ Valid = {} /\ token = NoToken
    /\ goal = "idle" /\ pc \in {"idle", "probe", "reconcile"}

ReportInv == Emptied /\ OkMeans

-----------------------------------------------------------------------------
(* Who asked for what, and what the dashboard knows. *)

InstallPcs ==
  {"inventory", "begin", "dirs", "files", "source", "wipe", "write", "writeData",
   "verify", "finish"} \cup ArmPcs
Goals ==
  /\ pc = "idle" => goal = "idle"
  /\ pc \in InstallPcs => goal = "install"
  /\ pc \in SavePcs /\ k # "restore" => goal = "install"
  /\ by = "begin" => goal = "install"

RollbackPcs == {"tryDiscard", "run", "runCheck", "rmDirs"} \cup RestorePcs
Shown ==
  /\ pc \in RollbackPcs \/ (pc \in SavePcs /\ k = "restore") =>
       goal = "install" \/ status.state # "none"
  /\ pc = "idle" => Restored \/ status.state # "none"

ShownInv == Goals /\ Shown

-----------------------------------------------------------------------------
(* Directories: none that was there before is in a journal as created, and *)
(* none is missing where a destination is being written.                   *)

NotOurs(j) == hist.open => j.dirs \cap hist.dir = {}
DirsInv ==
  /\ DirectoriesKept
  /\ \A s \in Valid : NotOurs(slot[s])
  /\ pc \in SavePcs \cup RestorePcs \cup {"rmDirs"} => NotOurs(jr)
  /\ pc \in SavePcs /\ k = "arm" => Valid = {} /\ jr.dirs = {}
  /\ pc \in ArmPcs => \A s \in Valid : slot[s].dirs = {}
  /\ pc \in {"writeData", "restoreVerify"} => DirOf[i] \in dir[inserted]

-----------------------------------------------------------------------------
(* The end of a transaction: steps that leave journals, destinations and   *)
(* history alone.                                                          *)

EndCore == OneOutcome /\ EntriesTrue /\ Accounted
EndPlace == SavesMore /\ SoFar /\ Ended
CalmPcs == Pcs \ (SavePcs \cup RestorePcs \cup EndPcs)
Told3 == <<slot, file, hist>>

LEMMA EndCoreKept ==
  ASSUME EndCore, UNCHANGED Told3
  PROVE  EndCore' /\ (Restored => Restored')
<1>1. slot' = slot /\ file' = file /\ hist' = hist
  BY DEF Told3
<1>2. Latest' = Latest /\ Valid' = Valid
  BY <1>1 DEF Latest, Valid
<1> QED BY <1>1, <1>2
  DEF EndCore, OneOutcome, EntriesTrue, Accounted, Told, AsBefore, Covered, Restored

LEMMA CalmPlace ==
  ASSUME pc' \in CalmPcs
  PROVE  EndPlace'
BY DEF CalmPcs, EndPlace, SavesMore, SoFar, Ended

LEMMA EndPlaceReached ==
  ASSUME pc' \in EndPcs, Restored'
  PROVE  EndPlace'
BY DEF EndPcs, EndPlace, SavesMore, SoFar, Ended, SavePcs, RestorePcs

LEMMA EndCalm ==
  ASSUME EndInv, UNCHANGED Told3, pc' \in CalmPcs
  PROVE  EndInv'
BY EndCoreKept, CalmPlace DEF EndInv, EndCore, EndPlace

LEMMA EndReached ==
  ASSUME EndInv, UNCHANGED Told3, pc' \in EndPcs, Restored
  PROVE  EndInv'
BY EndCoreKept, EndPlaceReached DEF EndInv, EndCore, EndPlace

LEMMA ReturnsCalm ==
  /\ \A s : ProbeReturns(s) => pc' \in CalmPcs
  /\ \A s : InstallReturns(s) => pc' \in CalmPcs
  /\ \A r, s : RunReturns(r, s) => pc' \in CalmPcs
  /\ StartRollback => pc' \in CalmPcs
  /\ \A c, s : StartDiscard(c, s) => pc' \in CalmPcs
BY DEF ProbeReturns, InstallReturns, RunReturns, StartRollback, StartDiscard, CalmPcs,
   Pcs, SavePcs, RestorePcs, EndPcs

LEMMA DiscardCalm ==
  ASSUME NEW r, NEW s, DiscardReturns(r, s)
  PROVE  pc' \in CalmPcs
BY ReturnsCalm DEF DiscardReturns, CalmPcs, Pcs, SavePcs, RestorePcs, EndPcs

LEMMA ClearCalm ==
  ASSUME NEW r, ClearReturns(r)
  PROVE  pc' \in CalmPcs
BY ReturnsCalm, DiscardCalm DEF ClearReturns, CalmPcs, Pcs, SavePcs, RestorePcs, EndPcs

(* Journals that say nothing, and no journal at all: the card is as it was. *)
LEMMA BlankRestored ==
  ASSUME Accounted, JournalValid(Latest) => ~Prepared(Latest)
  PROVE  Restored
BY DEF Accounted, Restored, Covered, Prepared

LEMMA UncapturedBlank ==
  ASSUME Uncaptured(1)
  PROVE  JournalValid(Latest) => ~Prepared(Latest)
BY LatestSlot DEF Uncaptured, BlankFrom, Prepared, Files

LEMMA LatestTold ==
  ASSUME EntriesTrue, ~hist.committed, JournalValid(Latest)
  PROVE  Told(Latest) /\ Latest.state # "COMMITTED"
BY LatestSlot DEF EntriesTrue

-----------------------------------------------------------------------------
(* Saving a journal *)

LEMMA EndSaved ==
  ASSUME TypeInv, JournalInv, RecoverInv, EndInv, pc \in SavePcs, SavedJournal,
         HistAfterSave, UNCHANGED file
  PROVE  /\ EndCore'
         /\ k \in {"undoKeep", "undoDrop", "finish"} => Restored'
<1>1. /\ Latest' = jr /\ JournalValid(jr)
      /\ \A v \in Valid' : slot'[v] = jr \/ (v \in Valid /\ slot'[v] = slot[v])
  BY SlotSaved
<1>2. CASE jr.state = "COMMITTED"
  <2>1. hist'.committed /\ ~hist'.open
    BY <1>2 DEF HistAfterSave, Committed, TypeInv, TypeOK, HistoryOK, History
  <2> QED BY <2>1 DEF EndCore, OneOutcome, EntriesTrue, Accounted, Restored
<1>3. CASE jr.state # "COMMITTED"
  <2>1. hist' = hist
    BY <1>3 DEF HistAfterSave
  <2>2. EntriesTrue'
    BY <1>1, <1>3, <2>1 DEF EndInv, EntriesTrue, SavesMore, Told
  <2>3. \A f \in Files : ~hist.committed /\ Covered(f) => jr.entry[f] # "none"
    <3>1. k = "arm" => ~JournalValid(Latest)
      BY LatestSlot DEF RecoverInv, Saving
    <3> QED BY <3>1 DEF EndInv, SavesMore, Covers, Covered
  <2>4. Accounted'
    BY <1>1, <2>1, <2>3 DEF EndInv, Accounted, AsBefore, Covered
  <2>5. k \in {"undoKeep", "undoDrop", "finish"} => Restored'
    <3>1. k # "finish"
      BY <1>3 DEF RecoverInv, Saving
    <3>2. k \in {"undoKeep", "undoDrop"} => Restored
      BY BlankRestored, UncapturedBlank DEF EndInv, RecoverInv, Saving
    <3> QED BY <2>1, <3>1, <3>2 DEF Restored, AsBefore
  <2> QED BY <2>1, <2>2, <2>4, <2>5 DEF EndInv, EndCore, OneOutcome
<1> QED BY <1>2, <1>3

LEMMA SaveEnd ==
  ASSUME TypeInv, JournalInv, RecoverInv, EndInv, SaveNext
  PROVE  EndInv'
<1>1. CASE SaveOpen
  <2>1. /\ UNCHANGED <<file, hist, k, jr>>
        /\ pc \in SavePcs /\ pc' = "saveWrite"
    BY <1>1 DEF SaveOpen, Step, card, SavePcs
  <2>2. /\ \A v \in Valid' : v \in Valid /\ slot'[v] = slot[v]
        /\ k = "arm" => ~JournalValid(Latest)
        /\ k # "arm" => Latest' = Latest
    BY <1>1, SlotOpened, LatestSlot
  <2>3. OneOutcome' /\ EntriesTrue'
    BY <2>1, <2>2 DEF EndInv, OneOutcome, EntriesTrue, Told
  <2>4. Accounted'
    BY <2>1, <2>2 DEF EndInv, Accounted, AsBefore, Covered
  <2>5. SavesMore'
    BY <2>1, <2>2 DEF EndInv, SavesMore, Told, Covers
  <2> QED BY <2>1, <2>3, <2>4, <2>5
    DEF EndInv, SoFar, Ended, SavePcs, RestorePcs, EndPcs
<1>2. CASE SaveWrite
  <2>1. pc \in SavePcs /\ EndCore' /\ (k \in {"undoKeep", "undoDrop", "finish"} => Restored')
    BY <1>2, EndSaved DEF SaveWrite, card, SavePcs
  <2>2. CASE pc' \in CalmPcs
    BY <2>1, <2>2, CalmPlace DEF EndInv, EndCore, EndPlace
  <2>3. CASE k \in {"undoKeep", "undoDrop", "finish"} /\ pc' = "rmBackup"
    BY <2>1, <2>3, EndPlaceReached DEF EndInv, EndCore, EndPlace, EndPcs
  <2>4. CASE k = "restore" /\ pc' = "restore" /\ i' = NFiles
    <3>1. SoFar'
      BY <2>4, NFilesAssumption DEF SoFar, Files
    <3> QED BY <2>1, <2>4, <3>1
      DEF EndInv, EndCore, SavesMore, Ended, SavePcs, EndPcs
  <2> QED BY <1>2, <2>2, <2>3, <2>4
    DEF SaveWrite, StartRemove, CalmPcs, Pcs, SavePcs, RestorePcs, EndPcs
<1>3. CASE SaveFails
  <2>1. pc \in SavePcs
    BY <1>3 DEF SaveFails, SavePcs
  <2>2. EndCore' /\ (k = "undoDrop" => Restored')
    <3>1. CASE UNCHANGED <<slot, hist>>
      <4>1. k = "undoDrop" => Restored
        BY <2>1, BlankRestored, UncapturedBlank DEF EndInv, RecoverInv, Saving
      <4> QED BY <1>3, <3>1, <4>1, EndCoreKept DEF SaveFails, Told3, card, EndInv, EndCore
    <3>2. CASE SavedJournal /\ HistAfterSave
      BY <1>3, <2>1, <3>2, EndSaved DEF SaveFails, card
    <3> QED BY <1>3, <3>1, <3>2 DEF SaveFails
  <2>3. CASE pc' \in CalmPcs
    BY <2>2, <2>3, CalmPlace DEF EndInv, EndCore, EndPlace
  <2>4. CASE k = "undoDrop" /\ pc' = "dropMarker"
    BY <2>2, <2>4, EndPlaceReached DEF EndInv, EndCore, EndPlace, EndPcs
  <2> QED BY <1>3, <2>3, <2>4, ReturnsCalm DEF SaveFails, Step
<1> QED BY <1>1, <1>2, <1>3 DEF SaveNext

-----------------------------------------------------------------------------
(* Removing journals, clearing markers and probing *)

LEMMA RemoveEnd ==
  ASSUME TypeInv, EndInv, RemoveNext
  PROVE  EndInv'
<1>1. pc \in EndPcs /\ UNCHANGED <<file, hist>> /\ Restored
  BY DEF RemoveNext, RemoveBackup, RemoveJournal0, RemoveJournal1, card, EndPcs, EndInv,
     Ended
<1>2. slot' = slot \/ \E s \in Slots : slot' = [slot EXCEPT ![s] = AbsentSlot]
  BY DEF RemoveNext, RemoveBackup, RemoveJournal0, RemoveJournal1, Removed, Slots
<1>3. Valid' \subseteq Valid /\ \A v \in Valid' : slot'[v] = slot[v]
  <2>1. ~JournalValid(AbsentSlot)
    BY DEF JournalValid, AbsentSlot, JournalStates
  <2> QED BY <1>2, <2>1 DEF Valid, TypeInv, TypeOK, UsbOK
<1>4. Restored'
  BY <1>1 DEF Restored, AsBefore
<1>5. EndCore'
  BY <1>1, <1>3, <1>4 DEF EndInv, EndCore, OneOutcome, EntriesTrue, Accounted, Restored, Told
<1>6. CASE pc' \in CalmPcs
  BY <1>5, <1>6, CalmPlace DEF EndInv, EndCore, EndPlace
<1>7. CASE pc' \in EndPcs
  BY <1>4, <1>5, <1>7, EndPlaceReached DEF EndInv, EndCore, EndPlace
<1>8. pc' \in CalmPcs \cup EndPcs
  BY ReturnsCalm, DiscardCalm
  DEF RemoveNext, RemoveBackup, RemoveJournal0, RemoveJournal1, Step, Loop, StartClear, EndPcs
<1> QED BY <1>6, <1>7, <1>8

LEMMA ClearEnd ==
  ASSUME EndInv, ClearNext
  PROVE  EndInv'
<1>1. UNCHANGED Told3 /\ pc \in EndPcs
  BY DEF ClearNext, ClearMarker, ClearRefused, ClearToken, Told3, usb, card, EndPcs
<1>2. Restored
  BY <1>1 DEF EndInv, Ended
<1>3. pc' \in CalmPcs \cup EndPcs
  BY ClearCalm DEF ClearNext, ClearMarker, ClearRefused, ClearToken, Step, EndPcs
<1> QED BY <1>1, <1>2, <1>3, EndCalm, EndReached

LEMMA ProbeEnd ==
  ASSUME "read" \notin FaultKinds, EndInv, ProbeNext
  PROVE  EndInv'
<1>1. UNCHANGED Told3
  BY DEF ProbeNext, Probe, Reconcile, TryDiscard, DiscardToken, Told3, usb, card
<1>2. CASE pc' \in CalmPcs
  BY <1>1, <1>2, EndCalm
<1>3. CASE pc' \in EndPcs /\ Restored
  BY <1>1, <1>3, EndReached
<1>4. CASE Probe
  <2>1. PICK j \in Loads :
          /\ Loaded(j)
          /\ \/ j.state = "absent" /\ pc' = "reconcile"
             \/ j.state = "COMMITTED" /\ StartRemove(j, "reconcile")
             \/ pc' \in CalmPcs
    BY <1>4, ReturnsCalm DEF Probe
  <2>2. j = Latest
    BY <2>1, NewestLoaded
  <2>3. j.state = "absent" => Restored
    BY <2>2, BlankRestored DEF EndInv, JournalValid, JournalStates
  <2>4. j.state = "COMMITTED" => Restored
    BY <2>2, LatestTold DEF EndInv, Restored, JournalValid, JournalStates
  <2> QED BY <1>2, <1>3, <2>1, <2>3, <2>4 DEF StartRemove, EndPcs
<1>5. CASE Reconcile
  <2>1. Restored
    BY <1>5 DEF Reconcile, EndInv, Ended, EndPcs
  <2>2. pc' \in CalmPcs \cup EndPcs
    BY <1>5, ReturnsCalm DEF Reconcile, StartClear, EndPcs
  <2> QED BY <1>2, <1>3, <2>1, <2>2
<1>6. CASE TryDiscard
  <2>1. CASE pc' \notin CalmPcs
    <3>1. PICK c : DiscardEmptyJournal(c)
      BY <1>6, <2>1, DiscardCalm DEF TryDiscard
    <3>2. PICK j \in Loads : Loaded(j) /\ Discardable(j) /\ StartRemove(j, c)
      BY <2>1, <3>1, DiscardCalm DEF DiscardEmptyJournal
    <3>3. j = Latest /\ ~Prepared(j)
      BY <3>2, NewestLoaded DEF Discardable
    <3>4. Restored
      BY <3>3, BlankRestored DEF EndInv
    <3> QED BY <1>3, <3>2, <3>4 DEF StartRemove, EndPcs
  <2> QED BY <1>2, <2>1
<1>7. CASE DiscardToken
  BY <1>2, <1>7, DiscardCalm DEF DiscardToken
<1> QED BY <1>4, <1>5, <1>6, <1>7 DEF ProbeNext

-----------------------------------------------------------------------------
(* Arming *)

(* A save of the newest journal with another state or other directories.   *)
LEMMA EndStartsSaving ==
  ASSUME EndInv, UNCHANGED Told3, JournalValid(Latest),
         NEW x \in Journal, x.entry = Latest.entry, NEW c, StartSave(x, c)
  PROVE  EndInv'
<1>1. pc' = "save" /\ jr'.entry = Latest.entry
  BY DEF StartSave, Journal
<1>2. UNCHANGED <<slot, hist>> /\ Latest' = Latest
  BY DEF Told3, Latest
<1>3. SavesMore'
  BY <1>1, <1>2, LatestTold DEF EndInv, SavesMore, Told, Covers
<1> QED BY <1>1, <1>3, EndCoreKept
  DEF EndInv, EndCore, SoFar, Ended, SavePcs, RestorePcs, EndPcs

LEMMA ArmEnd ==
  ASSUME "read" \notin FaultKinds, TypeInv, RecoverInv, EndInv, ArmNext
  PROVE  EndInv'
<1>1. CASE Begin
  <2>1. UNCHANGED Told3
    BY <1>1 DEF Begin, Told3, usb, card
  <2>2. CASE pc' \in CalmPcs
    BY <2>1, <2>2, EndCalm
  <2>3. CASE StartSave(EmptyJournal, "arm")
    <3>1. pc' = "save" /\ k' = "arm" /\ jr'.entry = NoEntries
      BY <2>3 DEF StartSave, EmptyJournal, AbsentSlot
    <3>2. SavesMore'
      BY <3>1 DEF SavesMore, Told, NoEntries
    <3> QED BY <2>1, <3>1, <3>2, EndCoreKept
      DEF EndInv, EndCore, SoFar, Ended, SavePcs, RestorePcs, EndPcs
  <2> QED BY <1>1, <2>2, <2>3, ReturnsCalm DEF Begin
<1>2. CASE ArmCheck \/ ArmTokenOpen \/ ArmTokenWrite \/ ArmMarkerOpen
  <2>1. UNCHANGED Told3 /\ pc' \in CalmPcs
    BY <1>2 DEF ArmCheck, ArmTokenOpen, ArmTokenWrite, ArmMarkerOpen, ArmFails, Step, Told3,
       usb, card, CalmPcs, Pcs, SavePcs, RestorePcs, EndPcs
  <2> QED BY <2>1, EndCalm
<1>3. CASE ArmMarkerWrite
  <2>1. /\ pc = "armMarkerWrite" /\ hist' \in {Armed, hist} /\ UNCHANGED <<slot, file>>
        /\ pc' \in CalmPcs
    BY <1>3 DEF ArmMarkerWrite, ArmFails, Loop, usb, CalmPcs, Pcs, SavePcs, RestorePcs, EndPcs
  <2>2. Uncaptured(1) /\ \A s \in Valid : slot[s].state # "COMMITTED"
    BY <2>1 DEF RecoverInv, Arming, ArmPcs
  <2>3. CASE hist' = Armed
    <3>1. OneOutcome' /\ Accounted'
      BY <2>1, <2>3 DEF OneOutcome, Accounted, AsBefore, Armed
    <3>2. Valid' = Valid
      BY <2>1 DEF Valid
    <3>3. EntriesTrue'
      BY <2>1, <2>2, <3>2 DEF EntriesTrue, Told, Uncaptured, BlankFrom, Files
    <3> QED BY <2>1, <3>1, <3>3, CalmPlace DEF EndInv, EndPlace
  <2> QED BY <2>1, <2>3, EndCalm DEF Told3
<1>4. CASE ArmUndo
  <2>0. UNCHANGED Told3
    BY <1>4 DEF ArmUndo, Told3, usb, card
  <2>1. PICK j \in Loads :
          /\ Loaded(j)
          /\ \/ JournalValid(j) /\ StartSave([j EXCEPT !.state = "ROLLING_BACK"], k)
             \/ pc' \in CalmPcs
             \/ ~JournalValid(j) /\ pc' = "dropMarker"
    BY <1>4, ReturnsCalm DEF ArmUndo, Step
  <2>2. j = Latest /\ j \in Journal
    BY <2>1, NewestLoaded, LoadsType DEF TypeInv, TypeOK
  <2> DEFINE x == [j EXCEPT !.state = "ROLLING_BACK"]
  <2>3. x \in Journal /\ x.entry = j.entry
    BY <2>2 DEF Journal, JournalStates
  <2>4. CASE ~JournalValid(j) /\ pc' = "dropMarker"
    BY <2>0, <2>2, <2>4, BlankRestored, EndReached DEF EndInv, EndPcs
  <2> HIDE DEF x
  <2>5. CASE JournalValid(j) /\ StartSave(x, k)
    BY <2>0, <2>2, <2>3, <2>5, EndStartsSaving
  <2> QED BY <2>0, <2>1, <2>4, <2>5, EndCalm DEF x
<1>5. CASE ArmDropMarker \/ ArmDropToken
  <2>1. UNCHANGED Told3 /\ pc \in EndPcs /\ pc' \in CalmPcs \cup EndPcs
    BY <1>5, ReturnsCalm DEF ArmDropMarker, ArmDropToken, Loop, Told3, usb, card, EndPcs
  <2> QED BY <2>1, EndCalm, EndReached DEF EndInv, Ended
<1> QED BY <1>1, <1>2, <1>3, <1>4, <1>5 DEF ArmNext

-----------------------------------------------------------------------------
(* The installer writes only what the newest journal covers. *)

LEMMA EndFileWritten ==
  ASSUME TypeInv, EndInv, i \in Files, Covered(i), NEW x, PutFile(x),
         UNCHANGED <<slot, hist>>
  PROVE  EndCore' /\ \A f \in Files : f # i /\ AsBefore(f) => AsBefore(f)'
<1>1. Latest' = Latest /\ Valid' = Valid
  BY DEF Latest, Valid
<1>2. \A f \in Files : f # i => file'[hist.card][f] = file[hist.card][f]
  BY DEF PutFile, TypeInv, TypeOK, CardsOK, HistoryOK, History
<1>3. \A f \in Files : f # i /\ AsBefore(f) => AsBefore(f)'
  BY <1>2 DEF AsBefore
<1>4. OneOutcome' /\ EntriesTrue'
  BY <1>1 DEF EndInv, OneOutcome, EntriesTrue, Told
<1>5. Accounted'
  BY <1>1, <1>3 DEF EndInv, Accounted, Covered
<1> QED BY <1>3, <1>4, <1>5 DEF EndCore

LEMMA CaptureEnd ==
  ASSUME "read" \notin FaultKinds, TypeInv, CardInv, RecoverInv, EndInv, Capture
  PROVE  EndInv'
<1>1. pc = "files" /\ i \in Files /\ Uncaptured(i) /\ UNCHANGED Told3
  BY DEF Capture, TypeInv, TypeOK, CtlOK, IndexOK, UpPcs, Files, RecoverInv, Installing,
     Told3, card
<1>2. file \in [Cards -> [Files -> Content]] /\ inserted \in Cards /\ inserted = hist.card
  BY <1>1 DEF TypeInv, TypeOK, CardsOK, CardInv, OnCard, OnCardPc
<1> DEFINE c == file[inserted][i]
<1>3. c \in Content
  BY <1>1, <1>2
<1>4. CASE pc' \in CalmPcs
  BY <1>1, <1>4, EndCalm
<1>5. CASE \E j \in Loads :
             /\ Loaded(j) /\ j.state = "ACTIVE"
             /\ StartSave([j EXCEPT !.entry[i] = c], "source")
  <2>1. PICK j \in Loads :
          /\ Loaded(j) /\ j.state = "ACTIVE"
          /\ StartSave([j EXCEPT !.entry[i] = c], "source")
    BY <1>5
  <2>2. j = Latest /\ j \in Journal /\ JournalValid(j)
    BY <2>1, NewestLoaded, LoadsType DEF TypeInv, TypeOK, JournalValid, JournalStates
  <2>3. pc' = "save" /\ jr'.entry = [Latest.entry EXCEPT ![i] = c]
    BY <2>1, <2>2 DEF StartSave, Journal
  <2>4. Latest.entry \in [Files -> Entry] /\ c # "none"
    BY <1>3, <2>2 DEF Journal, Content
  <2>5. jr'.entry[i] = c /\ \A f \in Files : f # i => jr'.entry[f] = Latest.entry[f]
    BY <1>1, <2>3, <2>4
  <2>6. Latest.entry[i] = "none"
    BY <1>1, <2>2, LatestSlot DEF Uncaptured, BlankFrom, Files
  <2>7. ~hist.committed => c = hist.file[i]
    BY <1>1, <1>2, <2>6 DEF EndInv, Accounted, AsBefore, Covered
  <2>8. UNCHANGED <<slot, hist>> /\ Latest' = Latest
    BY <1>1 DEF Told3, Latest
  <2>9. SavesMore'
    <3>1. ~hist.committed => Told(Latest)
      BY <2>2, LatestTold DEF EndInv
    <3> QED BY <2>3, <2>4, <2>5, <2>6, <2>7, <2>8, <3>1 DEF SavesMore, Told, Covers
  <2> QED BY <1>1, <2>3, <2>9, EndCoreKept
    DEF EndInv, EndCore, SoFar, Ended, SavePcs, RestorePcs, EndPcs
<1> QED BY <1>4, <1>5, ReturnsCalm DEF Capture

LEMMA InstallEnd ==
  ASSUME "read" \notin FaultKinds, TypeInv, CardInv, RecoverInv, EndInv, InstallNext
  PROVE  EndInv'
<1>1. CASE Capture
  BY <1>1, CaptureEnd
<1>2. CASE Wipe \/ WriteOpen \/ WriteData
  <2>1. /\ UNCHANGED <<slot, hist>> /\ pc \in {"wipe", "write", "writeData"}
        /\ file' = file \/ \E x : PutFile(x)
    BY <1>2 DEF Wipe, WriteOpen, WriteData, usb
  <2>2. i \in Files /\ Covered(i)
    BY <2>1 DEF TypeInv, IndexOK, FilePcs, RecoverInv, CapturedFirst, Covered
  <2>3. EndCore'
    <3>1. CASE file' = file
      BY <2>1, <3>1, EndCoreKept DEF EndInv, EndCore, Told3
    <3> QED BY <2>1, <2>2, <3>1, EndFileWritten
  <2>4. pc' \in CalmPcs
    BY <1>2, ReturnsCalm
    DEF Wipe, WriteOpen, WriteData, Step, CalmPcs, Pcs, SavePcs, RestorePcs, EndPcs
  <2> QED BY <2>3, <2>4, CalmPlace DEF EndInv, EndCore, EndPlace
<1>3. CASE MakeDirectory
  <2>0. UNCHANGED Told3
    BY <1>3 DEF MakeDirectory, Told3, usb
  <2>1. CASE pc' \in CalmPcs
    BY <2>0, <2>1, EndCalm
  <2>2. i \in Dirs
    BY <1>3 DEF MakeDirectory, TypeInv, TypeOK, CtlOK, IndexOK, UpPcs, Dirs
  <2>3. CASE \E j \in Loads : /\ Loaded(j) /\ j.state = "ACTIVE"
                              /\ StartSave(Recorded(j, i, i \notin dir[inserted]), "nextDir")
    <3>1. PICK j \in Loads :
            /\ Loaded(j) /\ j.state = "ACTIVE"
            /\ StartSave(Recorded(j, i, i \notin dir[inserted]), "nextDir")
      BY <2>3
    <3>2. j = Latest /\ j \in Journal /\ JournalValid(j)
      BY <3>1, NewestLoaded, LoadsType DEF TypeInv, TypeOK, JournalValid, JournalStates
    <3> DEFINE x == Recorded(j, i, i \notin dir[inserted])
    <3>3. (i \notin dir[inserted]) \in BOOLEAN
      OBVIOUS
    <3>4. x \in Journal
      BY <2>2, <3>2, <3>3, Changed
    <3>5. x.entry = j.entry
      BY <3>2 DEF Recorded, Journal
    <3> HIDE DEF x
    <3>6. StartSave(x, "nextDir")
      BY <3>1 DEF x
    <3> QED BY <2>0, <3>2, <3>4, <3>5, <3>6, EndStartsSaving
  <2> QED BY <1>3, <2>1, <2>3, ReturnsCalm DEF MakeDirectory
<1>4. CASE Finish
  <2>0. UNCHANGED Told3
    BY <1>4 DEF Finish, Told3, usb, card
  <2>1. PICK j \in Loads :
          \/ /\ Loaded(j) /\ JournalValid(j)
             /\ StartSave([j EXCEPT !.state = "COMMITTED"], "finish")
          \/ pc' \in CalmPcs
    BY <1>4, ReturnsCalm DEF Finish, Loads
  <2>2. CASE /\ Loaded(j) /\ JournalValid(j)
             /\ StartSave([j EXCEPT !.state = "COMMITTED"], "finish")
    <3>1. j = Latest /\ j \in Journal
      BY <2>2, NewestLoaded, LoadsType DEF TypeInv, TypeOK
    <3> DEFINE x == [j EXCEPT !.state = "COMMITTED"]
    <3>2. x \in Journal /\ x.entry = j.entry
      BY <3>1 DEF Journal, JournalStates
    <3> HIDE DEF x
    <3>3. StartSave(x, "finish")
      BY <2>2 DEF x
    <3> QED BY <2>0, <2>2, <3>1, <3>2, <3>3, EndStartsSaving
  <2> QED BY <2>0, <2>1, <2>2, EndCalm
<1>5. CASE Inventory \/ DirectoriesDone \/ SkipFile \/ FilesDone \/ Source \/ Verify
  <2>1. UNCHANGED Told3 /\ pc' \in CalmPcs
    BY <1>5, ReturnsCalm
    DEF Inventory, NoSpace, DirectoriesDone, SkipFile, FilesDone, Source, Verify, Loop,
        Told3, usb, card, CalmPcs, Pcs, SavePcs, RestorePcs, EndPcs
  <2> QED BY <2>1, EndCalm
<1> QED BY <1>1, <1>2, <1>3, <1>4, <1>5 DEF InstallNext

-----------------------------------------------------------------------------
(* The rollback restores one destination after the other. *)

LEMMA RestoreEnd ==
  ASSUME TypeInv, CardInv, RecoverInv, EndInv, Restore \/ RestoreWrite \/ RestoreVerify
  PROVE  EndInv'
<1>1. /\ UNCHANGED <<slot, hist, jr>> /\ pc \in RestorePcs /\ pc' \in RestorePcs
  BY DEF Restore, RestoreWrite, RestoreVerify, RestoreNext, Step, usb, RestorePcs
<1>2. JournalValid(Latest) /\ Latest.entry = jr.entry
  BY <1>1 DEF RecoverInv, Restoring
<1>3. /\ file \in [Cards -> [Files -> Content]] /\ inserted \in Cards /\ inserted = hist.card
      /\ i \in Files
  BY <1>1 DEF TypeInv, TypeOK, CardsOK, CardInv, OnCard, OnCardPc, RestorePcs, IndexOK,
     FilePcs, Files, Restore, RestoreWrite, RestoreVerify
<1>4. file' = file \/ ((\E x : PutFile(x)) /\ jr.entry[i] # "none")
  BY DEF Restore, RestoreWrite, RestoreVerify, TypeInv, IndexOK, HasBackup
<1>5. EndCore' /\ \A f \in Files : f # i /\ AsBefore(f) => AsBefore(f)'
  <2>1. CASE file' = file
    BY <1>1, <2>1, EndCoreKept DEF EndInv, EndCore, Told3, AsBefore
  <2>2. CASE (\E x : PutFile(x)) /\ jr.entry[i] # "none"
    BY <1>1, <1>2, <1>3, <2>2, EndFileWritten DEF Covered
  <2> QED BY <1>4, <2>1, <2>2
<1>6. ~hist.committed => Told(jr)
  BY <1>2, LatestTold DEF EndInv, Told
(* What is done without an error is as before. *)
<1>7. ASSUME i' = i - 1, err' = "ok", ~hist.committed PROVE err = "ok" /\ file'[hist.card][i] = hist.file[i]
  <2>1. CASE Restore
    <3>1. CASE RestoreNext("ok") /\ jr.entry[i] = "none" /\ UNCHANGED file
      <4>1. AsBefore(i)
        BY <1>2, <1>3, <1>7, <3>1 DEF EndInv, Accounted, Covered
      <4> QED BY <1>1, <1>7, <3>1, <4>1 DEF RestoreNext, AsBefore
    <3>2. CASE RestoreNext("ok") /\ jr.entry[i] = "absent" /\ PutFile("absent")
      <4>1. hist.file[i] = "absent"
        BY <1>3, <1>6, <1>7, <3>2 DEF Told
      <4> QED BY <1>1, <1>3, <1>7, <3>2, <4>1 DEF RestoreNext, AsBefore, PutFile
    <3>3. CASE RestoreNext("badBackup") \/ RestoreNext("io")
      BY <1>7, <3>3 DEF RestoreNext
    <3>4. CASE Step("restoreWrite")
      BY <1>3, <1>7, <3>4 DEF Step, Files
    <3> QED BY <2>1, <3>1, <3>2, <3>3, <3>4 DEF Restore
  <2>2. CASE RestoreWrite
    <3>1. CASE RestoreNext("ok") /\ jr.entry[i] = "empty" /\ PutFile("empty")
      <4>1. hist.file[i] = "empty"
        BY <1>3, <1>6, <1>7, <3>1 DEF Told
      <4> QED BY <1>1, <1>3, <1>7, <3>1, <4>1 DEF RestoreNext, AsBefore, PutFile
    <3>2. CASE RestoreNext("io")
      BY <1>7, <3>2 DEF RestoreNext
    <3>3. CASE Step("restoreVerify")
      BY <1>3, <1>7, <3>3 DEF Step, Files
    <3> QED BY <2>2, <3>1, <3>2, <3>3 DEF RestoreWrite
  <2>3. CASE RestoreVerify
    <3>1. CASE RestoreNext("ok") /\ PutFile(backup[i])
      <4>1. HasBackup(jr.entry[i]) /\ backup[i] = jr.entry[i]
        BY <2>3 DEF RestoreVerify, TypeInv, IndexOK
      <4>2. hist.file[i] = backup[i]
        BY <1>3, <1>6, <1>7, <4>1 DEF Told, HasBackup
      <4> QED BY <1>1, <1>3, <1>7, <3>1, <4>2 DEF RestoreNext, AsBefore, PutFile
    <3>2. CASE RestoreNext("io")
      BY <1>7, <3>2 DEF RestoreNext
    <3> QED BY <2>3, <3>1, <3>2 DEF RestoreVerify
  <2> QED BY <2>1, <2>2, <2>3
<1>8. i' = i - 1 \/ (i' = i /\ err' = err)
  BY DEF Restore, RestoreWrite, RestoreVerify, RestoreNext, Step
<1>9. SoFar'
  <2> SUFFICES ASSUME err' = "ok", ~hist.committed, NEW f \in Files, f > i'
               PROVE  AsBefore(f)'
    BY <1>1 DEF SoFar
  <2>1. CASE i' = i /\ err' = err
    BY <1>1, <1>3, <1>5, <2>1 DEF EndInv, SoFar, Files
  <2>2. CASE i' = i - 1
    <3>1. err = "ok" /\ file'[hist.card][i] = hist.file[i]
      BY <1>7, <2>2
    <3>2. f = i \/ f > i
      BY <1>3, <2>2 DEF Files
    <3>3. CASE f = i
      BY <1>1, <3>1, <3>3 DEF AsBefore
    <3>4. CASE f > i
      BY <1>1, <1>3, <1>5, <3>1, <3>4 DEF EndInv, SoFar, Files
    <3> QED BY <3>2, <3>3, <3>4
  <2> QED BY <1>8, <2>1, <2>2
<1> QED BY <1>1, <1>5, <1>9
  DEF EndInv, EndCore, SavesMore, Ended, SavePcs, RestorePcs, EndPcs

LEMMA RunEnd ==
  ASSUME "read" \notin FaultKinds, TypeInv, CardInv, RecoverInv, EndInv, RunNext
  PROVE  EndInv'
<1>1. CASE Restore \/ RestoreWrite \/ RestoreVerify
  BY <1>1, RestoreEnd
<1>2. CASE Run
  BY <1>2, EndCalm, ReturnsCalm
  DEF Run, Step, Told3, usb, card, CalmPcs, Pcs, SavePcs, RestorePcs, EndPcs
<1>3. CASE RunCheck
  <2>0. UNCHANGED Told3
    BY <1>3 DEF RunCheck, Told3, usb, card
  <2>1. PICK j \in Loads :
          \/ Loaded(j) /\ j.state = "COMMITTED" /\ StartRemove(j, "run")
          \/ /\ Loaded(j) /\ j.state \in {"ACTIVE", "ROLLING_BACK"}
             /\ StartSave([j EXCEPT !.state = "ROLLING_BACK"], "restore")
          \/ pc' \in CalmPcs
    BY <1>3, ReturnsCalm DEF RunCheck, Loads
  <2>2. CASE Loaded(j) /\ j.state = "COMMITTED" /\ StartRemove(j, "run")
    <3>1. j = Latest
      BY <2>2, NewestLoaded
    <3>2. Restored
      BY <2>2, <3>1, LatestTold DEF EndInv, Restored, JournalValid, JournalStates
    <3> QED BY <2>0, <2>2, <3>2, EndReached DEF StartRemove, EndPcs
  <2>3. CASE /\ Loaded(j) /\ j.state \in {"ACTIVE", "ROLLING_BACK"}
             /\ StartSave([j EXCEPT !.state = "ROLLING_BACK"], "restore")
    <3>1. j = Latest /\ j \in Journal /\ JournalValid(j)
      BY <2>3, NewestLoaded, LoadsType DEF TypeInv, TypeOK, JournalValid, JournalStates
    <3> DEFINE x == [j EXCEPT !.state = "ROLLING_BACK"]
    <3>2. x \in Journal /\ x.entry = j.entry
      BY <3>1 DEF Journal, JournalStates
    <3> HIDE DEF x
    <3>3. StartSave(x, "restore")
      BY <2>3 DEF x
    <3> QED BY <2>0, <3>1, <3>2, <3>3, EndStartsSaving
  <2> QED BY <2>0, <2>1, <2>2, <2>3, EndCalm
<1>4. CASE RestoreDone
  <2>0. UNCHANGED Told3 /\ pc = "restore" /\ i = 0
    BY <1>4 DEF RestoreDone, Told3, usb, card
  <2>1. CASE pc' \in CalmPcs
    BY <2>0, <2>1, EndCalm
  <2>2. CASE err = "ok" /\ pc' = "rmDirs"
    <3>1. Restored
      BY <2>0, <2>2 DEF EndInv, SoFar, Restored, RestorePcs, Files
    <3> QED BY <2>0, <2>2, <3>1, EndReached DEF EndPcs
  <2> QED BY <1>4, <2>1, <2>2, ReturnsCalm DEF RestoreDone, Loop
<1>5. CASE RemoveDirectory
  <2>0. UNCHANGED Told3 /\ pc = "rmDirs" /\ pc' \in CalmPcs \cup EndPcs
    BY <1>5, ReturnsCalm DEF RemoveDirectory, Loop, Told3, usb, EndPcs
  <2> QED BY <2>0, EndCalm, EndReached DEF EndInv, Ended, EndPcs
<1>6. CASE RollbackDone
  <2>1. /\ UNCHANGED <<slot, file>> /\ pc = "rmDirs" /\ pc' = "rmBackup"
        /\ ~hist'.open /\ hist'.committed = hist.committed
        /\ hist'.file = hist.file /\ hist'.card = hist.card
    BY <1>6 DEF RollbackDone, StartRemove, usb, card, TypeInv, TypeOK, HistoryOK, History
  <2>2. Latest' = Latest /\ Valid' = Valid
    BY <2>1 DEF Latest, Valid
  <2>3. EndCore' /\ Restored'
    BY <2>1, <2>2
    DEF EndInv, EndCore, OneOutcome, EntriesTrue, Accounted, Told, AsBefore, Covered,
        Ended, EndPcs, Restored
  <2> QED BY <2>1, <2>3, EndPlaceReached DEF EndInv, EndCore, EndPlace, EndPcs
<1> QED BY <1>1, <1>2, <1>3, <1>4, <1>5, <1>6 DEF RunNext

-----------------------------------------------------------------------------
LEMMA EndStep ==
  ASSUME "read" \notin FaultKinds, TypeInv, CardInv, JournalInv, RecoverInv, EndInv,
         [Next]_vars
  PROVE  EndInv'
<1>1. CASE SaveNext      BY <1>1, SaveEnd
<1>2. CASE RemoveNext    BY <1>2, RemoveEnd
<1>3. CASE ClearNext     BY <1>3, ClearEnd
<1>4. CASE ProbeNext     BY <1>4, ProbeEnd
<1>5. CASE ArmNext       BY <1>5, ArmEnd
<1>6. CASE InstallNext   BY <1>6, InstallEnd
<1>7. CASE RunNext       BY <1>7, RunEnd
<1>8. CASE UiInstall \/ UiRecover \/ UiRefresh \/ PowerCut \/ Boot
  <2>1. UNCHANGED Told3 /\ pc' \in CalmPcs
    BY <1>8 DEF UiInstall, UiRecover, UiRefresh, Starts, PowerCut, Boot, Step, Told3, usb,
       card, CalmPcs, Pcs, SavePcs, RestorePcs, EndPcs
  <2> QED BY <2>1, EndCalm
<1>9. CASE SwapCard \/ UNCHANGED vars
  <2>1. UNCHANGED Told3 /\ UNCHANGED <<pc, k, jr, i, err>>
    BY <1>9 DEF SwapCard, vars, Told3, usb, card, ctl
  <2>2. EndCore' /\ (Restored => Restored')
    BY <2>1, EndCoreKept DEF EndInv, EndCore
  <2>3. hist' = hist /\ file' = file /\ Latest' = Latest
    BY <2>1 DEF Told3, Latest
  <2>4. SavesMore' /\ SoFar' /\ Ended'
    BY <2>1, <2>2, <2>3 DEF EndInv, SavesMore, SoFar, Ended, Told, Covers, AsBefore
  <2> QED BY <2>2, <2>4 DEF EndInv, EndCore
<1> QED
  BY <1>1, <1>2, <1>3, <1>4, <1>5, <1>6, <1>7, <1>8, <1>9 DEF Next, Program

LEMMA EndInit == Init => EndInv
<1> SUFFICES ASSUME Init PROVE EndInv
  OBVIOUS
<1>1. ~JournalValid(AbsentSlot)
  BY DEF JournalValid, AbsentSlot, JournalStates
<1>2. EndCore
  BY <1>1 DEF Init, EndCore, OneOutcome, EntriesTrue, Accounted, AsBefore, Valid
<1>3. EndPlace
  BY DEF Init, EndPlace, SavesMore, SoFar, Ended, SavePcs, RestorePcs, EndPcs
<1> QED BY <1>2, <1>3 DEF EndInv, EndCore, EndPlace

(* What all the results about the rollback rest on. *)
LEMMA EndInvariance ==
  ASSUME "read" \notin FaultKinds, SwapPoints \subseteq {"idle"}
  PROVE  Spec => [](TypeInv /\ CardInv /\ JournalInv /\ RecoverInv /\ EndInv)
<1>1. TypeInv /\ CardInv /\ [Next]_vars => CardInv'
  BY CardStep
<1>2. TypeInv /\ CardInv /\ JournalInv /\ RecoverInv /\ [Next]_vars => RecoverInv'
  BY RecoverStep
<1>3. TypeInv /\ CardInv /\ JournalInv /\ RecoverInv /\ EndInv /\ [Next]_vars => EndInv'
  BY EndStep
<1>4. Spec => []JournalInv
  BY JournalInvariance
<1> QED
  BY <1>1, <1>2, <1>3, <1>4, TypeInvariance, CardInit, RecoverInit, EndInit, PTL DEF Spec

-----------------------------------------------------------------------------
(* What a reported success says. *)

CleanupPcs ==
  {"rmBackup", "rmJournal1", "clear", "clearToken", "dropToken", "dropMarker"}

LEMMA NotCleaning ==
  ASSUME pc' \notin CleanupPcs
  PROVE  Emptied'
BY DEF CleanupPcs, Emptied, RemovePcs

LEMMA ReturnsNotCleaning ==
  /\ \A s : ProbeReturns(s) => pc' \notin CleanupPcs
  /\ \A s : InstallReturns(s) => pc' \notin CleanupPcs
  /\ \A r, s : RunReturns(r, s) => pc' \notin CleanupPcs
  /\ StartRollback => pc' \notin CleanupPcs
  /\ \A j, c : StartSave(j, c) => pc' \notin CleanupPcs
  /\ \A c, s : StartDiscard(c, s) => pc' \notin CleanupPcs
BY DEF ProbeReturns, InstallReturns, RunReturns, StartRollback, StartSave, StartDiscard,
   CleanupPcs

LEMMA DiscardNotCleaning ==
  ASSUME NEW r, NEW s, DiscardReturns(r, s)
  PROVE  pc' \notin CleanupPcs
BY ReturnsNotCleaning DEF DiscardReturns, CleanupPcs

LEMMA ClearNotCleaning ==
  ASSUME NEW r, ClearReturns(r)
  PROVE  pc' \notin CleanupPcs
BY ReturnsNotCleaning, DiscardNotCleaning DEF ClearReturns, CleanupPcs

LEMMA RemoveStarted ==
  ASSUME NEW j, NEW c, StartRemove(j, c), c = "discarded" => token' = NoToken
  PROVE  Emptied'
BY DEF StartRemove, Emptied, RemovePcs

(* Without a failing removal, both slots are absent after the last step.   *)
LEMMA JournalsRemoved ==
  ASSUME "remove" \notin FaultKinds, TypeInv, Emptied, RemoveJournal1
  PROVE  Valid' = {}
<1>1. slot \in [Slots -> Journal]
  BY DEF TypeInv, TypeOK, UsbOK
<1>2. slot' = [slot EXCEPT ![1] = AbsentSlot] /\ slot[0] = AbsentSlot
  BY DEF RemoveJournal1, Removed, Fault, Emptied
<1>3. \A s \in Slots : slot'[s] = AbsentSlot
  BY <1>1, <1>2 DEF Slots
<1> QED BY <1>3 DEF Valid, JournalValid, AbsentSlot, JournalStates

LEMMA EmptiedStep ==
  ASSUME "remove" \notin FaultKinds, TypeInv, Emptied, [Next]_vars
  PROVE  Emptied'
<1>1. CASE SaveNext
  <2>1. CASE SaveOpen
    BY <2>1, NotCleaning DEF SaveOpen, Step, CleanupPcs
  <2>2. CASE SaveWrite
    <3>1. CASE pc' \notin CleanupPcs
      BY <3>1, NotCleaning
    <3>2. CASE k \in {"undoKeep", "undoDrop", "finish"} /\ StartRemove(jr, k)
      BY <3>2, RemoveStarted
    <3> QED BY <2>2, <3>1, <3>2 DEF SaveWrite, CleanupPcs
  <2>3. CASE SaveFails
    <3>1. CASE pc' \notin CleanupPcs
      BY <3>1, NotCleaning
    <3>2. CASE k = "undoDrop" /\ Step("dropMarker")
      BY <3>2 DEF Step, Emptied, RemovePcs
    <3> QED BY <2>3, <3>1, <3>2, ReturnsNotCleaning DEF SaveFails
  <2> QED BY <1>1, <2>1, <2>2, <2>3 DEF SaveNext
<1>2. CASE RemoveNext
  <2>1. CASE RemoveBackup
    BY <2>1 DEF RemoveBackup, Loop, Emptied, RemovePcs
  <2>2. CASE RemoveJournal0
    <3>1. slot'[0] = AbsentSlot
      BY <2>2 DEF RemoveJournal0, Removed, Fault, TypeInv, TypeOK, UsbOK, Slots
    <3> QED BY <2>2, <3>1 DEF RemoveJournal0, Step, Emptied, RemovePcs
  <2>3. CASE RemoveJournal1
    <3>1. Valid' = {}
      BY <2>3, JournalsRemoved
    <3>2. CASE pc' \notin CleanupPcs
      BY <3>2, NotCleaning
    <3>3. CASE (k = "dropToken" /\ Loop("dropToken", 0)) \/ (k = "undoDrop" /\ Loop("dropMarker", 0))
      BY <3>1, <3>3 DEF Loop, Emptied, RemovePcs
    <3>4. CASE StartClear(k)
      BY <3>1, <3>4 DEF StartClear, Emptied, RemovePcs
    <3> QED BY <2>3, <3>2, <3>3, <3>4, ReturnsNotCleaning, DiscardNotCleaning
        DEF RemoveJournal1, Loop, CleanupPcs
  <2> QED BY <1>2, <2>1, <2>2, <2>3 DEF RemoveNext
<1>3. CASE ClearNext
  <2>1. CASE ClearMarker
    BY <2>1 DEF ClearMarker, Step, usb, Emptied, RemovePcs, Valid
  <2>2. CASE ClearRefused \/ ClearToken
    BY <2>2, NotCleaning, ClearNotCleaning DEF ClearRefused, ClearToken
  <2> QED BY <1>3, <2>1, <2>2 DEF ClearNext
<1>4. CASE ProbeNext
  <2>1. CASE pc' \notin CleanupPcs
    BY <2>1, NotCleaning
  <2>2. CASE Probe
    BY <2>1, <2>2, ReturnsNotCleaning, RemoveStarted DEF Probe, CleanupPcs
  <2>3. CASE Reconcile
    <3>1. CASE StartClear("reconcile")
      BY <3>1 DEF StartClear, Emptied, RemovePcs
    <3> QED BY <2>1, <2>3, <3>1, ReturnsNotCleaning DEF Reconcile
  <2>4. CASE TryDiscard
    <3>1. \A c : DiscardEmptyJournal(c) /\ pc' \in CleanupPcs => \E j : StartRemove(j, c)
      BY DiscardNotCleaning DEF DiscardEmptyJournal
    <3>2. token' = token
      BY <2>4 DEF TryDiscard, usb
    <3>3. CASE token = NoToken /\ DiscardEmptyJournal("discarded")
      BY <2>1, <3>1, <3>2, <3>3, RemoveStarted
    <3>4. CASE DiscardEmptyJournal("dropToken") \/ DiscardEmptyJournal("clearDiscard")
      BY <2>1, <3>1, <3>4, RemoveStarted
    <3> QED BY <2>1, <2>4, <3>3, <3>4, DiscardNotCleaning DEF TryDiscard
  <2>5. CASE DiscardToken
    BY <2>1, <2>5, DiscardNotCleaning DEF DiscardToken
  <2> QED BY <1>4, <2>2, <2>3, <2>4, <2>5 DEF ProbeNext
<1>5. CASE ArmNext
  <2>1. CASE pc' \notin CleanupPcs
    BY <2>1, NotCleaning
  <2>2. CASE Begin \/ ArmDropToken
    BY <2>1, <2>2, ReturnsNotCleaning DEF Begin, ArmDropToken
  <2>3. CASE ArmCheck \/ ArmTokenOpen \/ ArmTokenWrite \/ ArmMarkerOpen \/ ArmMarkerWrite
    BY <2>1, <2>3
    DEF ArmCheck, ArmTokenOpen, ArmTokenWrite, ArmMarkerOpen, ArmMarkerWrite, ArmFails,
        Step, Loop, CleanupPcs
  <2>4. CASE ArmUndo
    <3>1. CASE k = "undoDrop" /\ Step("dropMarker")
      BY <3>1 DEF Step, Emptied, RemovePcs
    <3> QED BY <2>1, <2>4, <3>1, ReturnsNotCleaning DEF ArmUndo
  <2>5. CASE ArmDropMarker
    BY <2>5 DEF ArmDropMarker, Loop, Emptied, RemovePcs
  <2> QED BY <1>5, <2>2, <2>3, <2>4, <2>5 DEF ArmNext
<1>6. CASE InstallNext
  <2>1. pc' \notin CleanupPcs
    BY <1>6, ReturnsNotCleaning
    DEF InstallNext, Inventory, NoSpace, MakeDirectory, DirectoriesDone, SkipFile, Capture,
        FilesDone, Source, Wipe, WriteOpen, WriteData, Verify, Finish, Step, Loop, CleanupPcs
  <2> QED BY <2>1, NotCleaning
<1>7. CASE RunNext
  <2>1. CASE pc' \notin CleanupPcs
    BY <2>1, NotCleaning
  <2>2. CASE RunCheck \/ RollbackDone
    BY <2>1, <2>2, ReturnsNotCleaning, RemoveStarted DEF RunCheck, RollbackDone
  <2>3. CASE Run \/ Restore \/ RestoreWrite \/ RestoreVerify \/ RestoreDone \/ RemoveDirectory
    BY <2>1, <2>3, ReturnsNotCleaning
    DEF Run, Restore, RestoreWrite, RestoreVerify, RestoreDone, RemoveDirectory,
        RestoreNext, Step, Loop, CleanupPcs
  <2> QED BY <1>7, <2>2, <2>3 DEF RunNext
<1>8. CASE UiInstall \/ UiRecover \/ UiRefresh \/ PowerCut \/ Boot
  BY <1>8, NotCleaning
  DEF UiInstall, UiRecover, UiRefresh, Starts, PowerCut, Boot, Step, CleanupPcs
<1>9. CASE SwapCard \/ UNCHANGED vars
  BY <1>9 DEF SwapCard, vars, usb, ctl, Emptied, Valid
<1> QED
  BY <1>1, <1>2, <1>3, <1>4, <1>5, <1>6, <1>7, <1>8, <1>9 DEF Next, Program

(* FmcbRecoveryRun() succeeds only as the last step of a cleanup. *)
LEMMA DiscardOk ==
  ASSUME NEW r, NEW s, DiscardReturns(r, s), rc' = "ok", rc # "ok",
         r \in {"discarded", "kept", "io", "E5144", "E5169"}
  PROVE  r = "discarded" /\ goal' = "idle" /\ pc' \in {"probe", "idle"}
BY DEF DiscardReturns, ProbeReturns, InstallReturns, RunReturns

LEMMA ClearOk ==
  ASSUME NEW r, ClearReturns(r), rc' = "ok", rc # "ok", r \in {"ok", "io", "E5169"}
  PROVE  r = "ok" /\ k \in {"clearDiscard", "run"} /\ goal' = "idle" /\ pc' \in {"probe", "idle"}
<1>1. CASE k = "clearDiscard"
  BY <1>1, DiscardOk DEF ClearReturns
<1>2. CASE k # "clearDiscard"
  BY <1>2 DEF ClearReturns, ProbeReturns, InstallReturns, RunReturns
<1> QED BY <1>1, <1>2

(* A success that was reported before stays true at the menu. *)
LEMMA OkStays ==
  ASSUME TypeInv, OkMeans, rc = "ok", Next
  PROVE  OkMeans'
<1>1. /\ Valid = {} /\ token = NoToken /\ goal = "idle"
      /\ pc \in {"idle", "probe", "reconcile"}
  BY DEF OkMeans
<1>2. ~(SaveNext \/ RemoveNext \/ ClearNext \/ ArmNext \/ InstallNext \/ RunNext)
  BY <1>1
  DEF SaveNext, SaveOpen, SaveWrite, SaveFails, RemoveNext, RemoveBackup, RemoveJournal0,
      RemoveJournal1, ClearNext, ClearMarker, ClearRefused, ClearToken, ArmNext, Begin,
      ArmCheck, ArmTokenOpen, ArmTokenWrite, ArmMarkerOpen, ArmMarkerWrite, ArmUndo,
      ArmDropMarker, ArmDropToken, InstallNext, Inventory, MakeDirectory, DirectoriesDone,
      SkipFile, Capture, FilesDone, Source, Wipe, WriteOpen, WriteData, Verify, Finish,
      RunNext, Run, RunCheck, Restore, RestoreWrite, RestoreVerify, RestoreDone,
      RemoveDirectory, RollbackDone
<1>3. \A s : ProbeReturns(s) /\ UNCHANGED usb => OkMeans'
  BY <1>1 DEF ProbeReturns, OkMeans, usb, Valid
<1>4. CASE ProbeNext
  <2>1. UNCHANGED usb
    BY <1>1, <1>4 DEF ProbeNext, Probe, Reconcile, TryDiscard, DiscardToken
  <2>2. CASE Probe
    <3>1. PICK j \in Loads :
            /\ Loaded(j)
            /\ \/ j.state = "absent" /\ pc' = "reconcile" /\ UNCHANGED <<goal, rc>>
               \/ \E s : ProbeReturns(s)
               \/ j.state \in JournalStates
      BY <2>2 DEF Probe, JournalStates
    <3>2. j = Latest
      BY <1>1, <3>1 DEF Loaded, Valid
    <3>3. j.state \notin JournalStates
      BY <1>1, <3>2, LatestSlot DEF JournalValid
    <3> QED BY <1>1, <1>3, <2>1, <3>1, <3>3 DEF OkMeans, usb, Valid
  <2>3. CASE Reconcile
    <3>1. \E s : ProbeReturns(s)
      BY <1>1, <2>3 DEF Reconcile, CardMatches, NoToken, Foreign
    <3> QED BY <1>3, <2>1, <3>1
  <2> QED BY <1>1, <1>4, <2>2, <2>3 DEF ProbeNext, TryDiscard, DiscardToken
<1>5. CASE UiInstall \/ UiRecover \/ PowerCut
  BY <1>5 DEF UiInstall, UiRecover, PowerCut, OkMeans
<1>6. CASE UiRefresh \/ SwapCard
  BY <1>1, <1>6 DEF UiRefresh, Starts, SwapCard, OkMeans, usb, ctl, Valid
<1> QED BY <1>1, <1>2, <1>4, <1>5, <1>6 DEF Next, Program, Boot

LEMMA OkStep ==
  ASSUME "remove" \notin FaultKinds, TypeInv, ReportInv, [Next]_vars
  PROVE  OkMeans'
<1>1. CASE rc = "ok" /\ Next
  BY <1>1, OkStays DEF ReportInv
<1>2. CASE UNCHANGED vars
  BY <1>2 DEF vars, usb, ctl, ReportInv, OkMeans, Valid
<1>3. CASE rc # "ok" /\ rc' = "ok" /\ Next
  <2>1. CASE RemoveNext
    <3>1. RemoveJournal1 /\ DiscardReturns("discarded", NoStatus) /\ k = "discarded"
      BY <1>3, <2>1
      DEF RemoveNext, RemoveBackup, RemoveJournal0, RemoveJournal1, Loop, Step,
          InstallReturns, StartClear
    <3>2. Valid' = {}
      BY <3>1, JournalsRemoved DEF ReportInv
    <3>3. token' = NoToken
      BY <3>1 DEF RemoveJournal1, ReportInv, Emptied, RemovePcs
    <3> QED BY <1>3, <3>1, <3>2, <3>3, DiscardOk DEF OkMeans
  <2>2. CASE ClearNext
    <3>1. ClearToken /\ token' = NoToken /\ ClearReturns("ok")
      BY <1>3, <2>2, ClearOk DEF ClearNext, ClearMarker, ClearRefused, ClearToken, Step
    <3>2. k \in {"clearDiscard", "run"} /\ goal' = "idle" /\ pc' \in {"probe", "idle"}
      BY <1>3, <3>1, ClearOk
    <3>3. Valid' = {}
      BY <3>1, <3>2 DEF ClearToken, ReportInv, Emptied, Valid
    <3> QED BY <3>1, <3>2, <3>3 DEF OkMeans
  <2>3. CASE ProbeNext
    <3>1. CASE Probe \/ Reconcile
      BY <1>3, <3>1
      DEF Probe, Reconcile, ProbeReturns, StartRemove, StartDiscard, StartClear
    <3>2. CASE TryDiscard
      <4>1. \A c : ~DiscardEmptyJournal(c)
        BY <1>3, DiscardOk DEF DiscardEmptyJournal, StartRemove
      <4> QED BY <1>3, <3>2, <4>1, DiscardOk DEF TryDiscard
    <3>3. CASE DiscardToken
      <4>1. token' = NoToken /\ DiscardReturns("discarded", NoStatus)
        BY <1>3, <3>3, DiscardOk DEF DiscardToken
      <4>2. Valid' = {}
        BY <3>3 DEF DiscardToken, ReportInv, Emptied, Valid
      <4> QED BY <1>3, <4>1, <4>2, DiscardOk DEF OkMeans
    <3> QED BY <2>3, <3>1, <3>2, <3>3 DEF ProbeNext
  <2>4. CASE SaveNext \/ ArmNext \/ InstallNext
    BY <1>3, <2>4
    DEF SaveNext, SaveOpen, SaveWrite, SaveFails, ArmNext, Begin, ArmCheck, ArmTokenOpen,
        ArmTokenWrite, ArmMarkerOpen, ArmMarkerWrite, ArmUndo, ArmDropMarker, ArmDropToken,
        InstallNext, Inventory, NoSpace, MakeDirectory, DirectoriesDone, SkipFile, Capture,
        FilesDone, Source, Wipe, WriteOpen, WriteData, Verify, Finish, Step, Loop,
        StartRemove, StartRollback, StartSave, StartDiscard, InstallReturns, RunReturns,
        ArmFails
  <2>5. CASE RunNext
    BY <1>3, <2>5
    DEF RunNext, Run, RunCheck, Restore, RestoreWrite, RestoreVerify, RestoreNext,
        RestoreDone, RemoveDirectory, RollbackDone, Step, Loop, StartRemove, StartSave,
        StartDiscard, RunReturns
  <2>6. CASE UiInstall \/ UiRecover \/ UiRefresh \/ PowerCut \/ Boot \/ SwapCard
    BY <1>3, <2>6 DEF UiInstall, UiRecover, UiRefresh, PowerCut, Boot, Step, SwapCard, ctl
  <2> QED BY <1>3, <2>1, <2>2, <2>3, <2>4, <2>5, <2>6 DEF Next, Program
<1>4. CASE rc' # "ok"
  BY <1>4 DEF OkMeans
<1> QED BY <1>1, <1>2, <1>3, <1>4

(* When FmcbRecoveryRun() reports 0 and nothing was committed, every        *)
(* destination of the card is what it was before the transaction, the       *)
(* token and the journals are gone ("Every prepared destination was         *)
(* restored to its captured pre-install state and the USB recovery journal  *)
(* was removed", RunPendingRecovery), for every plan, set of cards and      *)
(* number of power cuts and failing accesses, also after rollbacks that     *)
(* were cut off and repeated.  Removals must not fail: RemoveRecoveryFiles  *)
(* ignores their result, and then a reported success leaves a journal.      *)
THEOREM SuccessIsRestored ==
  ASSUME "read" \notin FaultKinds, "remove" \notin FaultKinds, SwapPoints \subseteq {"idle"}
  PROVE  Spec => []ReportedRestored
<1>1. Init => ReportInv
  BY DEF Init, ReportInv, Emptied, OkMeans, RemovePcs
<1>2. TypeInv /\ ReportInv /\ [Next]_vars => ReportInv'
  BY EmptiedStep, OkStep DEF ReportInv
<1>3. TypeInv /\ EndInv /\ ReportInv => ReportedRestored
  <2> SUFFICES ASSUME TypeInv, EndInv, ReportInv, rc = "ok", ~hist.committed
               PROVE  file[hist.card] = hist.file /\ token = NoToken /\ ~JournalValid(Latest)
    BY DEF ReportedRestored
  <2>1. Valid = {} /\ token = NoToken
    BY DEF ReportInv, OkMeans
  <2>2. ~JournalValid(Latest)
    BY <2>1, LatestSlot
  <2>3. \A f \in Files : file[hist.card][f] = hist.file[f]
    BY <2>2, BlankRestored DEF EndInv, Restored, AsBefore
  <2>4. file[hist.card] = hist.file
    BY <2>3 DEF TypeInv, TypeOK, CardsOK, HistoryOK, History
  <2> QED BY <2>1, <2>2, <2>4
<1> QED BY <1>1, <1>2, <1>3, EndInvariance, PTL DEF Spec

-----------------------------------------------------------------------------
(* What the dashboard shows. *)

LEMMA ReturnsShown ==
  /\ \A s : ProbeReturns(s) /\ (goal = "install" \/ s.state # "none" \/ Restored') => ShownInv'
  /\ \A s : InstallReturns(s) => ShownInv'
  /\ \A r, s : RunReturns(r, s) /\ (goal = "install" \/ s.state # "none" \/ Restored') => ShownInv'
  /\ StartRollback /\ goal = "install" => ShownInv'
BY DEF ProbeReturns, InstallReturns, RunReturns, StartRollback, DropLocals, ShownInv, Goals,
   Shown, InstallPcs, ArmPcs, RollbackPcs, RestorePcs, SavePcs

LEMMA StartsShown ==
  ASSUME Goals
  PROVE  /\ \A j, c : StartRemove(j, c) => ShownInv'
         /\ \A c : StartClear(c) => ShownInv'
         /\ \A j, c : /\ StartSave(j, c)
                      /\ goal = "install" \/ (c = "restore" /\ status.state # "none")
                      => ShownInv'
         /\ \A c, s : /\ StartDiscard(c, s)
                      /\ goal = "install" \/ (c # "begin" /\ s.state # "none")
                      => ShownInv'
BY DEF StartRemove, StartClear, StartSave, StartDiscard, ShownInv, Goals, Shown, InstallPcs,
   ArmPcs, RollbackPcs, RestorePcs, SavePcs

LEMMA DiscardShown ==
  ASSUME Goals, NEW r, NEW s, DiscardReturns(r, s),
         goal = "install" \/ s.state # "none" \/ (Restored' /\ r # "kept")
  PROVE  ShownInv'
<1>1. CASE by \in {"probe", "begin"} /\ r = "discarded"
  BY <1>1 DEF DiscardReturns, ShownInv, Goals, Shown, InstallPcs, ArmPcs, RollbackPcs,
     RestorePcs, SavePcs
<1>2. CASE by = "run" /\ r = "kept"
  BY <1>2 DEF DiscardReturns, DropLocals, ShownInv, Goals, Shown, InstallPcs, ArmPcs,
     RollbackPcs, RestorePcs, SavePcs
<1> QED BY <1>1, <1>2, ReturnsShown DEF DiscardReturns

LEMMA ClearShown ==
  ASSUME Goals, NEW r \in {"ok", "io", "E5169"}, ClearReturns(r), Restored'
  PROVE  ShownInv'
<1>1. CASE k = "clearDiscard"
  BY <1>1, DiscardShown DEF ClearReturns
<1>2. CASE k = "finish" /\ r = "ok"
  BY <1>2 DEF ClearReturns, DropLocals, ShownInv, Goals, Shown, InstallPcs, ArmPcs,
     RollbackPcs, RestorePcs, SavePcs
<1> QED BY <1>1, <1>2, ReturnsShown DEF ClearReturns

(* Steps within the installer, and within the rollback. *)
LEMMA InstallShown ==
  ASSUME goal = "install", UNCHANGED goal, pc' # "idle"
  PROVE  ShownInv'
BY DEF ShownInv, Goals, Shown

LEMMA RollbackShown ==
  ASSUME ShownInv, UNCHANGED <<goal, by>>, status'.state = status.state,
         pc \in RollbackPcs \/ (pc \in SavePcs /\ k = "restore"), pc' \in RollbackPcs
  PROVE  ShownInv'
BY DEF ShownInv, Goals, Shown, InstallPcs, ArmPcs, RollbackPcs, RestorePcs, SavePcs

LEMMA CleanupShown ==
  ASSUME Goals, UNCHANGED <<goal, by>>, pc' \in EndPcs \ {"rmDirs"}
  PROVE  ShownInv'
BY DEF ShownInv, Goals, Shown, EndPcs, InstallPcs, ArmPcs, RollbackPcs, RestorePcs, SavePcs

LEMMA ShownStep ==
  ASSUME TypeInv, EndInv, EndInv', ShownInv, [Next]_vars
  PROVE  ShownInv'
<1>0. Goals /\ Shown
  BY DEF ShownInv
<1>1. CASE SaveNext
  <2>1. CASE SaveOpen
    BY <1>0, <2>1 DEF SaveOpen, Step, ShownInv, Goals, Shown, InstallPcs, ArmPcs, RollbackPcs,
       RestorePcs, SavePcs
  <2>2. CASE SaveWrite
    <3>1. CASE k \in {"arm", "nextDir", "source"}
      <4>1. goal = "install"
        BY <1>0, <2>2, <3>1 DEF SaveWrite, Goals, SavePcs
      <4> QED BY <2>2, <3>1, <4>1, InstallShown DEF SaveWrite
    <3>2. CASE k = "restore"
      <4>1. status \in Status
        BY DEF TypeInv, TypeOK, CtlOK
      <4>2. UNCHANGED <<goal, by>> /\ status'.state = status.state /\ pc' = "restore"
        BY <2>2, <3>2, <4>1 DEF SaveWrite, Status
      <4> QED BY <2>2, <3>2, <4>2, RollbackShown
          DEF SaveWrite, RollbackPcs, RestorePcs, SavePcs
    <3>3. CASE k \in {"undoKeep", "undoDrop", "finish"}
      BY <1>0, <2>2, <3>3, StartsShown DEF SaveWrite
    <3> QED BY <2>2, <3>1, <3>2, <3>3 DEF SaveWrite
  <2>3. CASE SaveFails
    <3>1. k \notin {"restore"} => goal = "install"
      BY <1>0, <2>3 DEF SaveFails, Goals, SavePcs
    <3>2. k = "restore" => goal = "install" \/ status.state # "none"
      BY <1>0, <2>3 DEF SaveFails, Shown, SavePcs
    <3>3. CASE k = "undoDrop" /\ Step("dropMarker")
      BY <1>0, <3>3, CleanupShown DEF Step, EndPcs
    <3> QED BY <2>3, <3>1, <3>2, <3>3, ReturnsShown DEF SaveFails
  <2> QED BY <1>1, <2>1, <2>2, <2>3 DEF SaveNext
<1>2. CASE RemoveNext \/ ClearNext \/ Reconcile \/ DiscardToken
  <2>1. UNCHANGED <<file, hist>> /\ pc \in EndPcs
    BY <1>2
    DEF RemoveNext, RemoveBackup, RemoveJournal0, RemoveJournal1, ClearNext, ClearMarker,
        ClearRefused, ClearToken, Reconcile, DiscardToken, usb, card, EndPcs
  <2>2. Restored'
    BY <2>1 DEF EndInv, Ended, Restored, AsBefore
  <2>3. CASE UNCHANGED <<goal, by>> /\ pc' \in EndPcs \ {"rmDirs"}
    BY <1>0, <2>3, CleanupShown
  <2>4. CASE RemoveNext
    BY <1>0, <2>2, <2>3, <2>4, DiscardShown, ReturnsShown, StartsShown
    DEF RemoveNext, RemoveBackup, RemoveJournal0, RemoveJournal1, Step, Loop, EndPcs
  <2>5. CASE ClearNext
    BY <1>0, <2>2, <2>3, <2>5, ClearShown
    DEF ClearNext, ClearMarker, ClearRefused, ClearToken, Step, EndPcs
  <2>6. CASE Reconcile
    BY <1>0, <2>2, <2>6, ReturnsShown, StartsShown DEF Reconcile
  <2>7. CASE DiscardToken
    BY <1>0, <2>2, <2>7, DiscardShown DEF DiscardToken
  <2> QED BY <1>2, <2>4, <2>5, <2>6, <2>7
<1>3. CASE Probe
  <2>1. CorruptStatus.state = "corrupt" /\ \A j : FillStatus(j).state = "valid"
    BY DEF CorruptStatus, NoStatus, FillStatus
  <2>2. CASE UNCHANGED <<goal, by>> /\ pc' = "reconcile"
    BY <1>0, <2>2, CleanupShown DEF EndPcs
  <2> QED BY <1>0, <1>3, <2>1, <2>2, ReturnsShown, StartsShown DEF Probe
<1>4. CASE TryDiscard
  <2>1. goal = "install" \/ status.state # "none"
    BY <1>0, <1>4 DEF TryDiscard, Shown, RollbackPcs
  <2>2. \A c : DiscardEmptyJournal(c) => ShownInv'
    BY <1>0, <2>1, DiscardShown, StartsShown DEF DiscardEmptyJournal
  <2> QED BY <1>0, <1>4, <2>1, <2>2, DiscardShown DEF TryDiscard
<1>5. CASE ArmNext
  <2>1. CASE Begin
    <3>1. goal = "install"
      BY <1>0, <2>1 DEF Begin, Goals, InstallPcs
    <3> QED BY <1>0, <2>1, <3>1, ReturnsShown, StartsShown DEF Begin
  <2>2. CASE ArmCheck \/ ArmTokenOpen \/ ArmTokenWrite \/ ArmMarkerOpen \/ ArmMarkerWrite
    <3>1. goal = "install" /\ UNCHANGED goal /\ pc' # "idle"
      BY <1>0, <2>2
      DEF ArmCheck, ArmTokenOpen, ArmTokenWrite, ArmMarkerOpen, ArmMarkerWrite, ArmFails,
          Step, Loop, Goals, InstallPcs, ArmPcs
    <3> QED BY <3>1, InstallShown
  <2>3. CASE ArmUndo
    <3>1. goal = "install"
      BY <1>0, <2>3 DEF ArmUndo, Goals, InstallPcs, ArmPcs
    <3>2. CASE Step("dropMarker")
      BY <3>1, <3>2, InstallShown DEF Step
    <3> QED BY <1>0, <2>3, <3>1, <3>2, ReturnsShown, StartsShown DEF ArmUndo
  <2>4. CASE ArmDropMarker
    BY <1>0, <2>4, CleanupShown DEF ArmDropMarker, Loop, EndPcs
  <2>5. CASE ArmDropToken
    BY <2>5, ReturnsShown DEF ArmDropToken
  <2> QED BY <1>5, <2>1, <2>2, <2>3, <2>4, <2>5 DEF ArmNext
<1>6. CASE InstallNext
  <2>1. goal = "install"
    BY <1>0, <1>6
    DEF InstallNext, Inventory, MakeDirectory, DirectoriesDone, SkipFile, Capture, FilesDone,
        Source, Wipe, WriteOpen, WriteData, Verify, Finish, Goals, InstallPcs
  <2>2. CASE MakeDirectory \/ Capture \/ Finish
    BY <1>0, <2>1, <2>2, ReturnsShown, StartsShown DEF MakeDirectory, Capture, Finish
  <2>3. CASE Inventory \/ DirectoriesDone \/ SkipFile \/ FilesDone
    BY <2>1, <2>3, ReturnsShown, InstallShown
    DEF Inventory, NoSpace, DirectoriesDone, SkipFile, FilesDone, Loop
  <2>4. CASE Source \/ Wipe \/ WriteOpen \/ WriteData \/ Verify
    BY <2>1, <2>4, ReturnsShown, InstallShown
    DEF Source, Wipe, WriteOpen, WriteData, Verify, Step, Loop
  <2> QED BY <1>6, <2>2, <2>3, <2>4 DEF InstallNext
<1>7. CASE RunNext
  <2>1. pc \in RollbackPcs
    BY <1>7
    DEF RunNext, Run, RunCheck, Restore, RestoreWrite, RestoreVerify, RestoreDone,
        RemoveDirectory, RollbackDone, RollbackPcs, RestorePcs
  <2>2. goal = "install" \/ status.state # "none"
    BY <1>0, <2>1 DEF Shown
  <2>3. CASE UNCHANGED <<goal, by, status>> /\ pc' \in RollbackPcs
    BY <2>1, <2>3, RollbackShown
  <2>4. CASE Run \/ RunCheck \/ RestoreDone \/ RollbackDone
    BY <1>0, <2>2, <2>3, <2>4, ReturnsShown, StartsShown
    DEF Run, RunCheck, RestoreDone, RollbackDone, Step, Loop, RollbackPcs, RestorePcs
  <2>5. CASE Restore \/ RestoreWrite \/ RestoreVerify \/ RemoveDirectory
    BY <2>2, <2>3, <2>5, ReturnsShown
    DEF Restore, RestoreWrite, RestoreVerify, RemoveDirectory, RestoreNext, Step, Loop,
        RollbackPcs, RestorePcs
  <2> QED BY <1>7, <2>4, <2>5 DEF RunNext
<1>8. CASE UiInstall \/ UiRecover \/ UiRefresh \/ PowerCut \/ Boot
  BY <1>0, <1>8
  DEF UiInstall, UiRecover, UiRefresh, Starts, PowerCut, DropLocals, Boot, Step, ShownInv,
      Goals, Shown, InstallPcs, ArmPcs, RollbackPcs, RestorePcs, SavePcs
<1>9. CASE SwapCard \/ UNCHANGED vars
  BY <1>0, <1>9
  DEF SwapCard, vars, usb, card, ctl, ShownInv, Goals, Shown, Restored, AsBefore
<1> QED
  BY <1>1, <1>2, <1>3, <1>4, <1>5, <1>6, <1>7, <1>8, <1>9 DEF Next, Program, ProbeNext

(* While a card holds part of an installation, the dashboard never says     *)
(* that nothing is pending (RefreshRecoveryStatus() after every operation   *)
(* and at every start), for every plan, set of cards and number of faults,  *)
(* as long as both journal slots can be read.  A status is dropped only     *)
(* where the card is known to be as it was (Ended), and a rollback that     *)
(* stops keeps the status it was started with.                              *)
THEOREM PendingAlwaysShown ==
  ASSUME "read" \notin FaultKinds, SwapPoints \subseteq {"idle"}
  PROVE  Spec => []PendingShown
<1>1. Init => ShownInv
  BY DEF Init, ShownInv, Goals, Shown, Restored, AsBefore, InstallPcs, ArmPcs, RollbackPcs,
     RestorePcs, SavePcs
<1>2. TypeInv /\ EndInv /\ EndInv' /\ ShownInv /\ [Next]_vars => ShownInv'
  BY ShownStep
<1>3. TypeInv /\ EndInv /\ ShownInv => PendingShown
  <2> SUFFICES ASSUME TypeInv, EndInv, ShownInv, pc = "idle", hist.open,
                      file[hist.card] # hist.file
               PROVE  status.state # "none"
    BY DEF PendingShown
  <2>1. ~hist.committed
    BY DEF EndInv, OneOutcome
  <2>2. Restored => file[hist.card] = hist.file
    BY <2>1 DEF Restored, AsBefore, TypeInv, TypeOK, CardsOK, HistoryOK, History
  <2> QED BY <2>2 DEF ShownInv, Shown
<1> QED BY <1>1, <1>2, <1>3, EndInvariance, PTL DEF Spec

-----------------------------------------------------------------------------
(* Directories *)

DirsCore == DirectoriesKept /\ \A s \in Valid : NotOurs(slot[s])
DirsPlace ==
  /\ pc \in SavePcs \cup RestorePcs \cup {"rmDirs"} => NotOurs(jr)
  /\ pc \in SavePcs /\ k = "arm" => Valid = {} /\ jr.dirs = {}
  /\ pc \in ArmPcs => \A s \in Valid : slot[s].dirs = {}
  /\ pc \in {"writeData", "restoreVerify"} => DirOf[i] \in dir[inserted]
FarPcs == Pcs \ (SavePcs \cup RestorePcs \cup ArmPcs \cup {"rmDirs", "writeData"})

LEMMA DirsParts ==
  /\ DirsInv <=> DirsCore /\ DirsPlace
  /\ DirsInv' <=> DirsCore' /\ DirsPlace'
BY DEF DirsInv, DirsCore, DirsPlace

LEMMA FarPlace ==
  ASSUME pc' \in FarPcs
  PROVE  DirsPlace'
BY DEF FarPcs, DirsPlace, SavePcs, RestorePcs, ArmPcs

LEMMA ReturnsFar ==
  /\ \A s : ProbeReturns(s) => pc' \in FarPcs
  /\ \A s : InstallReturns(s) => pc' \in FarPcs
  /\ \A r, s : RunReturns(r, s) => pc' \in FarPcs
  /\ StartRollback => pc' \in FarPcs
  /\ \A j, c : StartRemove(j, c) => pc' \in FarPcs
  /\ \A c : StartClear(c) => pc' \in FarPcs
  /\ \A c, s : StartDiscard(c, s) => pc' \in FarPcs
BY DEF ProbeReturns, InstallReturns, RunReturns, StartRollback, StartRemove, StartClear,
   StartDiscard, FarPcs, Pcs, SavePcs, RestorePcs, ArmPcs

LEMMA DiscardFar ==
  ASSUME NEW r, NEW s, DiscardReturns(r, s)
  PROVE  pc' \in FarPcs
BY ReturnsFar DEF DiscardReturns, FarPcs, Pcs, SavePcs, RestorePcs, ArmPcs

LEMMA ClearFar ==
  ASSUME NEW r, ClearReturns(r)
  PROVE  pc' \in FarPcs
BY ReturnsFar, DiscardFar DEF ClearReturns, FarPcs, Pcs, SavePcs, RestorePcs, ArmPcs

(* The transaction goes on as it was, or it has ended. *)
SameOrEnded ==
  hist'.open => hist.open /\ hist'.dir = hist.dir /\ hist'.card = hist.card

LEMMA CoreStays ==
  ASSUME DirsCore, UNCHANGED <<file, dir>>, SameOrEnded,
         \A v \in Valid' : v \in Valid /\ slot'[v] = slot[v]
  PROVE  DirsCore'
BY DEF DirsCore, DirectoriesKept, SameOrEnded, NotOurs

LEMMA SlotsEmptied ==
  ASSUME slot \in [Slots -> Journal], NEW s \in Slots, NEW x \in {AbsentSlot, TornSlot},
         slot' = [slot EXCEPT ![s] = x] \/ slot' = slot
  PROVE  \A v \in Valid' : v \in Valid /\ slot'[v] = slot[v]
<1>1. ~JournalValid(x)
  BY DEF JournalValid, AbsentSlot, TornSlot, JournalStates
<1> QED BY <1>1 DEF Valid

LEMMA SameSlots ==
  ASSUME UNCHANGED slot
  PROVE  Valid' = Valid /\ \A v \in Valid' : v \in Valid /\ slot'[v] = slot[v]
BY DEF Valid

(* What was read from a slot is in it, also when the other one failed. *)
LEMMA LoadedSlot ==
  ASSUME slot \in [Slots -> Journal], NEW j, Loaded(j)
  PROVE  /\ JournalValid(j) => \E s \in Valid : j = slot[s]
         /\ j.state = "absent" => Valid = {}
<1>1. /\ ~JournalValid(AbsentSlot) /\ ~JournalValid(TornSlot) /\ TornSlot # AbsentSlot
      /\ AbsentSlot.state = "absent" /\ TornSlot.state = "torn"
  BY DEF JournalValid, AbsentSlot, TornSlot, JournalStates
<1>2. CASE j = Latest
  BY <1>1, <1>2, LatestSlot DEF JournalValid, JournalStates
<1>3. CASE \E t \in Slots : j = LatestOf([slot EXCEPT ![t] = TornSlot])
  <2>1. PICK t \in Slots : j = LatestOf([slot EXCEPT ![t] = TornSlot])
    BY <1>3
  <2> DEFINE x == [slot EXCEPT ![t] = TornSlot]
  <2>2. x[t] = TornSlot /\ \A s \in Slots : s # t => x[s] = slot[s]
    OBVIOUS
  <2>3. 0 \in Slots /\ 1 \in Slots
    BY DEF Slots
  <2> HIDE DEF x
  <2>4. JournalValid(j) => \E s \in Slots : JournalValid(x[s]) /\ j = x[s]
    BY <1>1, <2>1, <2>3 DEF LatestOf, x
  <2>5. j.state # "absent"
    BY <1>1, <2>1, <2>2, <2>3 DEF LatestOf, x, Slots, JournalValid, JournalStates
  <2> QED BY <1>1, <2>2, <2>4, <2>5 DEF Valid
<1> QED BY <1>2, <1>3 DEF Loaded

LEMMA SavesNotOurs ==
  ASSUME TypeInv, DirsInv, NEW x, x \in Journal, NotOurs(x),
         NEW c, c # "arm", StartSave(x, c), UNCHANGED hist
  PROVE  DirsPlace'
<1>1. jr'.dirs = x.dirs
  BY DEF StartSave, Journal
<1> QED BY <1>1 DEF StartSave, DirsPlace, NotOurs, SavePcs, RestorePcs, ArmPcs

LEMMA SaveDirs ==
  ASSUME TypeInv, DirsInv, SaveNext
  PROVE  DirsInv'
<1>0. slot \in [Slots -> Journal] /\ jr \in Journal /\ hist \in History
  BY DEF TypeInv, TypeOK, UsbOK, CtlOK, HistoryOK
<1>1. SlotOf(jr.seq) \in Slots
  BY <1>0, NextSlot DEF Journal
<1>2. UNCHANGED <<file, dir>> /\ pc \in SavePcs /\ NotOurs(jr) /\ DirsCore
  BY DirsParts DEF SaveNext, SaveOpen, SaveWrite, SaveFails, card, SavePcs, DirsInv
<1>3. SameOrEnded
  BY <1>0 DEF SaveNext, SaveOpen, SaveWrite, SaveFails, HistAfterSave, Committed, History,
     SameOrEnded
<1>4. ASSUME SavedJournal
      PROVE  /\ DirsCore'
             /\ k = "arm" => \A v \in Valid' : slot'[v].dirs = {}
  <2>1. \A v \in Valid' : slot'[v] = jr \/ (v \in Valid /\ slot'[v] = slot[v])
    BY <1>0, <1>1, <1>4 DEF SavedJournal, Valid
  <2>2. DirsCore'
    BY <1>2, <1>3, <2>1 DEF DirsCore, DirectoriesKept, NotOurs, SameOrEnded
  <2> QED BY <1>2, <2>1, <2>2 DEF DirsInv
<1>5. CASE SaveOpen
  <2>1. PICK x \in {AbsentSlot, TornSlot} : slot' = [slot EXCEPT ![SlotOf(jr.seq)] = x]
    BY <1>5 DEF SaveOpen
  <2>2. \A v \in Valid' : v \in Valid /\ slot'[v] = slot[v]
    BY <1>0, <1>1, <2>1, SlotsEmptied
  <2>3. DirsCore'
    BY <1>2, <1>3, <2>2, CoreStays
  <2>4. Valid = {} => Valid' = {}
    BY <2>2
  <2>5. pc' = "saveWrite" /\ UNCHANGED <<jr, k, hist>>
    BY <1>5 DEF SaveOpen, Step
  <2>6. DirsPlace'
    BY <1>2, <2>4, <2>5 DEF DirsInv, DirsPlace, NotOurs, SavePcs, RestorePcs, ArmPcs
  <2> QED BY <2>3, <2>6, DirsParts
<1>6. CASE SaveWrite
  <2>1. DirsCore'
    BY <1>4, <1>6 DEF SaveWrite
  <2>2. CASE k = "restore"
    <3>1. pc' = "restore" /\ UNCHANGED jr
      BY <1>6, <2>2 DEF SaveWrite
    <3> QED BY <1>2, <1>3, <2>1, <3>1, DirsParts
      DEF DirsPlace, NotOurs, SameOrEnded, SavePcs, RestorePcs, ArmPcs
  <2>3. CASE k = "arm"
    <3>1. pc' = "arm" /\ \A v \in Valid' : slot'[v].dirs = {}
      BY <1>4, <1>6, <2>3 DEF SaveWrite
    <3> QED BY <2>1, <3>1, DirsParts DEF DirsPlace, SavePcs, RestorePcs, ArmPcs
  <2>4. CASE k \notin {"restore", "arm"}
    <3>1. pc' \in FarPcs
      BY <1>6, <2>4, ReturnsFar
      DEF SaveWrite, FarPcs, Pcs, SavePcs, RestorePcs, ArmPcs
    <3> QED BY <2>1, <3>1, FarPlace, DirsParts
  <2> QED BY <2>2, <2>3, <2>4
<1>7. CASE SaveFails
  <2>1. pc' \in FarPcs
    BY <1>7, ReturnsFar DEF SaveFails, Step, FarPcs, Pcs, SavePcs, RestorePcs, ArmPcs
  <2>2. CASE UNCHANGED slot
    BY <1>2, <1>3, <2>1, <2>2, SameSlots, CoreStays, FarPlace, DirsParts
  <2>3. CASE SavedJournal
    BY <1>4, <2>1, <2>3, FarPlace, DirsParts
  <2> QED BY <1>7, <2>2, <2>3 DEF SaveFails
<1> QED BY <1>5, <1>6, <1>7 DEF SaveNext

LEMMA CleanupDirs ==
  ASSUME TypeInv, DirsInv, RemoveNext \/ ClearNext \/ ProbeNext
  PROVE  DirsInv'
<1>1. UNCHANGED <<file, dir, hist>>
  BY DEF RemoveNext, RemoveBackup, RemoveJournal0, RemoveJournal1, ClearNext, ClearMarker,
     ClearRefused, ClearToken, ProbeNext, Probe, Reconcile, TryDiscard, DiscardToken, card
<1>2. slot' = slot \/ \E s \in Slots : slot' = [slot EXCEPT ![s] = AbsentSlot]
  BY DEF RemoveNext, RemoveBackup, RemoveJournal0, RemoveJournal1, Removed, Slots,
     ClearNext, ClearMarker, ClearRefused, ClearToken, ProbeNext, Probe, Reconcile,
     TryDiscard, DiscardToken, usb
<1>3. \A v \in Valid' : v \in Valid /\ slot'[v] = slot[v]
  BY <1>2, SlotsEmptied, SameSlots DEF TypeInv, TypeOK, UsbOK
<1>4. DirsCore'
  BY <1>1, <1>3, CoreStays, DirsParts DEF SameOrEnded
<1>5. pc' \in FarPcs
  <2>1. CASE RemoveNext
    BY <2>1, ReturnsFar, DiscardFar
    DEF RemoveNext, RemoveBackup, RemoveJournal0, RemoveJournal1, Step, Loop, FarPcs, Pcs,
        SavePcs, RestorePcs, ArmPcs
  <2>2. CASE ClearNext
    BY <2>2, ClearFar
    DEF ClearNext, ClearMarker, ClearRefused, ClearToken, Step, FarPcs, Pcs, SavePcs,
        RestorePcs, ArmPcs
  <2>3. CASE Probe
    BY <2>3, ReturnsFar DEF Probe, FarPcs, Pcs, SavePcs, RestorePcs, ArmPcs
  <2>4. CASE Reconcile
    BY <2>4, ReturnsFar DEF Reconcile
  <2>5. CASE TryDiscard
    <3>1. \A c : DiscardEmptyJournal(c) => pc' \in FarPcs
      BY ReturnsFar, DiscardFar DEF DiscardEmptyJournal
    <3> QED BY <2>5, <3>1, DiscardFar DEF TryDiscard
  <2>6. CASE DiscardToken
    BY <2>6, DiscardFar DEF DiscardToken
  <2> QED BY <2>1, <2>2, <2>3, <2>4, <2>5, <2>6 DEF ProbeNext
<1> QED BY <1>4, <1>5, FarPlace, DirsParts

LEMMA ArmDirs ==
  ASSUME TypeInv, DirsInv, ArmNext
  PROVE  DirsInv'
<1>0. slot \in [Slots -> Journal] /\ DirsCore
  BY DirsParts DEF TypeInv, TypeOK, UsbOK
<1>1. UNCHANGED <<slot, file, dir>>
  BY DEF ArmNext, Begin, ArmCheck, ArmTokenOpen, ArmTokenWrite, ArmMarkerOpen,
     ArmMarkerWrite, ArmUndo, ArmDropMarker, ArmDropToken, usb, card
<1>2. Valid' = Valid /\ (hist' = hist => DirsCore')
  BY <1>0, <1>1, SameSlots, CoreStays DEF SameOrEnded
<1>3. hist' = hist /\ pc' \in FarPcs => DirsInv'
  BY <1>2, FarPlace, DirsParts
<1>4. CASE Begin
  <2>1. hist' = hist
    BY <1>4 DEF Begin
  <2>2. PICK j \in Loads :
          \/ Loaded(j) /\ j.state = "absent" /\ StartSave(EmptyJournal, "arm")
          \/ pc' \in FarPcs
    BY <1>4, ReturnsFar DEF Begin, Loads
  <2>3. CASE Loaded(j) /\ j.state = "absent" /\ StartSave(EmptyJournal, "arm")
    <3>1. pc' = "save" /\ jr'.dirs = {}
      BY <2>3 DEF StartSave, EmptyJournal, AbsentSlot
    <3>2. Valid' = {}
      BY <1>0, <1>2, <2>3, LoadedSlot
    <3>3. DirsPlace'
      BY <3>1, <3>2 DEF DirsPlace, NotOurs, SavePcs, RestorePcs, ArmPcs
    <3> QED BY <1>2, <2>1, <3>3, DirsParts
  <2> QED BY <1>3, <2>1, <2>2, <2>3
<1>5. CASE ArmCheck \/ ArmTokenOpen \/ ArmTokenWrite \/ ArmMarkerOpen
  <2>1. hist' = hist /\ pc \in ArmPcs /\ pc' \in ArmPcs
    BY <1>5
    DEF ArmCheck, ArmTokenOpen, ArmTokenWrite, ArmMarkerOpen, ArmFails, Step, ArmPcs
  <2>2. DirsPlace'
    BY <1>1, <1>2, <2>1 DEF DirsInv, DirsPlace, SavePcs, RestorePcs, ArmPcs
  <2> QED BY <1>2, <2>1, <2>2, DirsParts
<1>6. CASE ArmMarkerWrite
  <2>1. /\ pc \in ArmPcs /\ hist' \in {Armed, hist} /\ pc' \in {"dirs", "undo"}
    BY <1>6 DEF ArmMarkerWrite, ArmFails, Loop, ArmPcs
  <2>2. \A v \in Valid : slot[v].dirs = {}
    BY <2>1 DEF DirsInv
  <2>3. DirsCore'
    <3>1. CASE hist' = Armed
      BY <1>0, <1>1, <1>2, <2>2, <3>1 DEF DirsCore, DirectoriesKept, NotOurs, Armed
    <3> QED BY <1>2, <2>1, <3>1
  <2>4. DirsPlace'
    BY <1>1, <1>2, <2>1, <2>2 DEF DirsPlace, SavePcs, RestorePcs, ArmPcs
  <2> QED BY <2>3, <2>4, DirsParts
<1>7. CASE ArmUndo
  <2>1. hist' = hist /\ k # "arm"
    BY <1>7 DEF ArmUndo, TypeInv, IndexOK
  <2>2. PICK j \in Loads :
          /\ Loaded(j)
          /\ \/ JournalValid(j) /\ StartSave([j EXCEPT !.state = "ROLLING_BACK"], k)
             \/ pc' \in FarPcs
    BY <1>7, ReturnsFar
    DEF ArmUndo, Step, FarPcs, Pcs, SavePcs, RestorePcs, ArmPcs
  <2>3. j \in Journal
    BY <2>2, LoadsType DEF TypeInv, TypeOK
  <2> DEFINE x == [j EXCEPT !.state = "ROLLING_BACK"]
  <2>4. x \in Journal /\ x.dirs = j.dirs
    BY <2>3 DEF Journal, JournalStates
  <2> HIDE DEF x
  <2>5. CASE JournalValid(j) /\ StartSave(x, k)
    <3>1. NotOurs(x)
      BY <1>0, <2>2, <2>4, <2>5, LoadedSlot DEF DirsCore, NotOurs
    <3>2. DirsPlace'
      BY <2>1, <2>4, <2>5, <3>1, SavesNotOurs
    <3> QED BY <1>2, <2>1, <3>2, DirsParts
  <2> QED BY <1>3, <2>1, <2>2, <2>5 DEF x
<1>8. CASE ArmDropMarker \/ ArmDropToken
  <2>1. hist' = hist /\ pc' \in FarPcs
    BY <1>8, ReturnsFar
    DEF ArmDropMarker, ArmDropToken, Loop, FarPcs, Pcs, SavePcs, RestorePcs, ArmPcs
  <2> QED BY <1>3, <2>1
<1> QED BY <1>4, <1>5, <1>6, <1>7, <1>8 DEF ArmNext

(* A destination is written only where its directory is. *)
LEMMA DirsFileWritten ==
  ASSUME TypeInv, DirsInv, NEW x, PutFile(x), i \in Files,
         x # "absent" => DirOf[i] \in dir[inserted], UNCHANGED <<slot, dir, hist>>
  PROVE  DirsCore'
<1>1. Valid' = Valid /\ DirsCore
  BY SameSlots, DirsParts
<1>2. \A c \in Cards, f \in Files :
        file'[c][f] = file[c][f] \/ (c = inserted /\ f = i /\ file'[c][f] = x)
  BY DEF PutFile, TypeInv, TypeOK, CardsOK
<1> QED BY <1>1, <1>2 DEF DirsCore, DirectoriesKept, NotOurs

LEMMA InstallDirs ==
  ASSUME TypeInv, CardInv, DirsInv, InstallNext
  PROVE  DirsInv'
<1>0. slot \in [Slots -> Journal] /\ dir \in [Cards -> SUBSET Dirs] /\ inserted \in Cards
      /\ DirsCore
  BY DirsParts DEF TypeInv, TypeOK, UsbOK, CardsOK
<1>1. CASE MakeDirectory
  <2>1. /\ UNCHANGED <<slot, file, hist>> /\ inserted = hist.card /\ i \in Dirs
        /\ dir' = dir \/ dir' = [dir EXCEPT ![inserted] = @ \cup {i}]
    BY <1>1 DEF MakeDirectory, MakeDir, usb, CardInv, OnCard, OnCardPc, TypeInv, TypeOK,
       CtlOK, IndexOK, UpPcs, Dirs
  <2>2. \A c \in Cards : dir[c] \subseteq dir'[c]
    BY <1>0, <2>1
  <2>3. DirsCore'
    <3>1. hist.card \in Cards
      BY DEF TypeInv, TypeOK, HistoryOK, History
    <3> QED BY <1>0, <2>1, <2>2, <3>1, SameSlots DEF DirsCore, DirectoriesKept, NotOurs
  <2>4. PICK j \in Loads :
          \/ /\ Loaded(j) /\ j.state = "ACTIVE"
             /\ StartSave(Recorded(j, i, i \notin dir[inserted]), "nextDir")
          \/ pc' \in FarPcs
    BY <1>1, ReturnsFar DEF MakeDirectory, Loads
  <2>5. CASE /\ Loaded(j) /\ j.state = "ACTIVE"
             /\ StartSave(Recorded(j, i, i \notin dir[inserted]), "nextDir")
    <3>1. j \in Journal /\ JournalValid(j)
      BY <2>5, LoadsType DEF TypeInv, TypeOK, JournalValid, JournalStates
    <3>2. NotOurs(j)
      BY <1>0, <2>5, <3>1, LoadedSlot DEF DirsCore
    <3> DEFINE x == Recorded(j, i, i \notin dir[inserted])
    <3>3. (i \notin dir[inserted]) \in BOOLEAN
      OBVIOUS
    <3>4. x \in Journal
      BY <2>1, <3>1, <3>3, Changed
    <3>5. x.dirs = IF i \notin dir[inserted] THEN j.dirs \cup {i} ELSE j.dirs \ {i}
      BY <3>1 DEF Recorded, Journal
    <3>6. hist.open => hist.dir \subseteq dir[inserted]
      BY <1>0, <2>1 DEF DirsCore, DirectoriesKept
    <3>7. NotOurs(x)
      BY <3>2, <3>5, <3>6 DEF NotOurs
    <3> HIDE DEF x
    <3>8. StartSave(x, "nextDir")
      BY <2>5 DEF x
    <3> QED BY <2>1, <2>3, <3>4, <3>7, <3>8, SavesNotOurs, DirsParts
  <2> QED BY <2>3, <2>4, <2>5, FarPlace, DirsParts
<1>2. CASE Capture
  <2>1. UNCHANGED <<slot, file, dir, hist>> /\ i \in Files
    BY <1>2 DEF Capture, card, TypeInv, TypeOK, CtlOK, IndexOK, UpPcs, Files
  <2>2. DirsCore'
    BY <1>0, <2>1, SameSlots, CoreStays DEF SameOrEnded
  <2>3. PICK j \in Loads :
          \/ /\ Loaded(j) /\ j.state = "ACTIVE"
             /\ StartSave([j EXCEPT !.entry[i] = file[inserted][i]], "source")
          \/ pc' \in FarPcs
    BY <1>2, ReturnsFar DEF Capture, Loads
  <2>4. CASE /\ Loaded(j) /\ j.state = "ACTIVE"
             /\ StartSave([j EXCEPT !.entry[i] = file[inserted][i]], "source")
    <3>1. j \in Journal /\ JournalValid(j)
      BY <2>4, LoadsType DEF TypeInv, TypeOK, JournalValid, JournalStates
    <3> DEFINE x == [j EXCEPT !.entry[i] = file[inserted][i]]
    <3>2. file[inserted][i] \in Entry
      BY <1>0, <2>1 DEF TypeInv, TypeOK, CardsOK, Entry
    <3>3. x \in Journal /\ x.dirs = j.dirs
      BY <2>1, <3>1, <3>2 DEF Journal
    <3> HIDE DEF x
    <3>4. NotOurs(x)
      BY <1>0, <2>4, <3>1, <3>3, LoadedSlot DEF DirsCore, NotOurs
    <3>5. StartSave(x, "source")
      BY <2>4 DEF x
    <3> QED BY <2>1, <2>2, <3>3, <3>4, <3>5, SavesNotOurs, DirsParts
  <2> QED BY <2>2, <2>3, <2>4, FarPlace, DirsParts
<1>3. CASE Finish
  <2>1. UNCHANGED <<slot, file, dir, hist>>
    BY <1>3 DEF Finish, usb, card
  <2>2. DirsCore'
    BY <1>0, <2>1, SameSlots, CoreStays DEF SameOrEnded
  <2>3. PICK j \in Loads :
          \/ /\ Loaded(j) /\ JournalValid(j)
             /\ StartSave([j EXCEPT !.state = "COMMITTED"], "finish")
          \/ pc' \in FarPcs
    BY <1>3, ReturnsFar DEF Finish, Loads
  <2>4. CASE /\ Loaded(j) /\ JournalValid(j)
             /\ StartSave([j EXCEPT !.state = "COMMITTED"], "finish")
    <3>1. j \in Journal
      BY <2>4, LoadsType DEF TypeInv, TypeOK
    <3> DEFINE x == [j EXCEPT !.state = "COMMITTED"]
    <3>2. x \in Journal /\ x.dirs = j.dirs
      BY <3>1 DEF Journal, JournalStates
    <3> HIDE DEF x
    <3>3. NotOurs(x)
      BY <1>0, <2>4, <3>2, LoadedSlot DEF DirsCore, NotOurs
    <3>4. StartSave(x, "finish")
      BY <2>4 DEF x
    <3> QED BY <2>1, <2>2, <3>2, <3>3, <3>4, SavesNotOurs, DirsParts
  <2> QED BY <2>2, <2>3, <2>4, FarPlace, DirsParts
<1>4. CASE Wipe \/ WriteOpen \/ WriteData
  <2>1. UNCHANGED <<slot, dir, hist, inserted>> /\ i \in Files
    BY <1>4 DEF Wipe, WriteOpen, WriteData, usb, TypeInv, IndexOK, FilePcs
  <2>2. /\ \/ file' = file
           \/ \E x : PutFile(x) /\ (x # "absent" => DirOf[i] \in dir[inserted])
        /\ \/ pc' \in FarPcs
           \/ pc' = "writeData" /\ i' = i /\ DirOf[i] \in dir[inserted]
    BY <1>4, ReturnsFar
    DEF Wipe, WriteOpen, WriteData, Step, DirsInv, FarPcs, Pcs, SavePcs, RestorePcs, ArmPcs
  <2>3. DirsCore'
    BY <1>0, <2>1, <2>2, SameSlots, CoreStays, DirsFileWritten DEF SameOrEnded
  <2>4. DirsPlace'
    BY <2>1, <2>2, FarPlace DEF DirsPlace, SavePcs, RestorePcs, ArmPcs
  <2> QED BY <2>3, <2>4, DirsParts
<1>5. CASE Inventory \/ DirectoriesDone \/ SkipFile \/ FilesDone \/ Source \/ Verify
  <2>1. UNCHANGED <<slot, file, dir, hist>> /\ pc' \in FarPcs
    BY <1>5, ReturnsFar
    DEF Inventory, NoSpace, DirectoriesDone, SkipFile, FilesDone, Source, Verify, Loop,
        usb, card, FarPcs, Pcs, SavePcs, RestorePcs, ArmPcs
  <2> QED BY <1>0, <2>1, SameSlots, CoreStays, FarPlace, DirsParts DEF SameOrEnded
<1> QED BY <1>1, <1>2, <1>3, <1>4, <1>5 DEF InstallNext

LEMMA RunDirs ==
  ASSUME TypeInv, CardInv, DirsInv, RunNext
  PROVE  DirsInv'
<1>0. slot \in [Slots -> Journal] /\ dir \in [Cards -> SUBSET Dirs] /\ inserted \in Cards
      /\ jr \in Journal /\ hist \in History /\ DirsCore /\ UNCHANGED <<slot, inserted>>
  BY DirsParts
  DEF TypeInv, TypeOK, UsbOK, CardsOK, CtlOK, HistoryOK, RunNext, Run, RunCheck, Restore,
      RestoreWrite, RestoreVerify, RestoreDone, RemoveDirectory, RollbackDone, usb
<1>1. CASE RunCheck
  <2>1. UNCHANGED <<file, dir, hist>>
    BY <1>1 DEF RunCheck, card
  <2>2. DirsCore'
    BY <1>0, <2>1, SameSlots, CoreStays DEF SameOrEnded
  <2>3. PICK j \in Loads :
          \/ /\ Loaded(j) /\ j.state \in {"ACTIVE", "ROLLING_BACK"}
             /\ StartSave([j EXCEPT !.state = "ROLLING_BACK"], "restore")
          \/ pc' \in FarPcs
    BY <1>1, ReturnsFar DEF RunCheck, Loads
  <2>4. CASE /\ Loaded(j) /\ j.state \in {"ACTIVE", "ROLLING_BACK"}
             /\ StartSave([j EXCEPT !.state = "ROLLING_BACK"], "restore")
    <3>1. j \in Journal /\ JournalValid(j)
      BY <2>4, LoadsType DEF TypeInv, TypeOK, JournalValid, JournalStates
    <3> DEFINE x == [j EXCEPT !.state = "ROLLING_BACK"]
    <3>2. x \in Journal /\ x.dirs = j.dirs
      BY <3>1 DEF Journal, JournalStates
    <3> HIDE DEF x
    <3>3. NotOurs(x)
      BY <1>0, <2>4, <3>1, <3>2, LoadedSlot DEF DirsCore, NotOurs
    <3>4. StartSave(x, "restore")
      BY <2>4 DEF x
    <3> QED BY <2>1, <2>2, <3>2, <3>3, <3>4, SavesNotOurs, DirsParts
  <2> QED BY <2>2, <2>3, <2>4, FarPlace, DirsParts
<1>2. CASE Restore \/ RestoreWrite \/ RestoreVerify
  <2>1. UNCHANGED <<dir, hist, jr>> /\ pc \in RestorePcs /\ pc' \in RestorePcs /\ i \in Files
    BY <1>2
    DEF Restore, RestoreWrite, RestoreVerify, RestoreNext, Step, usb, RestorePcs, TypeInv,
        IndexOK, FilePcs, Files
  <2>2. /\ \/ file' = file
           \/ \E x : PutFile(x) /\ (x # "absent" => DirOf[i] \in dir[inserted])
        /\ pc' = "restoreVerify" => i' = i /\ DirOf[i] \in dir[inserted]
    BY <1>2 DEF Restore, RestoreWrite, RestoreVerify, RestoreNext, Step, DirsInv
  <2>3. DirsCore'
    BY <1>0, <2>1, <2>2, SameSlots, CoreStays, DirsFileWritten DEF SameOrEnded
  <2>4. DirsPlace'
    BY <1>0, <2>1, <2>2 DEF DirsInv, DirsPlace, NotOurs, SavePcs, RestorePcs, ArmPcs
  <2> QED BY <2>3, <2>4, DirsParts
<1>3. CASE RemoveDirectory
  <2>1. /\ UNCHANGED <<file, hist>> /\ pc = "rmDirs" /\ inserted = hist.card
        /\ pc' \in FarPcs \/ (pc' = "rmDirs" /\ jr' = jr)
    BY <1>3, ReturnsFar DEF RemoveDirectory, Loop, CardInv, OnCard, OnCardPc
  <2>2. NotOurs(jr)
    BY <2>1 DEF DirsInv
  <2>3. DirsCore'
    <3>1. CASE UNCHANGED dir
      BY <1>0, <2>1, <3>1, SameSlots, CoreStays DEF SameOrEnded
    <3>2. CASE i \in jr.dirs /\ DirEmpty(inserted, i) /\ dir' = [dir EXCEPT ![inserted] = @ \ {i}]
      <4>1. \A c \in Cards : dir'[c] = IF c = inserted THEN dir[c] \ {i} ELSE dir[c]
        BY <1>0, <3>2
      <4>2. hist.open => hist.dir \subseteq dir'[hist.card]
        BY <1>0, <2>1, <2>2, <3>2, <4>1 DEF DirsCore, DirectoriesKept, NotOurs
      <4>3. \A c \in Cards, f \in Files : file[c][f] # "absent" => DirOf[f] \in dir'[c]
        BY <1>0, <3>2, <4>1 DEF DirsCore, DirectoriesKept, DirEmpty
      <4> QED BY <1>0, <2>1, <4>2, <4>3, SameSlots DEF DirsCore, DirectoriesKept, NotOurs
    <3> QED BY <1>3, <3>1, <3>2 DEF RemoveDirectory
  <2>4. DirsPlace'
    BY <2>1, <2>2, FarPlace DEF DirsPlace, NotOurs, SavePcs, RestorePcs, ArmPcs
  <2> QED BY <2>3, <2>4, DirsParts
<1>4. CASE Run \/ RestoreDone \/ RollbackDone
  <2>1. /\ UNCHANGED <<file, dir>> /\ SameOrEnded
        /\ \/ pc' \in FarPcs
           \/ pc \in RestorePcs /\ pc' = "rmDirs" /\ jr' = jr
    BY <1>0, <1>4, ReturnsFar
    DEF Run, RestoreDone, RollbackDone, Step, Loop, usb, card, SameOrEnded, History, FarPcs,
        Pcs, SavePcs, RestorePcs, ArmPcs
  <2>2. DirsCore'
    BY <1>0, <2>1, SameSlots, CoreStays
  <2>3. DirsPlace'
    BY <2>1, FarPlace
    DEF DirsInv, DirsPlace, NotOurs, SameOrEnded, SavePcs, RestorePcs, ArmPcs
  <2> QED BY <2>2, <2>3, DirsParts
<1> QED BY <1>1, <1>2, <1>3, <1>4 DEF RunNext

LEMMA DirsStep ==
  ASSUME SwapPoints \subseteq {"idle"}, TypeInv, CardInv, DirsInv, [Next]_vars
  PROVE  DirsInv'
<1>1. CASE UiInstall \/ UiRecover \/ UiRefresh \/ PowerCut \/ Boot \/ SwapCard
  <2>1. UNCHANGED <<slot, file, dir, hist>> /\ pc' \in FarPcs
    BY <1>1
    DEF UiInstall, UiRecover, UiRefresh, Starts, PowerCut, Boot, Step, SwapCard, usb, card,
        ctl, FarPcs, Pcs, SavePcs, RestorePcs, ArmPcs
  <2> QED BY <2>1, SameSlots, CoreStays, FarPlace, DirsParts DEF SameOrEnded
<1>2. CASE UNCHANGED vars
  BY <1>2 DEF vars, usb, card, ctl, DirsInv, DirectoriesKept, NotOurs, Valid
<1> QED
  BY <1>1, <1>2, SaveDirs, CleanupDirs, ArmDirs, InstallDirs, RunDirs DEF Next, Program

(* A directory that was there before the transaction is never removed, and  *)
(* no destination stands in a directory that is gone, for every plan, set   *)
(* of cards and kind and number of faults, unreadable journal slots         *)
(* included: a directory is journaled as created only if it was missing     *)
(* (FmcbRecoveryRecordSystemDirectory()), journals of one transaction carry *)
(* no other, and FmcbRecoveryRun() removes only those, and only empty.      *)
THEOREM DirectoriesAlwaysKept ==
  ASSUME SwapPoints \subseteq {"idle"}
  PROVE  Spec => []DirectoriesKept
<1>1. Init => DirsInv
  <2> SUFFICES ASSUME Init PROVE DirsInv
    OBVIOUS
  <2>1. Valid = {}
    BY DEF Init, Valid, JournalValid, AbsentSlot, JournalStates
  <2> QED BY <2>1 DEF Init, DirsInv, DirectoriesKept, SavePcs, RestorePcs, ArmPcs
<1>2. TypeInv /\ CardInv /\ DirsInv /\ [Next]_vars => DirsInv'
  BY DirsStep
<1>3. DirsInv => DirectoriesKept
  BY DEF DirsInv
<1>4. TypeInv /\ CardInv /\ [Next]_vars => CardInv'
  BY CardStep
<1> QED BY <1>1, <1>2, <1>3, <1>4, TypeInvariance, CardInit, PTL DEF Spec

-----------------------------------------------------------------------------
(***************************************************************************)
(* An installation is all or nothing, for every plan and every number of   *)
(* power cuts, failing writes and silent losses that verification finds:   *)
(* a step that changes what a card logically holds installs everything at  *)
(* once, or it is a cleanup that uncovers a journal it should have         *)
(* removed before.                                                         *)
(*                                                                         *)
(* The argument does not mention the history of a transaction, because it  *)
(* has to go on after a cleanup was cut off.  The newest journal says all  *)
(* that the others say (NowGrown); a save adds one entry, the destination  *)
(* as it is (SavesSame), to a journal that is not committed (Standing);    *)
(* what is written while a journal stands has its entry; and journals,     *)
(* token and marker are removed only when the card holds what they say     *)
(* (Settled), when they say nothing, or when they are committed (Cleaning). *)
(***************************************************************************)

Carries(c) == token >= Foreign /\ marker[c] = token
Agrees(s, c) ==
  \A f \in Files : slot[s].entry[f] # "none" => file[c][f] = slot[s].entry[f]
Settled == \A c \in Cards : Carries(c) => \A s \in Valid : Agrees(s, c)

StandPcs == FileSteps \cup RestorePcs \cup SavePcs \cup {"dirs", "files", "finish", "rmDirs"}

NowGrown == \A s \in Valid : Grows(slot[s], Latest)
SavesSame ==
  pc \in SavePcs /\ k # "arm" =>
    jr.entry = IF k = "source" THEN [Latest.entry EXCEPT ![i] = file[inserted][i]]
                               ELSE Latest.entry
Standing ==
  pc \in StandPcs /\ ~Saves("arm") => Latest.state # "COMMITTED"

HeldInv == NowGrown /\ SavesSame /\ Standing

-----------------------------------------------------------------------------
LEMMA GrownKept ==
  ASSUME NowGrown, UNCHANGED slot
  PROVE  NowGrown'
<1>1. Latest' = Latest /\ Valid' = Valid
  BY DEF Latest, Valid
<1> QED BY <1>1 DEF NowGrown, Grows

LEMMA OnePieceLeft ==
  ASSUME slot \in [Slots -> Journal], NowGrown, NEW s \in Slots,
         slot' = [slot EXCEPT ![s] = AbsentSlot]
  PROVE  NowGrown'
<1>1. ~JournalValid(AbsentSlot) /\ ~JournalValid(TornSlot)
  BY DEF JournalValid, AbsentSlot, TornSlot, JournalStates
<1>2. slot'[s] = AbsentSlot
  OBVIOUS
<1>3. \A v \in Valid' : slot'[v] = Latest'
  BY <1>1, <1>2 DEF Valid, Latest, LatestOf, Slots
<1> QED BY <1>3 DEF NowGrown, Grows

LEMMA SaveGrows ==
  ASSUME RecoverInv, HeldInv, TypeInv, JournalInv, pc \in SavePcs, k # "arm"
  PROVE  Grows(Latest, jr)
<1>1. CASE k # "source"
  BY <1>1 DEF HeldInv, SavesSame, Grows
<1>2. CASE k = "source"
  <2>1. i \in Files /\ Uncaptured(i)
    BY <1>2 DEF TypeInv, IndexOK, RecoverInv, Saving
  <2>2. JournalValid(Latest) => Latest.entry[i] = "none"
    BY <2>1, LatestSlot DEF Uncaptured, BlankFrom, Files
  <2>3. ~JournalValid(Latest) => Latest.entry = NoEntries
    BY DEF Latest, LatestOf, JournalValid, AbsentSlot, TornSlot
  <2>4. Latest.entry[i] = "none"
    BY <2>1, <2>2, <2>3 DEF NoEntries
  <2>5. Latest \in Journal
    BY LatestOfType DEF TypeInv, TypeOK, UsbOK, Latest
  <2>6. \A f \in Files : f # i => jr.entry[f] = Latest.entry[f]
    BY <1>2, <2>5 DEF HeldInv, SavesSame, Journal
  <2> QED BY <2>4, <2>6 DEF Grows
<1> QED BY <1>1, <1>2

LEMMA GrownSave ==
  ASSUME TypeInv, JournalInv, RecoverInv, HeldInv, SaveNext
  PROVE  NowGrown'
<1>1. CASE SaveOpen
  <2>1. /\ Valid' \subseteq Valid /\ \A v \in Valid' : slot'[v] = slot[v]
        /\ k = "arm" => Valid = {}
        /\ k # "arm" => Latest' = Latest
    BY <1>1, SlotOpened
  <2> QED BY <2>1 DEF HeldInv, NowGrown, Grows
<1>2. CASE SaveWrite \/ SaveFails
  <2>1. pc \in SavePcs /\ (slot' = slot \/ SavedJournal)
    BY <1>2 DEF SaveWrite, SaveFails, SavePcs
  <2>2. CASE SavedJournal
    <3>1. /\ Latest' = jr
          /\ \A v \in Valid' : slot'[v] = jr \/ (v \in Valid /\ slot'[v] = slot[v])
      BY <2>1, <2>2, SlotSaved
    <3>2. ASSUME NEW v \in Valid, k # "arm" PROVE Grows(slot[v], jr)
      <4>1. Grows(slot[v], Latest) /\ Grows(Latest, jr)
        BY <2>1, <3>2, SaveGrows DEF HeldInv, NowGrown
      <4> QED BY <4>1 DEF Grows
    <3>3. k = "arm" => Valid = {}
      BY <2>1 DEF RecoverInv, Saving
    <3>4. Grows(jr, jr)
      BY DEF Grows
    <3>5. \A v \in Valid' : Grows(slot'[v], jr)
      BY <3>1, <3>2, <3>3, <3>4
    <3> QED BY <3>1, <3>5 DEF NowGrown, Grows
  <2> QED BY <2>1, <2>2, GrownKept DEF HeldInv
<1> QED BY <1>1, <1>2 DEF SaveNext

LEMMA GrownStep ==
  ASSUME TypeInv, JournalInv, RecoverInv, HeldInv, [Next]_vars
  PROVE  NowGrown'
<1>1. CASE SaveNext
  BY <1>1, GrownSave
<1>2. CASE RemoveNext
  <2>1. slot' = slot \/ \E s \in Slots : slot' = [slot EXCEPT ![s] = AbsentSlot]
    BY <1>2 DEF RemoveNext, RemoveBackup, RemoveJournal0, RemoveJournal1, Removed, Slots
  <2>2. slot \in [Slots -> Journal]
    BY DEF TypeInv, TypeOK, UsbOK
  <2> QED BY <2>1, <2>2, GrownKept, OnePieceLeft DEF HeldInv
<1>3. CASE UNCHANGED slot
  BY <1>3, GrownKept DEF HeldInv
<1>4. CASE ClearNext \/ ProbeNext
  BY <1>3, <1>4 DEF ClearNext, ProbeNext, ClearMarker, ClearRefused, ClearToken, Probe,
     Reconcile, TryDiscard, DiscardToken, usb
<1>5. CASE ArmNext
  BY <1>3, <1>5 DEF ArmNext, Begin, ArmCheck, ArmTokenOpen, ArmTokenWrite, ArmMarkerOpen,
     ArmMarkerWrite, ArmUndo, ArmDropMarker, ArmDropToken, usb
<1>6. CASE InstallNext
  BY <1>3, <1>6 DEF InstallNext, Inventory, NoSpace, MakeDirectory, DirectoriesDone, SkipFile,
     Capture, FilesDone, Source, Wipe, WriteOpen, WriteData, Verify, Finish, usb
<1>7. CASE RunNext
  BY <1>3, <1>7 DEF RunNext, Run, RunCheck, Restore, RestoreWrite, RestoreVerify,
     RestoreDone, RemoveDirectory, RollbackDone, usb
<1>8. CASE UiInstall \/ UiRecover \/ UiRefresh \/ PowerCut \/ Boot \/ SwapCard \/ UNCHANGED vars
  BY <1>3, <1>8 DEF UiInstall, UiRecover, UiRefresh, Starts, PowerCut, Boot, SwapCard, usb, vars
<1> QED BY <1>1, <1>2, <1>4, <1>5, <1>6, <1>7, <1>8 DEF Next, Program

-----------------------------------------------------------------------------
(* Journals that are saved, and standing ones. *)

LEMMA NotStanding ==
  ASSUME pc' \notin StandPcs
  PROVE  SavesSame' /\ Standing'
BY DEF StandPcs, SavesSame, Standing

LEMMA ReturnsNotStanding ==
  /\ \A s : ProbeReturns(s) => pc' \notin StandPcs
  /\ \A s : InstallReturns(s) => pc' \notin StandPcs
  /\ \A r, s : RunReturns(r, s) => pc' \notin StandPcs
  /\ StartRollback => pc' \notin StandPcs
  /\ \A j, c : StartRemove(j, c) => pc' \notin StandPcs
  /\ \A c : StartClear(c) => pc' \notin StandPcs
  /\ \A c, s : StartDiscard(c, s) => pc' \notin StandPcs
  /\ \A c : ArmFails(c) => pc' \notin StandPcs
BY DEF ProbeReturns, InstallReturns, RunReturns, StartRollback, StartRemove, StartClear,
   StartDiscard, ArmFails, StandPcs, FileSteps, RestorePcs, SavePcs

LEMMA DiscardNotStanding ==
  ASSUME NEW r, NEW s, DiscardReturns(r, s)
  PROVE  pc' \notin StandPcs
BY ReturnsNotStanding DEF DiscardReturns, StandPcs, FileSteps, RestorePcs, SavePcs

LEMMA ClearNotStanding ==
  ASSUME NEW r, ClearReturns(r)
  PROVE  pc' \notin StandPcs
BY ReturnsNotStanding, DiscardNotStanding
DEF ClearReturns, StandPcs, FileSteps, RestorePcs, SavePcs

LEMMA StillStanding ==
  ASSUME HeldInv, UNCHANGED slot, pc \in StandPcs \ SavePcs, pc' \notin SavePcs
  PROVE  SavesSame' /\ Standing'
<1>1. Latest' = Latest
  BY DEF Latest
<1>2. Latest.state # "COMMITTED"
  BY DEF HeldInv, Standing, Saves
<1> QED BY <1>1, <1>2 DEF SavesSame, Standing

LEMMA NotCommitted ==
  ASSUME \A s \in Valid : slot[s].state # "COMMITTED"
  PROVE  Latest.state # "COMMITTED"
BY LatestSlot DEF JournalValid, JournalStates

LEMMA SameStarts ==
  ASSUME UNCHANGED <<slot, file, inserted>>, NEW x \in Journal, NEW c, StartSave(x, c),
         c # "arm" => /\ Latest.state # "COMMITTED"
                      /\ x.entry = IF c = "source"
                                     THEN [Latest.entry EXCEPT ![i] = file[inserted][i]]
                                     ELSE Latest.entry
  PROVE  SavesSame' /\ Standing'
<1>1. Latest' = Latest
  BY DEF Latest
<1>2. k' = c /\ i' = i /\ jr'.entry = x.entry /\ pc' = "save"
  BY DEF StartSave, Journal
<1> QED BY <1>1, <1>2 DEF SavesSame, Standing, Saves, SavePcs

LEMMA SaveHeld ==
  ASSUME TypeInv, JournalInv, RecoverInv, HeldInv, SaveNext
  PROVE  SavesSame' /\ Standing'
<1>1. CASE SaveOpen
  <2>1. pc \in SavePcs /\ pc' = "saveWrite" /\ UNCHANGED <<k, jr, i, file, inserted>>
    BY <1>1 DEF SaveOpen, Step, SavePcs, card
  <2>2. k # "arm" => Latest' = Latest
    BY <1>1, SlotOpened
  <2> QED BY <2>1, <2>2 DEF HeldInv, SavesSame, Standing, Saves, SavePcs, StandPcs
<1>2. CASE SaveFails
  <2>1. pc' \notin StandPcs
    BY <1>2, ReturnsNotStanding DEF SaveFails, Step, StandPcs, FileSteps, RestorePcs, SavePcs
  <2> QED BY <2>1, NotStanding
<1>3. CASE SaveWrite
  <2>1. Latest' = jr
    BY <1>3, SlotSaved DEF SaveWrite, SavePcs
  <2>2. CASE pc' \notin StandPcs
    BY <2>2, NotStanding
  <2>3. CASE pc' \in {"dirs", "source", "restore"} /\ k \in {"nextDir", "source", "restore"}
    <3>1. jr.state # "COMMITTED"
      BY <1>3, <2>3 DEF SaveWrite, RecoverInv, Saving, SavePcs
    <3> QED BY <2>1, <2>3, <3>1 DEF SavesSame, Standing, SavePcs
  <2>4. \/ pc' \notin StandPcs
        \/ pc' \in {"dirs", "source", "restore"} /\ k \in {"nextDir", "source", "restore"}
    <3>1. CASE k = "arm"
      BY <1>3, <3>1 DEF SaveWrite, StandPcs, FileSteps, RestorePcs, SavePcs
    <3>2. CASE k \in {"undoKeep", "undoDrop", "finish"}
      BY <1>3, <3>2, ReturnsNotStanding DEF SaveWrite
    <3>3. CASE k \in {"nextDir", "source", "restore"}
      BY <1>3, <3>3 DEF SaveWrite
    <3> QED BY <1>3, <3>1, <3>2, <3>3 DEF SaveWrite
  <2> QED BY <2>2, <2>3, <2>4
<1> QED BY <1>1, <1>2, <1>3 DEF SaveNext

LEMMA ArmHeld ==
  ASSUME "read" \notin FaultKinds, TypeInv, RecoverInv, HeldInv, ArmNext
  PROVE  SavesSame' /\ Standing'
<1>1. UNCHANGED slot
  BY DEF ArmNext, Begin, ArmCheck, ArmTokenOpen, ArmTokenWrite, ArmMarkerOpen, ArmMarkerWrite,
     ArmUndo, ArmDropMarker, ArmDropToken, usb
<1>2. CASE pc' \notin StandPcs
  BY <1>2, NotStanding
<1>3. CASE Begin
  <2>1. pc' \notin StandPcs \/ StartSave(EmptyJournal, "arm")
    BY <1>3, ReturnsNotStanding DEF Begin
  <2>2. UNCHANGED <<file, inserted>>
    BY <1>3 DEF Begin, card
  <2> QED BY <1>1, <1>2, <2>1, <2>2, SameStarts, JournalConstants
<1>4. CASE ArmCheck \/ ArmTokenOpen \/ ArmTokenWrite \/ ArmMarkerOpen \/ ArmDropMarker
             \/ ArmDropToken
  BY <1>2, <1>4, ReturnsNotStanding
  DEF ArmCheck, ArmTokenOpen, ArmTokenWrite, ArmMarkerOpen, ArmDropMarker, ArmDropToken, Step,
      Loop, StandPcs, FileSteps, RestorePcs, SavePcs
<1>5. CASE ArmMarkerWrite
  <2>1. pc' \notin SavePcs
    BY <1>5, ReturnsNotStanding DEF ArmMarkerWrite, Loop, SavePcs, StandPcs
  <2>2. Latest' = Latest /\ Latest.state # "COMMITTED"
    BY <1>1, <1>5, NotCommitted DEF ArmMarkerWrite, RecoverInv, Arming, ArmPcs, Latest
  <2> QED BY <2>1, <2>2 DEF SavesSame, Standing
<1>6. CASE ArmUndo
  <2>1. Latest.state # "COMMITTED" /\ UNCHANGED <<file, inserted>>
        /\ k \in {"undoKeep", "undoDrop"}
    BY <1>6, NotCommitted
    DEF ArmUndo, RecoverInv, Arming, ArmPcs, card, TypeInv, IndexOK
  <2>2. PICK j \in Loads :
          /\ Loaded(j)
          /\ \/ StartSave([j EXCEPT !.state = "ROLLING_BACK"], k)
             \/ pc' \notin StandPcs
    BY <1>6, ReturnsNotStanding
    DEF ArmUndo, Step, StandPcs, FileSteps, RestorePcs, SavePcs
  <2>3. j = Latest /\ j \in Journal
    BY <2>2, NewestLoaded, LoadsType DEF TypeInv, TypeOK
  <2> DEFINE x == [j EXCEPT !.state = "ROLLING_BACK"]
  <2>4. x \in Journal /\ x.entry = j.entry
    BY <2>3 DEF Journal, JournalStates
  <2> HIDE DEF x
  <2>5. StartSave(x, k) \/ pc' \notin StandPcs
    BY <2>2 DEF x
  <2> QED BY <1>1, <1>2, <2>1, <2>3, <2>4, <2>5, SameStarts
<1> QED BY <1>3, <1>4, <1>5, <1>6 DEF ArmNext

LEMMA InstallHeld ==
  ASSUME "read" \notin FaultKinds, TypeInv, RecoverInv, HeldInv, InstallNext
  PROVE  SavesSame' /\ Standing'
<1>1. UNCHANGED slot
  BY DEF InstallNext, Inventory, NoSpace, MakeDirectory, DirectoriesDone, SkipFile,
     Capture, FilesDone, Source, Wipe, WriteOpen, WriteData, Verify, Finish, usb
<1>2. CASE pc' \notin StandPcs
  BY <1>2, NotStanding
<1>3. CASE Inventory
  BY <1>2, <1>3, ReturnsNotStanding
  DEF Inventory, NoSpace, StandPcs, FileSteps, RestorePcs, SavePcs
<1>4. CASE DirectoriesDone \/ SkipFile \/ FilesDone \/ Source \/ Wipe \/ WriteOpen \/ WriteData
             \/ Verify
  <2>1. pc \in StandPcs \ SavePcs
    BY <1>4 DEF DirectoriesDone, SkipFile, FilesDone, Source, Wipe, WriteOpen, WriteData,
       Verify, StandPcs, FileSteps, RestorePcs, SavePcs
  <2>2. pc' \notin SavePcs
    BY <1>4 DEF DirectoriesDone, SkipFile, FilesDone, Source, Wipe, WriteOpen, WriteData,
       Verify, Step, Loop, StartRollback, SavePcs
  <2> QED BY <1>1, <2>1, <2>2, StillStanding
<1>5. CASE MakeDirectory
  <2>1. /\ pc = "dirs" /\ i \in Dirs /\ UNCHANGED <<file, inserted>>
        /\ Latest.state # "COMMITTED"
    BY <1>5 DEF MakeDirectory, TypeInv, TypeOK, CtlOK, IndexOK, UpPcs, Dirs, HeldInv, Standing,
       StandPcs, Saves, SavePcs
  <2>2. PICK j \in Loads :
          \/ Loaded(j) /\ StartSave(Recorded(j, i, i \notin dir[inserted]), "nextDir")
          \/ pc' \notin StandPcs
    BY <1>5, ReturnsNotStanding DEF MakeDirectory, Loads
  <2>3. CASE Loaded(j) /\ StartSave(Recorded(j, i, i \notin dir[inserted]), "nextDir")
    <3>1. j = Latest /\ j \in Journal
      BY <2>3, NewestLoaded, LoadsType DEF TypeInv, TypeOK
    <3> DEFINE x == Recorded(j, i, i \notin dir[inserted])
    <3>2. (i \notin dir[inserted]) \in BOOLEAN
      OBVIOUS
    <3>3. x \in Journal
      BY <2>1, <3>1, <3>2, Changed
    <3>4. x.entry = j.entry
      BY <3>1 DEF Recorded, Journal
    <3> HIDE DEF x
    <3>5. StartSave(x, "nextDir")
      BY <2>3 DEF x
    <3> QED BY <1>1, <2>1, <3>1, <3>3, <3>4, <3>5, SameStarts
  <2> QED BY <1>2, <2>2, <2>3
<1>6. CASE Capture
  <2>1. pc = "files" /\ i \in Files /\ UNCHANGED <<file, inserted>>
    BY <1>6 DEF Capture, TypeInv, TypeOK, CtlOK, IndexOK, UpPcs, Files, card
  <2>4. Latest.state # "COMMITTED"
    BY <2>1 DEF HeldInv, Standing, StandPcs, Saves, SavePcs
  <2>5. file[inserted][i] \in Entry
    BY <2>1 DEF TypeInv, TypeOK, CardsOK, Entry
  <2>2. PICK j \in Loads :
          \/ Loaded(j) /\ StartSave([j EXCEPT !.entry[i] = file[inserted][i]], "source")
          \/ pc' \notin StandPcs
    BY <1>6, ReturnsNotStanding DEF Capture, Loads
  <2>3. CASE Loaded(j) /\ StartSave([j EXCEPT !.entry[i] = file[inserted][i]], "source")
    <3>1. j = Latest /\ j \in Journal
      BY <2>3, NewestLoaded, LoadsType DEF TypeInv, TypeOK
    <3> DEFINE x == [j EXCEPT !.entry[i] = file[inserted][i]]
    <3>2. x \in Journal
      BY <2>1, <2>5, <3>1, Changed
    <3>3. x.entry = [j.entry EXCEPT ![i] = file[inserted][i]]
      BY <3>1 DEF Journal
    <3> HIDE DEF x
    <3>4. StartSave(x, "source")
      BY <2>3 DEF x
    <3> QED BY <1>1, <2>1, <2>4, <3>1, <3>2, <3>3, <3>4, SameStarts
  <2> QED BY <1>2, <2>2, <2>3
<1>7. CASE Finish
  <2>1. pc = "finish" /\ UNCHANGED <<file, inserted>> /\ Latest.state # "COMMITTED"
    BY <1>7 DEF Finish, HeldInv, Standing, StandPcs, Saves, SavePcs, card
  <2>2. PICK j \in Loads :
          \/ Loaded(j) /\ StartSave([j EXCEPT !.state = "COMMITTED"], "finish")
          \/ pc' \notin StandPcs
    BY <1>7, ReturnsNotStanding DEF Finish, Loads
  <2>3. CASE Loaded(j) /\ StartSave([j EXCEPT !.state = "COMMITTED"], "finish")
    <3>1. j = Latest /\ j \in Journal
      BY <2>3, NewestLoaded, LoadsType DEF TypeInv, TypeOK
    <3> DEFINE x == [j EXCEPT !.state = "COMMITTED"]
    <3>2. x \in Journal /\ x.entry = j.entry
      BY <3>1 DEF Journal, JournalStates
    <3> HIDE DEF x
    <3>3. StartSave(x, "finish")
      BY <2>3 DEF x
    <3> QED BY <1>1, <2>1, <3>1, <3>2, <3>3, SameStarts
  <2> QED BY <1>2, <2>2, <2>3
<1> QED BY <1>3, <1>4, <1>5, <1>6, <1>7 DEF InstallNext

LEMMA RunHeld ==
  ASSUME "read" \notin FaultKinds, TypeInv, RecoverInv, HeldInv, RunNext
  PROVE  SavesSame' /\ Standing'
<1>1. UNCHANGED slot
  BY DEF RunNext, Run, RunCheck, Restore, RestoreWrite, RestoreVerify, RestoreDone,
     RemoveDirectory, RollbackDone, usb
<1>2. CASE pc' \notin StandPcs
  BY <1>2, NotStanding
<1>3. CASE Run \/ RollbackDone
  BY <1>2, <1>3, ReturnsNotStanding
  DEF Run, RollbackDone, Step, StandPcs, FileSteps, RestorePcs, SavePcs
<1>4. CASE Restore \/ RestoreWrite \/ RestoreVerify \/ RestoreDone \/ RemoveDirectory
  <2>1. pc \in StandPcs \ SavePcs
    BY <1>4 DEF Restore, RestoreWrite, RestoreVerify, RestoreDone, RemoveDirectory, StandPcs,
       FileSteps, RestorePcs, SavePcs
  <2>2. pc' \notin SavePcs
    BY <1>4 DEF Restore, RestoreWrite, RestoreVerify, RestoreDone, RemoveDirectory, RestoreNext,
       Step, Loop, RunReturns, SavePcs
  <2> QED BY <1>1, <2>1, <2>2, StillStanding
<1>5. CASE RunCheck
  <2>1. UNCHANGED <<file, inserted>>
    BY <1>5 DEF RunCheck, card
  <2>2. PICK j \in Loads :
          \/ /\ Loaded(j) /\ j.state \in {"ACTIVE", "ROLLING_BACK"}
             /\ StartSave([j EXCEPT !.state = "ROLLING_BACK"], "restore")
          \/ pc' \notin StandPcs
    BY <1>5, ReturnsNotStanding DEF RunCheck, Loads
  <2>3. CASE /\ Loaded(j) /\ j.state \in {"ACTIVE", "ROLLING_BACK"}
             /\ StartSave([j EXCEPT !.state = "ROLLING_BACK"], "restore")
    <3>1. j = Latest /\ j \in Journal /\ Latest.state # "COMMITTED"
      BY <2>3, NewestLoaded, LoadsType DEF TypeInv, TypeOK
    <3> DEFINE x == [j EXCEPT !.state = "ROLLING_BACK"]
    <3>2. x \in Journal /\ x.entry = j.entry
      BY <3>1 DEF Journal, JournalStates
    <3> HIDE DEF x
    <3>3. StartSave(x, "restore")
      BY <2>3 DEF x
    <3> QED BY <1>1, <2>1, <3>1, <3>2, <3>3, SameStarts
  <2> QED BY <1>2, <2>2, <2>3
<1> QED BY <1>3, <1>4, <1>5 DEF RunNext

LEMMA HeldStep ==
  ASSUME "read" \notin FaultKinds, SwapPoints \subseteq {"idle"}, TypeInv, JournalInv,
         RecoverInv, HeldInv, [Next]_vars
  PROVE  HeldInv'
<1>1. NowGrown'
  BY GrownStep
<1>2. CASE pc' \notin StandPcs
  BY <1>1, <1>2, NotStanding DEF HeldInv
<1>3. CASE RemoveNext \/ ClearNext \/ ProbeNext
  BY <1>2, <1>3, ReturnsNotStanding, DiscardNotStanding, ClearNotStanding
  DEF RemoveNext, RemoveBackup, RemoveJournal0, RemoveJournal1, ClearNext, ClearMarker,
      ClearRefused, ClearToken, ProbeNext, Probe, Reconcile, TryDiscard, DiscardEmptyJournal,
      DiscardToken, Step, Loop, StandPcs, FileSteps, RestorePcs, SavePcs
<1>4. CASE UiInstall \/ UiRecover \/ UiRefresh \/ PowerCut \/ Boot
  BY <1>2, <1>4
  DEF UiInstall, UiRecover, UiRefresh, Starts, PowerCut, Boot, Step, StandPcs, FileSteps,
      RestorePcs, SavePcs
<1>5. CASE SwapCard
  BY <1>1, <1>5 DEF SwapCard, usb, ctl, HeldInv, SavesSame, Standing, Saves, SavePcs, StandPcs,
     FileSteps, RestorePcs, Latest
<1>6. CASE UNCHANGED vars
  BY <1>1, <1>6 DEF vars, usb, card, ctl, HeldInv, SavesSame, Standing, Saves, Latest
<1> QED BY <1>1, <1>3, <1>4, <1>5, <1>6, SaveHeld, ArmHeld, InstallHeld, RunHeld
        DEF Next, Program, HeldInv

-----------------------------------------------------------------------------
(* The preserved destinations: there, and in no journal of this run.       *)
SparedPc == InstallPc \/ pc \in ArmPcs \cup {"begin"} \/ Saves("arm")
Spared ==
  /\ SparedPc => \A f \in Files : Skipped(f) => file[inserted][f] # "absent"
  /\ InstallPc => \A f \in Files : Skipped(f) => Latest.entry[f] = "none"
  /\ Saves("finish") => Carries(inserted)
  /\ by # "begin"
  /\ pc \in {"inventory", "begin"} => Valid = {}

NewPcs == {"arm", "inventory", "begin"} \cup SavePcs
OutsidePcs == Pcs \ (FileSteps \cup ArmPcs \cup NewPcs \cup {"dirs", "files", "finish"})
Plan == <<inv, opt, inserted>>

-----------------------------------------------------------------------------
LEMMA LatestBlank ==
  ASSUME NEW f \in Files, JournalValid(Latest) => Latest.entry[f] = "none"
  PROVE  Latest.entry[f] = "none"
<1>1. ~JournalValid(Latest) => Latest.entry = NoEntries
  BY DEF Latest, LatestOf, JournalValid, AbsentSlot, TornSlot
<1> QED BY <1>1 DEF NoEntries

LEMMA SkippedKept ==
  ASSUME UNCHANGED <<inv, opt>>
  PROVE  \A f : Skipped(f)' = Skipped(f)
BY DEF Skipped

LEMMA OutsideSpared ==
  ASSUME pc' \in OutsidePcs, by' # "begin"
  PROVE  Spared'
BY DEF OutsidePcs, NewPcs, ArmPcs, Spared, SparedPc, InstallPc, Saves

LEMMA ReturnsOutside ==
  /\ \A s : InstallReturns(s) => pc' \in OutsidePcs /\ by' # "begin"
  /\ \A r, s : RunReturns(r, s) => pc' \in OutsidePcs /\ by' # "begin"
  /\ StartRollback => pc' \in OutsidePcs /\ by' # "begin"
  /\ \A j, c : StartRemove(j, c) => pc' \in OutsidePcs /\ by' = by
  /\ \A c : StartClear(c) => pc' \in OutsidePcs /\ by' = by
  /\ \A c, s : StartDiscard(c, s) => pc' \in OutsidePcs /\ by' = c
BY DEF InstallReturns, RunReturns, StartRollback, StartRemove, StartClear, StartDiscard,
   DropLocals, OutsidePcs, NewPcs, ArmPcs, Pcs, FileSteps, SavePcs

LEMMA ProbeOutside ==
  ASSUME NEW s, ProbeReturns(s), s.state = "none" => Valid' = {}
  PROVE  Spared'
<1>1. pc' \in {"inventory", "run", "idle"} /\ by' = "-"
      /\ (pc' = "inventory" => s.state = "none")
  BY DEF ProbeReturns, DropLocals
<1> QED BY <1>1 DEF Spared, SparedPc, InstallPc, Saves, SavePcs, FileSteps, ArmPcs

LEMMA DiscardOutside ==
  ASSUME NEW r, NEW s, DiscardReturns(r, s), Spared,
         by = "probe" /\ r # "discarded" /\ s.state = "none" => Valid' = {}
  PROVE  Spared'
<1>1. by # "begin"
  BY DEF Spared
<1>2. CASE by = "probe" /\ r # "discarded" /\ ProbeReturns(s)
  BY <1>2, ProbeOutside
<1>3. CASE by = "probe" /\ r = "discarded" /\ pc' = "probe" /\ by' = by
  BY <1>3, OutsideSpared DEF OutsidePcs, NewPcs, ArmPcs, Pcs, FileSteps, SavePcs
<1>4. CASE by = "run"
  <2>1. pc' \in OutsidePcs /\ by' # "begin"
    BY <1>4, ReturnsOutside
    DEF DiscardReturns, DropLocals, OutsidePcs, NewPcs, ArmPcs, Pcs, FileSteps, SavePcs
  <2> QED BY <2>1, OutsideSpared
<1> QED BY <1>1, <1>2, <1>3, <1>4 DEF DiscardReturns

LEMMA SaveSpared ==
  ASSUME TypeInv, JournalInv, CommitInv, RecoverInv, HeldInv, Spared, SaveNext
  PROVE  Spared'
<1>1. UNCHANGED <<file, inserted, token, marker>> /\ pc \in SavePcs
  BY DEF SaveNext, SaveOpen, SaveWrite, SaveFails, card, SavePcs
<1>2. by # "begin"
  BY DEF Spared
<1>3. CASE SaveOpen
  <2>1. pc' = "saveWrite" /\ UNCHANGED <<k, by, inv, opt>>
    BY <1>3 DEF SaveOpen, Step
  <2>2. k # "arm" => Latest' = Latest
    BY <1>3, SlotOpened
  <2>3. \A f : Skipped(f)' = Skipped(f)
    BY <2>1, SkippedKept
  <2> QED BY <1>1, <2>1, <2>2, <2>3
      DEF Spared, SparedPc, InstallPc, Saves, SavePcs, FileSteps, ArmPcs, Carries
<1>4. CASE SaveFails
  <2>1. pc' \in OutsidePcs /\ by' # "begin"
    BY <1>2, <1>4, ReturnsOutside
    DEF SaveFails, Step, OutsidePcs, NewPcs, ArmPcs, Pcs, FileSteps, SavePcs
  <2> QED BY <2>1, OutsideSpared
<1>5. CASE SaveWrite
  <2>1. CASE k \in {"undoKeep", "undoDrop", "finish"} /\ StartRemove(jr, k)
    BY <1>2, <2>1, ReturnsOutside, OutsideSpared
  <2>2. CASE k = "restore" /\ pc' = "restore" /\ by' = by
    BY <1>2, <2>2, OutsideSpared
    DEF OutsidePcs, NewPcs, ArmPcs, Pcs, FileSteps, SavePcs
  <2>3. CASE k = "arm" /\ pc' = "arm" /\ by' = "-" /\ UNCHANGED <<inv, opt>>
    <3>1. \A f : Skipped(f)' = Skipped(f)
      BY <2>3, SkippedKept
    <3> QED BY <1>1, <2>3, <3>1
        DEF Spared, SparedPc, InstallPc, Saves, SavePcs, FileSteps, ArmPcs
  <2>4. CASE k \in {"nextDir", "source"} /\ pc' \in {"dirs", "source"} /\ by' = by
             /\ UNCHANGED <<inv, opt>>
    <3>1. \A f : Skipped(f)' = Skipped(f)
      BY <2>4, SkippedKept
    <3>2. Latest' = jr
      BY <1>1, <1>5, SlotSaved DEF SaveWrite
    <3>3. InstallPc /\ SparedPc
      BY <1>1, <2>4 DEF InstallPc, SparedPc, Saves
    <3>4. ASSUME NEW f \in Files, Skipped(f) PROVE jr.entry[f] = "none"
      <4>1. Latest.entry[f] = "none" /\ Latest \in Journal
        BY <3>3, <3>4, LatestOfType DEF Spared, Latest, TypeInv, TypeOK, UsbOK
      <4>2. k = "source" => f # i
        BY <1>1, <3>4 DEF CommitInv, Working, Saves
      <4>3. jr.entry[f] = Latest.entry[f]
        BY <1>1, <2>4, <4>1, <4>2 DEF HeldInv, SavesSame, Journal
      <4> QED BY <4>1, <4>3
    <3>5. pc' \notin NewPcs /\ ~Saves("finish")'
      BY <2>4 DEF NewPcs, SavePcs, Saves
    <3>6. \A f \in Files : Skipped(f) => file[inserted][f] # "absent"
      BY <3>3 DEF Spared
    <3> QED BY <1>1, <1>2, <2>4, <3>1, <3>2, <3>4, <3>5, <3>6 DEF Spared, NewPcs
  <2> QED BY <1>5, <2>1, <2>2, <2>3, <2>4 DEF SaveWrite, DropLocals
<1> QED BY <1>3, <1>4, <1>5 DEF SaveNext

LEMMA CleanupSpared ==
  ASSUME "read" \notin FaultKinds, "remove" \notin FaultKinds, TypeInv, Emptied, Spared,
         pc \in {"clear", "clearToken", "reconcile"} => Valid = {},
         pc = "tryDiscard" /\ by = "probe" => status.state # "none",
         RemoveNext \/ ClearNext \/ ProbeNext
  PROVE  Spared'
<1>1. by # "begin"
  BY DEF Spared
<1>2. CASE pc' \in OutsidePcs /\ by' = by
  BY <1>1, <1>2, OutsideSpared
<1>3. NoStatus.state = "none" /\ CorruptStatus.state = "corrupt"
  BY DEF NoStatus, CorruptStatus
<1>4. CASE RemoveBackup \/ RemoveJournal0 \/ ClearMarker
  BY <1>2, <1>4
  DEF RemoveBackup, RemoveJournal0, ClearMarker, Step, Loop, OutsidePcs, NewPcs, ArmPcs, Pcs,
      FileSteps, SavePcs
<1>5. CASE RemoveJournal1
  <2>1. Valid' = {}
    BY <1>5, JournalsRemoved
  <2>2. \/ pc' \in OutsidePcs /\ by' = by
        \/ DiscardReturns("discarded", NoStatus)
        \/ InstallReturns(NoStatus)
    BY <1>5, ReturnsOutside
    DEF RemoveJournal1, Loop, OutsidePcs, NewPcs, ArmPcs, Pcs, FileSteps, SavePcs
  <2> QED BY <1>2, <2>1, <2>2, DiscardOutside, ReturnsOutside, OutsideSpared
<1>6. CASE ClearRefused \/ ClearToken
  <2>1. Valid' = {}
    BY <1>6 DEF ClearRefused, ClearToken, usb, Valid
  <2>2. PICK r : ClearReturns(r)
    BY <1>6 DEF ClearRefused, ClearToken
  <2>3. CASE \E x, s : DiscardReturns(x, s)
    BY <2>1, <2>3, DiscardOutside
  <2>4. CASE (\E x, s : RunReturns(x, s)) \/ (\E s : InstallReturns(s))
    BY <2>4, ReturnsOutside, OutsideSpared
  <2>5. CASE \E s : ProbeReturns(s)
    BY <2>1, <2>5, ProbeOutside
  <2>6. CASE pc' = "idle" /\ DropLocals
    BY <2>6, OutsideSpared
    DEF DropLocals, OutsidePcs, NewPcs, ArmPcs, Pcs, FileSteps, SavePcs
  <2> QED BY <2>2, <2>3, <2>4, <2>5, <2>6 DEF ClearReturns
<1>7. CASE Probe
  <2>1. PICK j \in Loads :
          \/ pc' = "reconcile" /\ by' = by
          \/ j.state = "torn" /\ ProbeReturns(CorruptStatus)
          \/ \E c : StartRemove(j, c)
          \/ ProbeReturns(FillStatus(j))
          \/ StartDiscard("probe", FillStatus(j))
    BY <1>7 DEF Probe
  <2>2. FillStatus(j).state # "none"
    BY DEF FillStatus
  <2>3. CASE \E c : StartRemove(j, c)
    BY <1>1, <2>3, ReturnsOutside, OutsideSpared
  <2>4. CASE StartDiscard("probe", FillStatus(j))
    BY <2>4, ReturnsOutside, OutsideSpared
  <2>5. CASE pc' = "reconcile" /\ by' = by
    BY <1>2, <2>5 DEF OutsidePcs, NewPcs, ArmPcs, Pcs, FileSteps, SavePcs
  <2> QED BY <1>3, <2>1, <2>2, <2>3, <2>4, <2>5, ProbeOutside
<1>8. CASE Reconcile
  <2>1. Valid' = {}
    BY <1>8 DEF Reconcile, usb, Valid
  <2>2. StartClear("reconcile") \/ \E s : ProbeReturns(s)
    BY <1>8 DEF Reconcile
  <2> QED BY <1>1, <2>1, <2>2, ProbeOutside, ReturnsOutside, OutsideSpared
<1>9. CASE TryDiscard
  <2>1. by = "probe" => status.state # "none"
    BY <1>9 DEF TryDiscard
  <2>2. \/ \E r : DiscardReturns(r, status)
        \/ \E j, c : StartRemove(j, c)
    BY <1>9 DEF TryDiscard, DiscardEmptyJournal
  <2> QED BY <1>1, <2>1, <2>2, DiscardOutside, ReturnsOutside, OutsideSpared
<1>10. CASE DiscardToken
  <2>1. Valid' = {}
    BY <1>10 DEF DiscardToken, Emptied, Valid
  <2> QED BY <1>10, <2>1, DiscardOutside DEF DiscardToken
<1> QED BY <1>4, <1>5, <1>6, <1>7, <1>8, <1>9, <1>10 DEF RemoveNext, ClearNext, ProbeNext

LEMMA ArmSpared ==
  ASSUME "read" \notin FaultKinds, TypeInv, RecoverInv, Spared, ArmNext
  PROVE  Spared'
<1>1. by # "begin"
  BY DEF Spared
<1>2. UNCHANGED <<slot, file, inserted>>
  BY DEF ArmNext, Begin, ArmCheck, ArmTokenOpen, ArmTokenWrite, ArmMarkerOpen, ArmMarkerWrite,
     ArmUndo, ArmDropMarker, ArmDropToken, usb, card
<1>3. Latest' = Latest /\ Valid' = Valid
  BY <1>2 DEF Latest, Valid
<1>4. (SparedPc /\ pc \in ArmPcs \cup {"begin"}) \/ pc \in {"dropMarker", "dropToken"}
  BY DEF SparedPc, ArmPcs, ArmNext, Begin, ArmCheck, ArmTokenOpen, ArmTokenWrite, ArmMarkerOpen,
     ArmMarkerWrite, ArmUndo, ArmDropMarker, ArmDropToken
<1>5. CASE pc' \in OutsidePcs /\ by' # "begin"
  BY <1>5, OutsideSpared
<1>6. CASE SparedPc /\ UNCHANGED <<inv, opt, by>> /\ pc' \in ArmPcs
  <2>1. \A f : Skipped(f)' = Skipped(f)
    BY <1>6, SkippedKept
  <2> QED BY <1>1, <1>2, <1>6, <2>1
      DEF Spared, ArmPcs, InstallPc, FileSteps, Saves, SavePcs
<1>7. CASE SparedPc /\ UNCHANGED <<inv, opt, by>> /\ pc' = "save" /\ k' \in {"arm", "undoKeep", "undoDrop"}
  <2>1. \A f : Skipped(f)' = Skipped(f)
    BY <1>7, SkippedKept
  <2> QED BY <1>1, <1>2, <1>7, <2>1
      DEF Spared, InstallPc, FileSteps, Saves, SavePcs
<1>8. CASE ArmMarkerWrite
  <2>1. CASE ArmFails("undoDrop")
    BY <1>4, <1>6, <1>8, <2>1 DEF ArmMarkerWrite, ArmFails, ArmPcs
  <2>2. CASE Loop("dirs", 1)
    <3>1. pc' = "dirs" /\ UNCHANGED <<inv, opt, by, k>>
      BY <2>2 DEF Loop
    <3>2. \A f : Skipped(f)' = Skipped(f)
      BY <3>1, SkippedKept
    <3>3. Uncaptured(1) /\ SparedPc
      BY <1>8 DEF ArmMarkerWrite, RecoverInv, Arming, ArmPcs, SparedPc
    <3>4. \A f \in Files : Latest.entry[f] = "none"
      BY <3>3, LatestSlot, LatestBlank DEF Uncaptured, BlankFrom, Files
    <3> QED BY <1>1, <1>2, <1>3, <3>1, <3>2, <3>3, <3>4
        DEF Spared, Saves, SavePcs
  <2> QED BY <1>8, <2>1, <2>2 DEF ArmMarkerWrite
<1>9. CASE Begin
  <2>1. PICK j \in Loads :
          \/ \E s : InstallReturns(s)
          \/ Loaded(j) /\ JournalValid(j)
          \/ StartSave(EmptyJournal, "arm")
    BY <1>9 DEF Begin, Loads
  <2>2. ~JournalValid(Latest)
    BY <1>9, LatestSlot DEF Begin, Spared
  <2>3. CASE StartSave(EmptyJournal, "arm")
    BY <1>4, <1>7, <1>9, <2>3 DEF Begin, StartSave, ArmPcs
  <2> QED BY <1>5, <2>1, <2>2, <2>3, ReturnsOutside, NewestLoaded
<1>10. CASE ArmCheck \/ ArmTokenOpen \/ ArmTokenWrite \/ ArmMarkerOpen
  <2>1. pc' \in ArmPcs /\ UNCHANGED <<inv, opt, by>> /\ pc \in ArmPcs
    BY <1>10 DEF ArmCheck, ArmTokenOpen, ArmTokenWrite, ArmMarkerOpen, ArmFails, Step, ArmPcs
  <2> QED BY <1>6, <2>1 DEF SparedPc
<1>11. CASE ArmUndo
  <2>1. PICK j \in Loads :
          \/ StartSave([j EXCEPT !.state = "ROLLING_BACK"], k)
          \/ \E s : InstallReturns(s)
          \/ pc' = "dropMarker" /\ by' = by
    BY <1>11 DEF ArmUndo, Step
  <2>2. CASE StartSave([j EXCEPT !.state = "ROLLING_BACK"], k)
    <3>1. k \in {"undoKeep", "undoDrop"} /\ SparedPc
      BY <1>11 DEF ArmUndo, TypeInv, IndexOK, SparedPc, ArmPcs
    <3> QED BY <1>7, <2>2, <3>1 DEF StartSave
  <2>3. CASE pc' = "dropMarker" /\ by' = by
    BY <1>1, <1>5, <2>3 DEF OutsidePcs, NewPcs, ArmPcs, Pcs, FileSteps, SavePcs
  <2> QED BY <1>5, <2>1, <2>2, <2>3, ReturnsOutside
<1>12. CASE ArmDropMarker \/ ArmDropToken
  BY <1>1, <1>5, <1>12, ReturnsOutside
  DEF ArmDropMarker, ArmDropToken, Loop, OutsidePcs, NewPcs, ArmPcs, Pcs, FileSteps, SavePcs
<1> QED BY <1>8, <1>9, <1>10, <1>11, <1>12 DEF ArmNext

LEMMA InstallSpared ==
  ASSUME "read" \notin FaultKinds, TypeInv, CommitInv, Spared, InstallNext
  PROVE  Spared'
<1>1. by # "begin"
  BY DEF Spared
<1>2. UNCHANGED <<slot, inserted>>
  BY DEF InstallNext, Inventory, NoSpace, MakeDirectory, DirectoriesDone, SkipFile,
     Capture, FilesDone, Source, Wipe, WriteOpen, WriteData, Verify, Finish, usb, card
<1>3. Latest' = Latest /\ Valid' = Valid
  BY <1>2 DEF Latest, Valid
<1>4. CASE pc' \in OutsidePcs /\ by' # "begin"
  BY <1>4, OutsideSpared
<1>5. CASE Inventory
  <2>1. CASE \E s : InstallReturns(s)
    BY <1>4, <2>1, ReturnsOutside
  <2>2. CASE inv' = Existing /\ pc' = "begin" /\ UNCHANGED <<by, file>>
    <3>1. \A f \in Files : Skipped(f)' => file[inserted][f] # "absent"
      BY <2>2 DEF Skipped, Existing
    <3>2. Valid = {}
      BY <1>5 DEF Inventory, Spared
    <3> QED BY <1>1, <1>2, <1>3, <2>2, <3>1, <3>2
        DEF Spared, InstallPc, FileSteps, Saves, SavePcs
  <2> QED BY <1>5, <2>1, <2>2 DEF Inventory, NoSpace, card
<1>6. CASE ~Inventory
  <2>1. InstallPc /\ SparedPc
    BY <1>6 DEF InstallNext, MakeDirectory, DirectoriesDone, SkipFile, Capture, FilesDone, Source,
       Wipe, WriteOpen, WriteData, Verify, Finish, InstallPc, SparedPc, FileSteps
  <2>2. \A f \in Files : Skipped(f) =>
          file[inserted][f] # "absent" /\ Latest.entry[f] = "none"
    BY <2>1 DEF Spared
  <2>3. \A f \in Files : Skipped(f) => file'[inserted][f] # "absent"
    <3>1. CASE file' = file
      BY <2>2, <3>1
    <3>2. CASE Wipe \/ WriteOpen \/ WriteData
      <4>1. i \in Files /\ ~Skipped(i) /\ (file' = file \/ \E x : PutFile(x))
        BY <3>2 DEF Wipe, WriteOpen, WriteData, TypeInv, IndexOK, FilePcs, CommitInv, Working,
           FileSteps
      <4>2. \A f \in Files : f # i => file'[inserted][f] = file[inserted][f]
        BY <4>1 DEF PutFile, TypeInv, TypeOK, CardsOK
      <4> QED BY <2>2, <4>1, <4>2
    <3> QED BY <1>6, <3>1, <3>2
        DEF InstallNext, MakeDirectory, DirectoriesDone, SkipFile, Capture, FilesDone, Source,
            Verify, Finish, card
  <2>4. ASSUME UNCHANGED <<inv, opt, by>>, pc' \notin {"inventory", "begin"},
               Saves("finish")' => Carries(inserted) /\ UNCHANGED <<token, marker>>
        PROVE  Spared'
    <3>1. \A f : Skipped(f)' = Skipped(f)
      BY <2>4, SkippedKept
    <3> QED BY <1>1, <1>2, <1>3, <2>2, <2>3, <2>4, <3>1 DEF Spared, Carries
  <2>5. CASE Finish
    <3>1. PICK j \in Loads :
            \/ /\ CardMatches /\ StartSave([j EXCEPT !.state = "COMMITTED"], "finish")
            \/ \E s : InstallReturns(s)
      BY <2>5 DEF Finish, Loads
    <3>2. CASE CardMatches /\ StartSave([j EXCEPT !.state = "COMMITTED"], "finish")
      <4>1. UNCHANGED <<inv, opt, by, token, marker>> /\ pc' = "save" /\ Carries(inserted)
        BY <2>5, <3>2 DEF Finish, StartSave, usb, card, CardMatches, Carries
      <4> QED BY <2>4, <4>1
    <3> QED BY <1>4, <3>1, <3>2, ReturnsOutside
  <2>6. CASE MakeDirectory \/ Capture
    <3>1. PICK j, c : \/ c \in {"nextDir", "source"} /\ StartSave(j, c)
                      \/ StartRollback
      BY <2>6 DEF MakeDirectory, Capture
    <3>2. CASE c \in {"nextDir", "source"} /\ StartSave(j, c)
      <4>1. UNCHANGED <<inv, opt, by>> /\ pc' = "save" /\ k' # "finish"
        BY <3>2 DEF StartSave
      <4> QED BY <2>4, <4>1 DEF Saves
    <3> QED BY <1>4, <3>1, <3>2, ReturnsOutside
  <2>7. CASE DirectoriesDone \/ SkipFile \/ FilesDone \/ Source \/ Wipe \/ WriteOpen \/ WriteData
               \/ Verify
    <3>1. CASE StartRollback
      BY <1>4, <3>1, ReturnsOutside
    <3>2. CASE ~StartRollback
      <4>1. UNCHANGED <<inv, opt, by>> /\ pc' \notin {"inventory", "begin"} \cup SavePcs
        BY <2>7, <3>2
        DEF DirectoriesDone, SkipFile, FilesDone, Source, Wipe, WriteOpen, WriteData, Verify,
            Step, Loop, SavePcs
      <4> QED BY <2>4, <4>1 DEF Saves
    <3> QED BY <3>1, <3>2
  <2> QED BY <1>6, <2>5, <2>6, <2>7 DEF InstallNext
<1> QED BY <1>5, <1>6

LEMMA RunSpared ==
  ASSUME Spared, RunNext
  PROVE  Spared'
<1>1. by # "begin"
  BY DEF Spared
<1>2. CASE pc' \in OutsidePcs /\ by' # "begin"
  BY <1>2, OutsideSpared
<1>3. CASE Run \/ RollbackDone
  <2>1. \/ pc' = "runCheck" /\ by' = by
        \/ (\E s : StartDiscard("run", s)) \/ \E j, c : StartRemove(j, c)
    BY <1>3 DEF Run, RollbackDone, Step
  <2>2. CASE pc' = "runCheck" /\ by' = by
    BY <1>1, <1>2, <2>2 DEF OutsidePcs, NewPcs, ArmPcs, Pcs, FileSteps, SavePcs
  <2> QED BY <1>1, <1>2, <2>1, <2>2, ReturnsOutside
<1>4. CASE RunCheck
  <2>1. PICK j \in Loads :
          \/ StartSave([j EXCEPT !.state = "ROLLING_BACK"], "restore")
          \/ (\E c : StartRemove(j, c)) \/ \E r, s : RunReturns(r, s)
    BY <1>4 DEF RunCheck, Loads
  <2>2. CASE StartSave([j EXCEPT !.state = "ROLLING_BACK"], "restore")
    BY <1>1, <2>2
    DEF StartSave, Spared, SparedPc, InstallPc, ArmPcs, FileSteps, Saves, SavePcs
  <2> QED BY <1>1, <1>2, <2>1, <2>2, ReturnsOutside
<1>5. CASE Restore \/ RestoreWrite \/ RestoreVerify
  BY <1>1, <1>2, <1>5
  DEF Restore, RestoreWrite, RestoreVerify, RestoreNext, Step, OutsidePcs, NewPcs, ArmPcs, Pcs,
      FileSteps, SavePcs
<1>6. CASE RestoreDone \/ RemoveDirectory
  <2>1. (pc' = "rmDirs" /\ by' = by) \/ \E r, s : RunReturns(r, s)
    BY <1>6 DEF RestoreDone, RemoveDirectory, Loop
  <2> QED BY <1>1, <1>2, <2>1, ReturnsOutside
      DEF OutsidePcs, NewPcs, ArmPcs, Pcs, FileSteps, SavePcs
<1> QED BY <1>3, <1>4, <1>5, <1>6 DEF RunNext

LEMMA SparedStep ==
  ASSUME "read" \notin FaultKinds, "remove" \notin FaultKinds, SwapPoints \subseteq {"idle"},
         TypeInv, JournalInv, CommitInv, RecoverInv, HeldInv, Emptied, Spared,
         pc \in {"clear", "clearToken", "reconcile"} => Valid = {},
         pc = "tryDiscard" /\ by = "probe" => status.state # "none",
         [Next]_vars
  PROVE  Spared'
<1>1. by # "begin"
  BY DEF Spared
<1>2. CASE UiInstall \/ UiRecover \/ UiRefresh \/ PowerCut \/ Boot \/ SwapCard
  <2>1. pc' \in OutsidePcs /\ by' # "begin"
    BY <1>1, <1>2
    DEF UiInstall, UiRecover, UiRefresh, Starts, PowerCut, DropLocals, Boot, Step, SwapCard, ctl,
        OutsidePcs, NewPcs, ArmPcs, Pcs, FileSteps, SavePcs
  <2> QED BY <2>1, OutsideSpared
<1>3. CASE UNCHANGED vars
  <2>1. UNCHANGED <<slot, token, marker, file, inserted, inv, opt, by, pc, k>>
    BY <1>3 DEF vars, usb, card, ctl
  <2>2. \A f : Skipped(f)' = Skipped(f)
    BY <2>1, SkippedKept
  <2>3. Latest' = Latest /\ Valid' = Valid
    BY <2>1 DEF Latest, Valid
  <2> QED BY <2>1, <2>2, <2>3 DEF Spared, SparedPc, InstallPc, Saves, Carries
<1> QED
  BY <1>2, <1>3, SaveSpared, CleanupSpared, ArmSpared, InstallSpared, RunSpared
  DEF Next, Program

-----------------------------------------------------------------------------
(* The restored entries, and what a cleanup may remove.                    *)
PutBack ==
  pc \in RestorePcs /\ err = "ok" =>
    \A f \in Files : f > i /\ jr.entry[f] # "none" => file[inserted][f] = jr.entry[f]
Cleaning ==
  /\ pc \in RestorePcs \cup {"rmDirs"} => jr.state # "COMMITTED"
  /\ pc = "rmDirs" => Settled
  /\ pc \in RemovePcs /\ jr.state # "COMMITTED" => Settled
  /\ pc = "rmBackup" /\ jr.state = "COMMITTED" => Latest = jr
  /\ pc = "rmJournal1" /\ jr.state = "COMMITTED" /\ SlotOf(jr.seq) = 1 => slot[1] = jr
  /\ pc \in {"dropMarker", "dropToken"} => Uncaptured(1)
  /\ pc \in {"reconcile", "clear", "clearToken"} => Valid = {}
  /\ pc = "tryDiscard" /\ by = "probe" => status.state # "none"

CleanInv == PutBack /\ Cleaning

CleanPcs ==
  RestorePcs \cup RemovePcs \cup {"rmDirs", "dropMarker", "dropToken", "reconcile", "clear",
                                   "clearToken", "tryDiscard"}

-----------------------------------------------------------------------------
LEMMA BlankSettled ==
  ASSUME Uncaptured(1)
  PROVE  Settled
BY DEF Uncaptured, BlankFrom, Settled, Agrees, Files

LEMMA NotClean ==
  ASSUME pc' \notin CleanPcs
  PROVE  CleanInv'
BY DEF CleanPcs, CleanInv, PutBack, Cleaning, RestorePcs, RemovePcs

LEMMA ReturnsNotClean ==
  /\ \A s : ProbeReturns(s) => pc' \notin CleanPcs
  /\ \A s : InstallReturns(s) => pc' \notin CleanPcs
  /\ \A r, s : RunReturns(r, s) => pc' \notin CleanPcs
  /\ StartRollback => pc' \notin CleanPcs
  /\ \A j, c : StartSave(j, c) => pc' \notin CleanPcs
  /\ \A c : ArmFails(c) => pc' \notin CleanPcs
BY DEF ProbeReturns, InstallReturns, RunReturns, StartRollback, StartSave, ArmFails, CleanPcs,
   RestorePcs, RemovePcs

LEMMA DiscardNotClean ==
  ASSUME NEW r, NEW s, DiscardReturns(r, s)
  PROVE  pc' \notin CleanPcs
BY ReturnsNotClean DEF DiscardReturns, CleanPcs, RestorePcs, RemovePcs

LEMMA ClearNotClean ==
  ASSUME NEW r, ClearReturns(r)
  PROVE  pc' \notin CleanPcs
BY ReturnsNotClean, DiscardNotClean DEF ClearReturns, CleanPcs, RestorePcs, RemovePcs

(* Where there is no journal, everything may be cleaned.                   *)
LEMMA NothingLeft ==
  ASSUME Valid' = {}, pc' \in {"reconcile", "clear", "clearToken", "dropMarker", "dropToken"}
  PROVE  CleanInv'
BY DEF CleanInv, PutBack, Cleaning, Uncaptured, RestorePcs, RemovePcs

LEMMA RemoveClean ==
  ASSUME NEW j, NEW c, StartRemove(j, c),
         j.state = "COMMITTED" => Latest' = j,
         j.state # "COMMITTED" => Settled'
  PROVE  CleanInv'
BY DEF StartRemove, CleanInv, PutBack, Cleaning, RestorePcs, RemovePcs

LEMMA DiscardStarts ==
  ASSUME NEW c, NEW s, StartDiscard(c, s), c = "probe" => s.state # "none"
  PROVE  CleanInv'
BY DEF StartDiscard, CleanInv, PutBack, Cleaning, RestorePcs, RemovePcs

LEMMA SettledKept ==
  ASSUME Settled, UNCHANGED <<token, marker, file>>,
         \A v \in Valid' : v \in Valid /\ slot'[v] = slot[v]
  PROVE  Settled'
BY DEF Settled, Agrees, Carries

LEMMA SaveClean ==
  ASSUME TypeInv, JournalInv, RecoverInv, SaveNext
  PROVE  CleanInv'
<1>1. CASE pc' \notin CleanPcs
  BY <1>1, NotClean
<1>2. CASE SaveOpen
  BY <1>1, <1>2 DEF SaveOpen, Step, CleanPcs, RestorePcs, RemovePcs
<1>3. ASSUME pc = "saveWrite", SavedJournal, HistAfterSave, UNCHANGED <<backup, file>>,
             k \in {"undoKeep", "undoDrop"}
      PROVE  Uncaptured(1)'
  <2>1. Uncaptured(1) /\ BlankFrom(jr, 1) /\ pc \in SavePcs
    BY <1>3 DEF RecoverInv, Saving, SavePcs
  <2> QED BY <1>3, <2>1, JournalSaved
<1>4. CASE SaveWrite
  <2>1. CASE k \in {"arm", "nextDir", "source"}
    BY <1>1, <1>4, <2>1 DEF SaveWrite, CleanPcs, RestorePcs, RemovePcs
  <2>2. CASE k = "restore"
    <3>1. pc' = "restore" /\ i' = NFiles /\ jr' = jr
      BY <1>4, <2>2 DEF SaveWrite
    <3>2. jr.state # "COMMITTED"
      BY <1>4, <2>2 DEF SaveWrite, RecoverInv, Saving, SavePcs
    <3>3. \A f \in Files : ~(f > NFiles)
      BY NFilesAssumption DEF Files
    <3>4. PutBack'
      BY <3>1, <3>3 DEF PutBack
    <3>5. Cleaning'
      BY <3>1, <3>2 DEF Cleaning, RemovePcs
    <3> QED BY <3>4, <3>5 DEF CleanInv
  <2>3. CASE k \in {"undoKeep", "undoDrop", "finish"} /\ StartRemove(jr, k)
    <3>1. Latest' = jr
      BY <1>4, SlotSaved DEF SaveWrite, SavePcs
    <3>2. jr.state # "COMMITTED" => k \in {"undoKeep", "undoDrop"}
      BY <1>4, <2>3 DEF SaveWrite, RecoverInv, Saving, SavePcs
    <3>3. jr.state # "COMMITTED" => Uncaptured(1)'
      BY <1>3, <1>4, <3>2 DEF SaveWrite, card
    <3>4. Uncaptured(1)' => Settled'
      BY BlankSettled, PTL
    <3> QED BY <2>3, <3>1, <3>3, <3>4, RemoveClean
  <2> QED BY <1>4, <2>1, <2>2, <2>3 DEF SaveWrite
<1>5. CASE SaveFails
  <2>1. CASE pc' = "dropMarker" /\ k = "undoDrop"
    <3>1. Uncaptured(1)'
      <4>1. CASE slot' = slot
        <5>1. Uncaptured(1)
          BY <1>5, <2>1 DEF SaveFails, RecoverInv, Saving, SavePcs
        <5> QED BY <4>1, <5>1 DEF Uncaptured, Valid
      <4> QED BY <1>3, <1>5, <2>1, <4>1 DEF SaveFails, card
    <3> QED BY <2>1, <3>1 DEF CleanInv, PutBack, Cleaning, RestorePcs, RemovePcs
  <2> QED BY <1>1, <1>5, <2>1, ReturnsNotClean DEF SaveFails, Step
<1> QED BY <1>2, <1>4, <1>5 DEF SaveNext

LEMMA RemoveCleans ==
  ASSUME "remove" \notin FaultKinds, TypeInv, JournalInv, Emptied, CleanInv, RemoveNext
  PROVE  CleanInv'
<1>1. slot \in [Slots -> Journal]
  BY DEF TypeInv, TypeOK, UsbOK
<1>2. CASE RemoveBackup
  <2>1. /\ UNCHANGED <<slot, token, marker, file, jr>> /\ pc = "rmBackup" /\ pc' = "rmBackup"
    BY <1>2 DEF RemoveBackup, Loop, card
  <2>2. Latest' = Latest /\ (Settled => Settled')
    BY <2>1, SameSlots, SettledKept DEF Latest
  <2> QED BY <2>1, <2>2 DEF CleanInv, PutBack, Cleaning, RestorePcs, RemovePcs
<1>3. CASE RemoveJournal0
  <2>1. /\ UNCHANGED <<token, marker, file, jr>> /\ pc = "rmBackup" /\ pc' = "rmJournal1"
        /\ slot' = [slot EXCEPT ![0] = AbsentSlot]
    BY <1>3 DEF RemoveJournal0, Removed, Fault, Step, card
  <2>2. \A v \in Valid' : v \in Valid /\ slot'[v] = slot[v]
    BY <1>1, <2>1, SlotsEmptied DEF Slots
  <2>3. jr.state # "COMMITTED" => Settled'
    BY <2>1, <2>2, SettledKept DEF CleanInv, Cleaning, RemovePcs
  <2>4. jr.state = "COMMITTED" /\ SlotOf(jr.seq) = 1 => slot'[1] = jr
    <3> SUFFICES ASSUME jr.state = "COMMITTED", SlotOf(jr.seq) = 1 PROVE slot'[1] = jr
      OBVIOUS
    <3>1. Latest = jr /\ JournalValid(jr)
      BY <2>1 DEF CleanInv, Cleaning, RemovePcs, JournalValid, JournalStates
    <3>2. PICK s \in Valid : jr = slot[s]
      BY <3>1, LatestSlot
    <3>3. s = 1
      BY <3>1, <3>2 DEF JournalInv, Parity, Valid
    <3> QED BY <1>1, <2>1, <3>2, <3>3 DEF Slots
  <2> QED BY <2>1, <2>3, <2>4 DEF CleanInv, PutBack, Cleaning, RestorePcs, RemovePcs
<1>4. CASE RemoveJournal1
  <2>1. Valid' = {}
    BY <1>4, JournalsRemoved
  <2>2. \/ pc' \in {"reconcile", "clear", "dropMarker", "dropToken"}
        \/ pc' \notin CleanPcs
    BY <1>4, ReturnsNotClean, DiscardNotClean DEF RemoveJournal1, Loop, StartClear
  <2> QED BY <2>1, <2>2, NothingLeft, NotClean
<1> QED BY <1>2, <1>3, <1>4 DEF RemoveNext

LEMMA NothingPrepared ==
  ASSUME NowGrown, JournalValid(Latest) => ~Prepared(Latest)
  PROVE  Uncaptured(1)
<1>1. \A v \in Valid : Grows(slot[v], Latest) /\ JournalValid(Latest)
  BY LatestSlot DEF NowGrown
<1> QED BY <1>1 DEF Uncaptured, BlankFrom, Prepared, Grows

LEMMA ProbeCleans ==
  ASSUME "read" \notin FaultKinds, TypeInv, HeldInv, CleanInv, ClearNext \/ ProbeNext
  PROVE  CleanInv'
<1>1. UNCHANGED slot
  BY DEF ClearNext, ProbeNext, ClearMarker, ClearRefused, ClearToken, Probe, Reconcile,
     TryDiscard, DiscardToken, usb
<1>2. Latest' = Latest /\ Valid' = Valid
  BY <1>1 DEF Latest, Valid
<1>3. CASE ClearMarker
  BY <1>2, <1>3, NothingLeft DEF ClearMarker, Step, CleanInv, Cleaning
<1>4. CASE ClearRefused \/ ClearToken \/ DiscardToken
  BY <1>4, ClearNotClean, DiscardNotClean, NotClean DEF ClearRefused, ClearToken, DiscardToken
<1>5. CASE Reconcile
  <2>1. CASE StartClear("reconcile")
    BY <1>2, <1>5, <2>1, NothingLeft DEF Reconcile, StartClear, CleanInv, Cleaning
  <2> QED BY <1>5, <2>1, ReturnsNotClean, NotClean DEF Reconcile
<1>6. CASE Probe
  <2>1. PICK j \in Loads :
          /\ Loaded(j)
          /\ \/ j.state = "absent" /\ pc' = "reconcile"
             \/ j.state = "COMMITTED" /\ StartRemove(j, "reconcile")
             \/ StartDiscard("probe", FillStatus(j))
             \/ \E s : ProbeReturns(s)
    BY <1>6 DEF Probe
  <2>2. j = Latest
    BY <2>1, NewestLoaded
  <2>3. CASE j.state = "absent" /\ pc' = "reconcile"
    <3>1. Valid' = {}
      BY <1>2, <2>2, <2>3, LatestSlot DEF JournalValid, JournalStates
    <3> QED BY <2>3, <3>1, NothingLeft
  <2>4. CASE j.state = "COMMITTED" /\ StartRemove(j, "reconcile")
    BY <1>2, <2>2, <2>4, RemoveClean
  <2>5. FillStatus(j).state # "none"
    BY DEF FillStatus
  <2> QED BY <2>1, <2>3, <2>4, <2>5, DiscardStarts, ReturnsNotClean, NotClean
<1>7. CASE TryDiscard
  <2>1. UNCHANGED <<token, marker, file>>
    BY <1>7 DEF TryDiscard, usb, card
  <2>2. CASE pc' \notin CleanPcs
    BY <2>2, NotClean
  <2>3. CASE \E c : DiscardEmptyJournal(c) /\ pc' \in CleanPcs
    <3>5. PICK c : DiscardEmptyJournal(c) /\ pc' \in CleanPcs
      BY <2>3
    <3>1. PICK j \in Loads : Loaded(j) /\ Discardable(j) /\ StartRemove(j, c)
      BY <3>5, DiscardNotClean DEF DiscardEmptyJournal
    <3>2. j = Latest /\ ~Prepared(j) /\ j.state = "ACTIVE"
      BY <3>1, NewestLoaded DEF Discardable
    <3>3. Settled
      BY <3>2, NothingPrepared, BlankSettled DEF HeldInv
    <3>4. Settled'
      BY <1>1, <2>1, <3>3, SameSlots, SettledKept
    <3> QED BY <3>1, <3>2, <3>4, RemoveClean
  <2>4. (\E c : DiscardEmptyJournal(c)) \/ \E r, s : DiscardReturns(r, s)
    BY <1>7 DEF TryDiscard
  <2> QED BY <2>2, <2>3, <2>4, DiscardNotClean
<1> QED BY <1>3, <1>4, <1>5, <1>6, <1>7 DEF ClearNext, ProbeNext

LEMMA ArmCleans ==
  ASSUME RecoverInv, CleanInv, ArmNext
  PROVE  CleanInv'
<1>1. UNCHANGED slot
  BY DEF ArmNext, Begin, ArmCheck, ArmTokenOpen, ArmTokenWrite, ArmMarkerOpen, ArmMarkerWrite,
     ArmUndo, ArmDropMarker, ArmDropToken, usb
<1>2. CASE pc' \notin CleanPcs
  BY <1>2, NotClean
<1>3. CASE Begin
  <2>1. (\E s : StartDiscard("begin", s)) \/ pc' \notin CleanPcs
    BY <1>3, ReturnsNotClean DEF Begin
  <2> QED BY <1>2, <2>1, DiscardStarts
<1>4. CASE ArmCheck \/ ArmTokenOpen \/ ArmTokenWrite \/ ArmMarkerOpen \/ ArmMarkerWrite
             \/ ArmDropToken
  BY <1>2, <1>4, ReturnsNotClean
  DEF ArmCheck, ArmTokenOpen, ArmTokenWrite, ArmMarkerOpen, ArmMarkerWrite, ArmDropToken, Step,
      Loop, CleanPcs, RestorePcs, RemovePcs
<1>5. CASE ArmUndo \/ ArmDropMarker
  <2>1. Uncaptured(1)'
    BY <1>1, <1>5 DEF ArmUndo, ArmDropMarker, CleanInv, Cleaning, RecoverInv, Arming, ArmPcs,
       Uncaptured, Valid
  <2>2. pc' \notin CleanPcs \/ pc' \in {"dropMarker", "dropToken"}
    BY <1>5, ReturnsNotClean DEF ArmUndo, ArmDropMarker, Step, Loop
  <2> QED BY <1>2, <2>1, <2>2 DEF CleanInv, PutBack, Cleaning, RestorePcs, RemovePcs
<1> QED BY <1>3, <1>4, <1>5 DEF ArmNext

LEMMA RestoreCleans ==
  ASSUME TypeInv, CleanInv, Restore \/ RestoreWrite \/ RestoreVerify
  PROVE  CleanInv'
<1>1. pc \in RestorePcs /\ pc' \in RestorePcs /\ UNCHANGED <<jr, inserted, backup>> /\ i \in Files
  <2>1. pc = "restore" => i > 0
    BY DEF Restore, RestoreWrite, RestoreVerify
  <2> QED BY <2>1 DEF Restore, RestoreWrite, RestoreVerify, RestoreNext, Step, usb, RestorePcs,
             TypeInv, IndexOK, FilePcs, Files
<1>2. jr.state # "COMMITTED"
  BY <1>1 DEF CleanInv, Cleaning
<1>3. file' = file \/ \E x : PutFile(x)
  BY DEF Restore, RestoreWrite, RestoreVerify
<1>4. \A f \in Files : f # i => file'[inserted][f] = file[inserted][f]
  BY <1>1, <1>3 DEF PutFile, TypeInv, TypeOK, CardsOK
<1>5. \A x : PutFile(x) => file'[inserted][i] = x
  BY <1>1 DEF PutFile, TypeInv, TypeOK, CardsOK
<1>6. err \in Errors /\ i \in Nat
  BY <1>1 DEF TypeInv, TypeOK, CtlOK, Files
<1>7. CASE UNCHANGED <<i, err>>
  <2>1. \A f \in Files : f > i => f # i
    BY <1>6 DEF Files
  <2> QED BY <1>1, <1>2, <1>4, <1>7, <2>1
      DEF CleanInv, PutBack, Cleaning, RestorePcs, RemovePcs
<1>8. ASSUME NEW e, RestoreNext(e),
             e = "ok" /\ jr.entry[i] # "none" => file'[inserted][i] = jr.entry[i]
      PROVE  CleanInv'
  <2>1. i' = i - 1 /\ (err' = "ok" => err = "ok" /\ e = "ok") /\ pc' = "restore"
    BY <1>8 DEF RestoreNext
  <2>2. \A f \in Files : f > i - 1 => f = i \/ (f > i /\ f # i)
    BY <1>6 DEF Files
  <2>3. PutBack'
    BY <1>1, <1>4, <1>8, <2>1, <2>2 DEF CleanInv, PutBack
  <2> QED BY <1>1, <1>2, <2>1, <2>3 DEF CleanInv, Cleaning, RestorePcs, RemovePcs
<1>9. CASE Restore
  <2>1. \/ UNCHANGED <<i, err>>
        \/ \E e : RestoreNext(e) /\ e # "ok"
        \/ RestoreNext("ok") /\ jr.entry[i] = "none"
        \/ RestoreNext("ok") /\ jr.entry[i] = "absent" /\ PutFile("absent")
    BY <1>9 DEF Restore, Step
  <2> QED BY <1>5, <1>7, <1>8, <2>1
<1>10. CASE RestoreWrite
  <2>1. \/ UNCHANGED <<i, err>>
        \/ \E e : RestoreNext(e) /\ e # "ok"
        \/ RestoreNext("ok") /\ jr.entry[i] = "empty" /\ PutFile("empty")
    BY <1>10 DEF RestoreWrite, Step
  <2> QED BY <1>5, <1>7, <1>8, <2>1
<1>11. CASE RestoreVerify
  <2>1. \/ \E e : RestoreNext(e) /\ e # "ok"
        \/ RestoreNext("ok") /\ PutFile(backup[i])
    BY <1>11 DEF RestoreVerify
  <2>2. backup[i] = jr.entry[i]
    BY <1>11 DEF RestoreVerify, TypeInv, IndexOK
  <2> QED BY <1>5, <1>8, <2>1, <2>2
<1> QED BY <1>9, <1>10, <1>11

LEMMA RunCleans ==
  ASSUME "read" \notin FaultKinds, TypeInv, CardInv, RecoverInv, HeldInv, CleanInv, RunNext
  PROVE  CleanInv'
<1>1. UNCHANGED <<slot, token, marker, inserted>>
  BY DEF RunNext, Run, RunCheck, Restore, RestoreWrite, RestoreVerify, RestoreDone,
     RemoveDirectory, RollbackDone, usb, card
<1>2. CASE pc' \notin CleanPcs
  BY <1>2, NotClean
<1>3. CASE Restore \/ RestoreWrite \/ RestoreVerify
  BY <1>3, RestoreCleans
<1>4. CASE Run
  <2>1. (\E s : StartDiscard("run", s)) \/ pc' \notin CleanPcs
    BY <1>4 DEF Run, Step, CleanPcs, RestorePcs, RemovePcs
  <2> QED BY <1>2, <2>1, DiscardStarts
<1>5. CASE RunCheck
  <2>1. PICK j \in Loads :
          \/ Loaded(j) /\ j.state = "COMMITTED" /\ StartRemove(j, "run")
          \/ pc' \notin CleanPcs
    BY <1>5, ReturnsNotClean DEF RunCheck, Loads
  <2>2. CASE Loaded(j) /\ j.state = "COMMITTED" /\ StartRemove(j, "run")
    <3>1. j = Latest /\ Latest' = Latest
      BY <1>1, <2>2, NewestLoaded DEF Latest
    <3> QED BY <2>2, <3>1, RemoveClean
  <2> QED BY <1>2, <2>1, <2>2
<1>6. CASE RestoreDone
  <2>1. pc = "restore" /\ i = 0 /\ (pc' \notin CleanPcs \/ (err = "ok" /\ pc' = "rmDirs" /\ jr' = jr))
    BY <1>6, ReturnsNotClean DEF RestoreDone, Loop
  <2>2. ASSUME err = "ok" PROVE Settled
    <3> SUFFICES ASSUME NEW c \in Cards, Carries(c), NEW v \in Valid PROVE Agrees(v, c)
      BY DEF Settled
    <3>1. c = inserted
      BY <2>1 DEF Carries, CardInv, Owner, OnCard, OnCardPc
    <3>2. Latest.entry = jr.entry
      BY <2>1 DEF RecoverInv, Restoring, RestorePcs
    <3>3. \A f \in Files : jr.entry[f] # "none" => file[inserted][f] = jr.entry[f]
      BY <2>1, <2>2 DEF CleanInv, PutBack, RestorePcs, Files
    <3>4. Grows(slot[v], Latest)
      BY DEF HeldInv, NowGrown
    <3> QED BY <3>1, <3>2, <3>3, <3>4 DEF Agrees, Grows
  <2>3. UNCHANGED file
    BY <1>6 DEF RestoreDone, card
  <2>4. err = "ok" => Settled'
    BY <1>1, <2>2, <2>3, SameSlots, SettledKept
  <2>5. jr.state # "COMMITTED"
    BY <2>1 DEF CleanInv, Cleaning, RestorePcs
  <2> QED BY <1>2, <2>1, <2>4, <2>5 DEF CleanInv, PutBack, Cleaning, RestorePcs, RemovePcs
<1>7. CASE RemoveDirectory
  <2>1. pc = "rmDirs" /\ UNCHANGED file /\ (pc' \notin CleanPcs \/ (pc' = "rmDirs" /\ jr' = jr))
    BY <1>7, ReturnsNotClean DEF RemoveDirectory, Loop
  <2>2. Settled' /\ jr.state # "COMMITTED"
    BY <1>1, <2>1, SameSlots, SettledKept DEF CleanInv, Cleaning
  <2> QED BY <1>2, <2>1, <2>2 DEF CleanInv, PutBack, Cleaning, RestorePcs, RemovePcs
<1>8. CASE RollbackDone
  <2>1. pc = "rmDirs" /\ UNCHANGED file /\ StartRemove(jr, "run")
    BY <1>8 DEF RollbackDone, card
  <2>2. Settled' /\ jr.state # "COMMITTED"
    BY <1>1, <2>1, SameSlots, SettledKept DEF CleanInv, Cleaning
  <2> QED BY <2>1, <2>2, RemoveClean
<1> QED BY <1>3, <1>4, <1>5, <1>6, <1>7, <1>8 DEF RunNext

LEMMA CleanStep ==
  ASSUME "read" \notin FaultKinds, "remove" \notin FaultKinds, SwapPoints \subseteq {"idle"},
         TypeInv, CardInv, JournalInv, RecoverInv, HeldInv, Emptied, CleanInv, [Next]_vars
  PROVE  CleanInv'
<1>1. CASE InstallNext
  <2>1. pc' \notin CleanPcs
    BY <1>1, ReturnsNotClean
    DEF InstallNext, Inventory, NoSpace, MakeDirectory, DirectoriesDone, SkipFile,
        Capture, FilesDone, Source, Wipe, WriteOpen, WriteData, Verify, Finish, Step, Loop,
        CleanPcs, RestorePcs, RemovePcs
  <2> QED BY <2>1, NotClean
<1>2. CASE UiInstall \/ UiRecover \/ UiRefresh \/ PowerCut \/ Boot \/ SwapCard
  <2>1. pc' \notin CleanPcs
    BY <1>2 DEF UiInstall, UiRecover, UiRefresh, Starts, PowerCut, Boot, Step, SwapCard, ctl,
       CleanPcs, RestorePcs, RemovePcs
  <2> QED BY <2>1, NotClean
<1>3. CASE UNCHANGED vars
  <2>1. UNCHANGED <<slot, token, marker, file, inserted, pc, by, jr, i, err, status>>
    BY <1>3 DEF vars, usb, card, ctl
  <2>2. Latest' = Latest /\ Valid' = Valid /\ (Settled => Settled')
        /\ (Uncaptured(1) => Uncaptured(1)')
    BY <2>1 DEF Latest, Valid, Settled, Agrees, Carries, Uncaptured
  <2> QED BY <2>1, <2>2 DEF CleanInv, PutBack, Cleaning
<1> QED
  BY <1>1, <1>2, <1>3, SaveClean, RemoveCleans, ProbeCleans, ArmCleans, RunCleans
  DEF Next, Program

-----------------------------------------------------------------------------
(* What card c shows of destination f to whoever runs the recovery.        *)
Seen(c, f) ==
  IF Undoing(c) /\ Latest.entry[f] # "none" THEN Latest.entry[f] ELSE file[c][f]
AsFile == \A c \in Cards, f \in Files : Seen(c, f) = file[c][f]

Enforced == opt.verify = "enforced"

AtomicInv == CommitInv /\ HeldInv /\ Spared /\ CleanInv /\ Emptied /\ Enforced

(* Cleaning up after a commit whose journal is in slot 0: journal0.bin is  *)
(* removed first, and uncovers the generation before it.                   *)
Uncovers == pc \in RemovePcs /\ jr.state = "COMMITTED" /\ SlotOf(jr.seq) = 0

-----------------------------------------------------------------------------
LEMMA EnforcedStep ==
  ASSUME VerifyModes \subseteq {"enforced"}, Enforced, [Next]_vars
  PROVE  Enforced'
<1>1. NoOptions.verify = "enforced"
  BY DEF NoOptions
<1>2. CASE opt' = opt \/ opt' = NoOptions
  BY <1>1, <1>2 DEF Enforced
<1>3. /\ \A s : ProbeReturns(s) => opt' = opt
      /\ \A s : InstallReturns(s) => opt' = NoOptions
      /\ \A r, s : RunReturns(r, s) => opt' = NoOptions
      /\ StartRollback => opt' = opt
      /\ \A j, c : StartSave(j, c) => opt' = opt
      /\ \A j, c : StartRemove(j, c) => opt' = opt
      /\ \A c : StartClear(c) => opt' = opt
      /\ \A c, s : StartDiscard(c, s) => opt' = opt
      /\ \A c : ArmFails(c) => opt' = opt
      /\ \A p : Step(p) => opt' = opt
      /\ \A p, n : Loop(p, n) => opt' = opt
      /\ \A e : RestoreNext(e) => opt' = opt
      /\ DropInstall => opt' = NoOptions
  BY DEF ProbeReturns, InstallReturns, RunReturns, StartRollback, StartSave, StartRemove,
     StartClear, StartDiscard, ArmFails, Step, Loop, RestoreNext, DropInstall
<1>4. \A r, s : DiscardReturns(r, s) => opt' = opt \/ opt' = NoOptions
  BY <1>3 DEF DiscardReturns
<1>5. \A r : ClearReturns(r) => opt' = opt \/ opt' = NoOptions
  BY <1>3, <1>4 DEF ClearReturns
<1>6. CASE SaveNext \/ RemoveNext
  BY <1>2, <1>3, <1>4, <1>6
  DEF SaveNext, SaveOpen, SaveWrite, SaveFails, RemoveNext, RemoveBackup, RemoveJournal0,
      RemoveJournal1
<1>7. CASE ClearNext \/ ProbeNext
  BY <1>2, <1>3, <1>4, <1>5, <1>7
  DEF ClearNext, ClearMarker, ClearRefused, ClearToken, ProbeNext, Probe, Reconcile,
      TryDiscard, DiscardEmptyJournal, DiscardToken
<1>8. CASE ArmNext
  BY <1>2, <1>3, <1>8
  DEF ArmNext, Begin, ArmCheck, ArmTokenOpen, ArmTokenWrite, ArmMarkerOpen, ArmMarkerWrite,
      ArmUndo, ArmDropMarker, ArmDropToken
<1>9. CASE InstallNext
  <2>1. CASE Inventory
    <3>1. opt' \in [preserve : BOOLEAN, verify : VerifyModes] \/ opt' = NoOptions
      BY <1>3, <2>1 DEF Inventory, NoSpace
    <3> QED BY <1>2, <3>1 DEF Enforced
  <2>2. CASE ~Inventory
    BY <1>2, <1>3, <1>9, <2>2
    DEF InstallNext, MakeDirectory, DirectoriesDone, SkipFile, Capture, FilesDone, Source, Wipe,
        WriteOpen, WriteData, Verify, Finish
  <2> QED BY <2>1, <2>2
<1>10. CASE RunNext
  BY <1>2, <1>3, <1>10
  DEF RunNext, Run, RunCheck, Restore, RestoreWrite, RestoreVerify, RestoreDone,
      RemoveDirectory, RollbackDone
<1>11. CASE UiInstall \/ UiRecover \/ UiRefresh \/ PowerCut \/ Boot \/ SwapCard \/ UNCHANGED vars
  BY <1>2, <1>3, <1>11
  DEF UiInstall, UiRecover, UiRefresh, Starts, PowerCut, Boot, SwapCard, ctl, vars
<1> QED BY <1>6, <1>7, <1>8, <1>9, <1>10, <1>11 DEF Next, Program

LEMMA AtomicInvariance ==
  ASSUME "read" \notin FaultKinds, "remove" \notin FaultKinds, SwapPoints \subseteq {"idle"},
         VerifyModes \subseteq {"enforced"}
  PROVE  Spec => [](TypeInv /\ CardInv /\ JournalInv /\ RecoverInv /\ AtomicInv)
<1>1. Init => AtomicInv
  <2> SUFFICES ASSUME Init PROVE AtomicInv
    OBVIOUS
  <2>1. pc = "idle" /\ by = "-" /\ opt = NoOptions /\ Valid = {}
    BY DEF Init, Valid, JournalValid, AbsentSlot, JournalStates
  <2> QED BY <2>1
      DEF AtomicInv, CommitInv, Preserved, Working, Done, HeldInv, NowGrown, SavesSame, Standing,
          Spared, SparedPc, InstallPc, CleanInv, PutBack, Cleaning, Emptied, Enforced, NoOptions,
          Saves, StandPcs, FileSteps, RestorePcs, SavePcs, RemovePcs, ArmPcs
<1>2. /\ TypeInv /\ CardInv /\ JournalInv /\ RecoverInv /\ AtomicInv
      /\ [Next]_vars
      => AtomicInv'
  <2> SUFFICES ASSUME TypeInv, CardInv, JournalInv, RecoverInv, AtomicInv, [Next]_vars
               PROVE  AtomicInv'
    OBVIOUS
  <2>1. CommitInv /\ HeldInv /\ Spared /\ CleanInv /\ Emptied /\ Enforced
    BY DEF AtomicInv
  <2>2. CommitInv' /\ HeldInv' /\ Emptied' /\ Enforced'
    BY <2>1, CommitStep, HeldStep, EmptiedStep, EnforcedStep
  <2>3. CleanInv'
    BY <2>1, CleanStep
  <2>4. Spared'
    BY <2>1, SparedStep DEF CleanInv, Cleaning
  <2> QED BY <2>2, <2>3, <2>4 DEF AtomicInv
<1> QED BY <1>1, <1>2, EndInvariance, PTL DEF Spec

-----------------------------------------------------------------------------
(* What a card shows, and what leaves it as it is.                         *)

LEMMA LogicalSeen == Logical = [c \in Cards |-> [f \in Files |-> Seen(c, f)]]
BY DEF Logical, Seen

LEMMA LogicalNext ==
  ASSUME \A c \in Cards, f \in Files : Seen(c, f)' = file[c][f]
  PROVE  Logical' = [c \in Cards |-> [f \in Files |-> file[c][f]]]
BY DEF Logical, Seen

LEMMA SeenSame ==
  ASSUME \A c \in Cards, f \in Files : Seen(c, f)' = Seen(c, f)
  PROVE  Logical' = Logical
BY DEF Logical, Seen

LEMMA SameLogical ==
  ASSUME UNCHANGED <<slot, token, marker, file>>
  PROVE  Logical' = Logical
BY DEF Logical, Undoing, Latest

LEMMA FileShown ==
  ASSUME AsFile, AsFile', UNCHANGED file
  PROVE  Logical' = Logical
BY SeenSame DEF AsFile

LEMMA Shows ==
  ASSUME Settled \/ Latest.state = "COMMITTED" \/ Uncaptured(1) \/ Valid = {}
  PROVE  AsFile
<1>1. CASE Latest.state = "COMMITTED"
  BY <1>1 DEF AsFile, Seen, Undoing
<1>2. CASE Settled
  <2> SUFFICES ASSUME NEW c \in Cards, NEW f \in Files, Undoing(c), Latest.entry[f] # "none"
               PROVE  Latest.entry[f] = file[c][f]
    BY DEF AsFile, Seen
  <2>1. JournalValid(Latest) /\ Carries(c)
    BY DEF Undoing, JournalValid, JournalStates, Carries
  <2>2. PICK s \in Valid : Latest = slot[s]
    BY <2>1, LatestSlot
  <2> QED BY <1>2, <2>1, <2>2 DEF Settled, Agrees
<1>3. Uncaptured(1) => Settled
  BY BlankSettled
<1>4. Valid = {} => Settled
  BY DEF Settled
<1> QED BY <1>1, <1>2, <1>3, <1>4

LEMMA ShownNext ==
  ASSUME UNCHANGED file,
         Settled \/ Latest.state = "COMMITTED" \/ Uncaptured(1) \/ Valid = {},
         (Settled \/ Latest.state = "COMMITTED" \/ Uncaptured(1) \/ Valid = {})'
  PROVE  Logical' = Logical
<1>1. AsFile /\ AsFile'
  BY Shows, PTL
<1> QED BY <1>1, FileShown

(* A destination whose entry stands does not show what is written to it.   *)
LEMMA WriteHidden ==
  ASSUME TypeInv, UNCHANGED <<slot, token, marker>>, i \in Files, Carries(inserted),
         JournalValid(Latest), Latest.state # "COMMITTED", Latest.entry[i] # "none",
         NEW x, PutFile(x) \/ file' = file
  PROVE  Logical' = Logical
<1>1. Latest' = Latest /\ \A c : Undoing(c)' = Undoing(c)
  BY DEF Latest, Undoing
<1>2. Undoing(inserted)
  BY DEF Undoing, Carries, JournalValid, JournalStates
<1>3. \A c \in Cards, f \in Files : ~(c = inserted /\ f = i) => file'[c][f] = file[c][f]
  BY DEF PutFile, TypeInv, TypeOK, CardsOK
<1>4. \A c \in Cards, f \in Files : Seen(c, f)' = Seen(c, f)
  BY <1>1, <1>2, <1>3 DEF Seen
<1> QED BY <1>4, SeenSame

LEMMA SaveShown ==
  ASSUME TypeInv, CardInv, JournalInv, RecoverInv, AtomicInv, pc \in SavePcs, SavedJournal,
         UNCHANGED <<token, marker, file>>, k # "finish"
  PROVE  Logical' = Logical
<1>1. Latest' = jr /\ JournalValid(jr) /\ (k # "arm" => JournalValid(Latest))
  BY SlotSaved
<1>2. CASE k = "arm"
  <2>1. Valid = {} /\ Uncaptured(1) /\ BlankFrom(jr, 1)
    BY <1>2 DEF RecoverInv, Saving
  <2>2. \A v \in Valid' : slot'[v] = jr
    BY <2>1, SlotSaved
  <2>3. Uncaptured(1)'
    BY <2>1, <2>2 DEF Uncaptured, BlankFrom
  <2> QED BY <2>1, <2>3, ShownNext
<1>3. CASE k # "arm"
  <2>1. jr.state # "COMMITTED" /\ Latest.state # "COMMITTED"
    BY <1>3 DEF RecoverInv, Saving, AtomicInv, HeldInv, Standing, StandPcs, Saves
  <2>2. \A c : (Undoing(c) <=> Carries(c)) /\ (Undoing(c)' <=> Carries(c))
    BY <1>1, <1>3, <2>1 DEF Undoing, Carries, JournalValid, JournalStates
  <2>3. Latest \in Journal /\ jr \in Journal /\ file \in [Cards -> [Files -> Content]]
        /\ inserted \in Cards
    BY LatestOfType DEF TypeInv, TypeOK, UsbOK, CtlOK, CardsOK, Latest
  <2>4. ASSUME NEW c \in Cards, NEW f \in Files PROVE Seen(c, f)' = Seen(c, f)
    <3>1. CASE ~Carries(c)
      BY <2>2, <3>1 DEF Seen
    <3>2. CASE Carries(c) /\ jr.entry[f] = Latest.entry[f]
      BY <1>1, <2>2, <3>2 DEF Seen
    <3>3. CASE Carries(c) /\ k = "source" /\ f = i
      <4>1. c = inserted
        BY <3>3 DEF CardInv, Owner, OnCard, OnCardPc, Carries
      <4>2. jr.entry[f] = file[c][f]
        BY <1>3, <2>3, <3>3, <4>1 DEF AtomicInv, HeldInv, SavesSame, Journal
      <4>3. Uncaptured(i)
        BY <3>3 DEF RecoverInv, Saving
      <4>4. Latest.entry[f] = "none"
        BY <1>1, <1>3, <3>3, <4>3, LatestSlot DEF Uncaptured, BlankFrom, Files
      <4>5. file[c][f] # "none"
        BY <2>3 DEF Content
      <4> QED BY <1>1, <2>2, <3>3, <4>2, <4>4, <4>5 DEF Seen
    <3>4. (k = "source" /\ f = i) \/ jr.entry[f] = Latest.entry[f]
      BY <1>3, <2>3 DEF AtomicInv, HeldInv, SavesSame, Journal
    <3> QED BY <3>1, <3>2, <3>3, <3>4
  <2> QED BY <2>4, SeenSame
<1> QED BY <1>2, <1>3

(* The step that completes the COMMITTED journal installs everything.      *)
LEMMA CommitShown ==
  ASSUME TypeInv, CardInv, JournalInv, RecoverInv, AtomicInv, Saves("finish"), SavedJournal,
         UNCHANGED <<token, marker, file>>
  PROVE  Atomic!AtomicNext
<1> DEFINE c == inserted
           kept == {f \in Files : Skipped(f)}
           row == [f \in Files |-> IF f \in kept THEN Logical[c][f] ELSE "new"]
<1>1. c \in Cards /\ Carries(c) /\ pc \in SavePcs /\ InstallPc
  BY DEF TypeInv, TypeOK, CardsOK, AtomicInv, Spared, Saves, InstallPc
<1>2. kept \in SUBSET Cnf
  BY DEF Skipped
<1>3. Latest' = jr /\ jr.state = "COMMITTED"
  BY <1>1, SlotSaved DEF RecoverInv, Saving, Saves
<1>4. AsFile'
  <2>1. (Settled \/ Latest.state = "COMMITTED" \/ Uncaptured(1) \/ Valid = {})'
    BY <1>3
  <2> QED BY <2>1, Shows, PTL
<1>5. \A d \in Cards, f \in Files : Logical[d][f] = Seen(d, f)
  BY LogicalSeen
<1>6. \A f \in kept : Logical[c][f] = file[c][f] /\ file[c][f] # "absent"
  <2>1. \A f \in kept : Latest.entry[f] = "none" /\ file[c][f] # "absent"
    BY <1>1 DEF AtomicInv, Spared, SparedPc
  <2> QED BY <1>1, <1>5, <2>1 DEF Seen
<1>7. \A f \in Files : f \notin kept => file[c][f] = "new"
  <2>1. Upto(NFiles + 1) /\ Enforced
    BY DEF AtomicInv, CommitInv, Done
  <2>2. \A f \in Files : f < NFiles + 1
    BY NFilesAssumption DEF Files
  <2>3. \A f \in Files : MustVerify(f)
    BY <2>1 DEF MustVerify, Enforced
  <2> QED BY <2>1, <2>2, <2>3 DEF Upto
<1>8. \A d \in Cards : d # c => ~Carries(d)
  <2>1. c = hist.card
    BY <1>1 DEF CardInv, Owner, Carries
  <2> QED BY <2>1 DEF CardInv, Owner, Carries
<1>9. \A d \in Cards, f \in Files : d # c => Seen(d, f) = file[d][f]
  BY <1>8 DEF Seen, Undoing, Carries
<1>10. \A d \in Cards, f \in Files : Seen(d, f)' = file[d][f]
  BY <1>4 DEF AsFile
<1>11. Logical' = [d \in Cards |-> [f \in Files |-> file[d][f]]]
  BY <1>10, LogicalNext
<1>12. \A f \in Files : file[c][f] = row[f]
  BY <1>6, <1>7
<1>13. \A d \in Cards, f \in Files : d # c => Logical[d][f] = file[d][f]
  BY <1>5, <1>9
<1>15. Logical = [d \in Cards |-> [f \in Files |-> Logical[d][f]]]
  BY LogicalSeen
<1>16. row = [f \in Files |-> row[f]]
  OBVIOUS
<1>17. Logical' = [Logical EXCEPT ![c] = row]
  <2> DEFINE L == Logical
  <2> HIDE DEF L, row, kept, c
  <2>1. \A d \in Cards : [f \in Files |-> file[d][f]] = IF d = c THEN row ELSE L[d]
    <3> SUFFICES ASSUME NEW d \in Cards
                 PROVE  [f \in Files |-> file[d][f]] = IF d = c THEN row ELSE L[d]
      OBVIOUS
    <3>1. CASE d = c
      BY <1>12, <1>16, <3>1
    <3>2. CASE d # c
      <4>1. L[d] = [f \in Files |-> L[d][f]]
        BY <1>15 DEF L
      <4>2. \A f \in Files : L[d][f] = file[d][f]
        BY <1>13, <3>2 DEF L
      <4> QED BY <3>2, <4>1, <4>2
    <3> QED BY <3>1, <3>2
  <2>2. L = [d \in Cards |-> L[d]]
    BY <1>15 DEF L
  <2>3. [L EXCEPT ![c] = row] = [d \in Cards |-> IF d = c THEN row ELSE L[d]]
    BY <2>2
  <2>4. [L EXCEPT ![c] = row] = [d \in Cards |-> [f \in Files |-> file[d][f]]]
    BY <2>1, <2>3
  <2> QED BY <1>11, <2>4 DEF L
<1>14. Atomic!AtomicCommit(c, kept)
  BY <1>6, <1>17 DEF Atomic!AtomicCommit
<1> QED BY <1>1, <1>2, <1>14 DEF Atomic!AtomicNext

-----------------------------------------------------------------------------
LEMMA SaveAtomic ==
  ASSUME TypeInv, CardInv, JournalInv, RecoverInv, AtomicInv, SaveNext
  PROVE  Logical' = Logical \/ Atomic!AtomicNext
<1>1. pc \in SavePcs /\ UNCHANGED <<token, marker, file>>
  BY DEF SaveNext, SaveOpen, SaveWrite, SaveFails, SavePcs, card
<1>2. CASE SaveOpen
  <2>1. CASE k = "arm"
    <3>1. Valid = {} /\ Valid' = {}
      BY <1>2, <2>1, SlotOpened
    <3> QED BY <1>1, <3>1, ShownNext
  <2>2. CASE k # "arm"
    <3>1. Latest' = Latest
      BY <1>2, <2>2, SlotOpened
    <3> QED BY <1>1, <3>1 DEF Logical, Undoing
  <2> QED BY <2>1, <2>2
<1>3. CASE SaveWrite \/ SaveFails
  <2>1. slot' = slot \/ SavedJournal
    BY <1>3 DEF SaveWrite, SaveFails
  <2> QED BY <1>1, <2>1, SameLogical, SaveShown, CommitShown DEF Saves
<1> QED BY <1>2, <1>3 DEF SaveNext

LEMMA RemoveAtomic ==
  ASSUME "remove" \notin FaultKinds, TypeInv, JournalInv, AtomicInv, RemoveNext
  PROVE  Logical' = Logical \/ Uncovers
<1>1. slot \in [Slots -> Journal] /\ jr \in Journal
  BY DEF TypeInv, TypeOK, UsbOK, CtlOK
<1>2. UNCHANGED <<token, marker, file>> /\ pc \in RemovePcs
  BY DEF RemoveNext, RemoveBackup, RemoveJournal0, RemoveJournal1, card, RemovePcs
<1>3. CASE RemoveBackup
  BY <1>2, <1>3, SameLogical DEF RemoveBackup
<1>4. CASE RemoveJournal0 \/ RemoveJournal1
  <2>1. PICK s \in Slots : slot' = [slot EXCEPT ![s] = AbsentSlot]
    BY <1>4 DEF RemoveJournal0, RemoveJournal1, Removed, Fault, Slots
  <2>2. \A v \in Valid' : v \in Valid /\ slot'[v] = slot[v]
    BY <1>1, <2>1, SlotsEmptied
  <2>3. CASE jr.state # "COMMITTED"
    <3>1. Settled /\ Settled'
      BY <1>2, <2>2, <2>3, SettledKept DEF AtomicInv, CleanInv, Cleaning
    <3> QED BY <1>2, <3>1, ShownNext
  <2>4. CASE jr.state = "COMMITTED" /\ SlotOf(jr.seq) = 1
    <3>1. JournalValid(jr) /\ ~JournalValid(AbsentSlot)
      BY <2>4 DEF JournalValid, JournalStates, AbsentSlot
    <3>2. CASE RemoveJournal0
      <4>1. Latest = jr
        BY <2>4, <3>2 DEF RemoveJournal0, AtomicInv, CleanInv, Cleaning
      <4>2. slot' = [slot EXCEPT ![0] = AbsentSlot]
        BY <3>2 DEF RemoveJournal0, Removed, Fault
      <4>3. slot[1] = jr
        <5>1. PICK v \in Valid : jr = slot[v]
          BY <3>1, <4>1, LatestSlot
        <5>2. v = 1
          BY <2>4, <5>1 DEF JournalInv, Parity, Valid
        <5> QED BY <5>1, <5>2
      <4>4. slot'[0] = AbsentSlot /\ slot'[1] = jr
        BY <1>1, <4>2, <4>3 DEF Slots
      <4>5. Latest' = jr
        BY <3>1, <4>4 DEF Latest, LatestOf
      <4> QED BY <1>2, <2>4, <4>1, <4>5, ShownNext
    <3>3. CASE RemoveJournal1
      <4>1. slot[0] = AbsentSlot /\ slot[1] = jr
        BY <2>4, <3>3 DEF RemoveJournal1, AtomicInv, CleanInv, Cleaning, Emptied
      <4>2. Latest = jr
        BY <3>1, <4>1 DEF Latest, LatestOf
      <4>3. Valid' = {}
        BY <3>3, JournalsRemoved DEF AtomicInv
      <4> QED BY <1>2, <2>4, <4>2, <4>3, ShownNext
    <3> QED BY <1>4, <3>2, <3>3
  <2>5. SlotOf(jr.seq) \in {0, 1}
    BY <1>1, NextSlot DEF Journal, Slots
  <2> QED BY <1>2, <2>3, <2>4, <2>5 DEF Uncovers
<1> QED BY <1>3, <1>4 DEF RemoveNext

LEMMA ClearAtomic ==
  ASSUME AtomicInv, ClearNext \/ ProbeNext
  PROVE  Logical' = Logical
<1>1. UNCHANGED <<slot, file>>
  BY DEF ClearNext, ProbeNext, ClearMarker, ClearRefused, ClearToken, Probe, Reconcile,
     TryDiscard, DiscardToken, usb, card
<1>2. Valid' = Valid /\ (Uncaptured(1) => Uncaptured(1)')
  BY <1>1 DEF Valid, Uncaptured
<1>3. CASE UNCHANGED <<token, marker>>
  BY <1>1, <1>3, SameLogical
<1>4. CASE ClearMarker \/ ClearToken
  <2>1. Valid = {}
    BY <1>4 DEF ClearMarker, ClearToken, AtomicInv, CleanInv, Cleaning
  <2> QED BY <1>1, <1>2, <2>1, ShownNext
<1>5. CASE DiscardToken
  <2>1. Uncaptured(1)
    BY <1>5 DEF DiscardToken, AtomicInv, CleanInv, Cleaning
  <2> QED BY <1>1, <1>2, <2>1, ShownNext
<1> QED BY <1>3, <1>4, <1>5
    DEF ClearNext, ProbeNext, ClearRefused, Probe, Reconcile, TryDiscard, usb, card

LEMMA ArmAtomic ==
  ASSUME RecoverInv, AtomicInv, ArmNext
  PROVE  Logical' = Logical
<1>1. UNCHANGED <<slot, file>>
  BY DEF ArmNext, Begin, ArmCheck, ArmTokenOpen, ArmTokenWrite, ArmMarkerOpen, ArmMarkerWrite,
     ArmUndo, ArmDropMarker, ArmDropToken, usb, card
<1>2. Uncaptured(1) => Uncaptured(1)'
  BY <1>1 DEF Valid, Uncaptured
<1>3. CASE Begin
  BY <1>1, <1>3, SameLogical DEF Begin, usb, card
<1>4. CASE ~Begin
  <2>1. Uncaptured(1)
    BY <1>4 DEF ArmNext, ArmCheck, ArmTokenOpen, ArmTokenWrite, ArmMarkerOpen, ArmMarkerWrite,
       ArmUndo, ArmDropMarker, ArmDropToken, RecoverInv, Arming, ArmPcs, AtomicInv, CleanInv,
       Cleaning
  <2> QED BY <1>1, <1>2, <2>1, ShownNext
<1> QED BY <1>3, <1>4

LEMMA InstallAtomic ==
  ASSUME TypeInv, CardInv, RecoverInv, AtomicInv, InstallNext
  PROVE  Logical' = Logical
<1>1. UNCHANGED <<slot, token, marker>>
  BY DEF InstallNext, Inventory, NoSpace, MakeDirectory, DirectoriesDone, SkipFile,
     Capture, FilesDone, Source, Wipe, WriteOpen, WriteData, Verify, Finish, usb, card
<1>2. CASE UNCHANGED file
  BY <1>1, <1>2, SameLogical
<1>3. CASE Wipe \/ WriteOpen \/ WriteData
  <2>1. pc \in {"wipe", "write", "writeData"} /\ (file' = file \/ \E x : PutFile(x))
    BY <1>3 DEF Wipe, WriteOpen, WriteData
  <2>2. i \in Files /\ JournalValid(Latest) /\ Latest.entry[i] # "none"
    BY <2>1 DEF TypeInv, IndexOK, FilePcs, RecoverInv, CapturedFirst
  <2>3. Carries(inserted)
    BY <2>1 DEF CardInv, OnCard, OnCardPc, CardMatches, Carries
  <2>4. Latest.state # "COMMITTED"
    BY <2>1 DEF AtomicInv, HeldInv, Standing, StandPcs, FileSteps, Saves, SavePcs
  <2> QED BY <1>1, <1>2, <2>1, <2>2, <2>3, <2>4, WriteHidden
<1> QED BY <1>2, <1>3
    DEF InstallNext, Inventory, MakeDirectory, DirectoriesDone, SkipFile, Capture, FilesDone,
        Source, Verify, Finish, card

LEMMA RunAtomic ==
  ASSUME TypeInv, CardInv, RecoverInv, AtomicInv, RunNext
  PROVE  Logical' = Logical
<1>1. UNCHANGED <<slot, token, marker>>
  BY DEF RunNext, Run, RunCheck, Restore, RestoreWrite, RestoreVerify, RestoreDone,
     RemoveDirectory, RollbackDone, usb, card
<1>2. CASE UNCHANGED file
  BY <1>1, <1>2, SameLogical
<1>3. CASE Restore \/ RestoreWrite \/ RestoreVerify
  <2>1. pc \in RestorePcs
    BY <1>3 DEF Restore, RestoreWrite, RestoreVerify, RestorePcs
  <2>2. JournalValid(Latest) /\ Latest.entry = jr.entry
    BY <2>1 DEF RecoverInv, Restoring
  <2>3. Carries(inserted)
    BY <2>1 DEF CardInv, OnCard, OnCardPc, CardMatches, Carries, RestorePcs
  <2>4. Latest.state # "COMMITTED"
    BY <2>1 DEF AtomicInv, HeldInv, Standing, StandPcs, RestorePcs, Saves, SavePcs
  <2>5. UNCHANGED file \/ ((\E x : PutFile(x)) /\ jr.entry[i] # "none" /\ i \in Files)
    <3>1. CASE Restore
      <4>1. i \in Files
        BY <3>1 DEF Restore, TypeInv, IndexOK, Files
      <4>2. file' = file \/ ((\E x : PutFile(x)) /\ jr.entry[i] # "none")
        BY <3>1 DEF Restore, HasBackup
      <4> QED BY <4>1, <4>2
    <3>2. CASE RestoreWrite \/ RestoreVerify
      <4>1. i \in Files /\ jr.entry[i] # "none"
        BY <3>2 DEF RestoreWrite, RestoreVerify, TypeInv, IndexOK, FilePcs, HasBackup
      <4> QED BY <3>2, <4>1 DEF RestoreWrite, RestoreVerify
    <3> QED BY <1>3, <3>1, <3>2
  <2> QED BY <1>1, <1>2, <2>2, <2>3, <2>4, <2>5, WriteHidden
<1> QED BY <1>2, <1>3
    DEF RunNext, Run, RunCheck, RestoreDone, RemoveDirectory, RollbackDone, card

LEMMA AtomicSteps ==
  ASSUME "remove" \notin FaultKinds, TypeInv, CardInv, JournalInv, RecoverInv, AtomicInv,
         [Next]_vars
  PROVE  Logical' = Logical \/ Atomic!AtomicNext \/ Uncovers
<1>1. CASE UiInstall \/ UiRecover \/ UiRefresh \/ PowerCut \/ Boot \/ SwapCard \/ UNCHANGED vars
  <2>1. UNCHANGED <<slot, token, marker, file>>
    BY <1>1 DEF UiInstall, UiRecover, UiRefresh, Starts, PowerCut, Boot, SwapCard, usb, card, vars
  <2> QED BY <2>1, SameLogical
<1> QED
  BY <1>1, SaveAtomic, RemoveAtomic, ClearAtomic, ArmAtomic, InstallAtomic, RunAtomic
  DEF Next, Program

LEMMA AtomicStart == TypeInv => Atomic!AtomicInit
<1> SUFFICES ASSUME TypeInv PROVE \A c \in Cards, f \in Files : Seen(c, f) \in Content
  BY LogicalSeen DEF Atomic!AtomicInit, Atomic!TypeOK
<1>1. Latest \in Journal /\ file \in [Cards -> [Files -> Content]]
  BY LatestOfType DEF TypeInv, TypeOK, UsbOK, CardsOK, Latest
<1>2. \A f \in Files : Latest.entry[f] \in Content \cup {"none"}
  BY <1>1 DEF Journal, Entry
<1> QED BY <1>1, <1>2 DEF Seen

(* A step that changes what a card logically holds installs everything at  *)
(* once (it completes the COMMITTED journal of FmcbRecoveryFinish()), or   *)
(* it is RemoveRecoveryFiles() cleaning up after a commit whose journal is *)
(* in slot 0, for every plan, set of cards and number of faults other than *)
(* an unreadable slot or a failing removal, with full verification and     *)
(* cards changed only at the menu.                                         *)
THEOREM InstallsAtOnce ==
  ASSUME "read" \notin FaultKinds, "remove" \notin FaultKinds, SwapPoints \subseteq {"idle"},
         VerifyModes \subseteq {"enforced"}
  PROVE  Spec => Atomic!AtomicInit /\ [][Atomic!AtomicNext \/ Uncovers]_Logical
<1>1. TypeInv /\ CardInv /\ JournalInv /\ RecoverInv /\ AtomicInv /\ [Next]_vars
      => [Atomic!AtomicNext \/ Uncovers]_Logical
  BY AtomicSteps
<1> QED BY <1>1, AtomicInvariance, AtomicStart, PTL DEF Spec

-----------------------------------------------------------------------------
(***************************************************************************)
(* Which slot the commit lands in: a transaction writes one generation     *)
(* when it begins, one for each directory and destination and one to       *)
(* commit, so without preserved destinations the number of the last one is *)
(* known, and with it the slot it is written to.                           *)
(***************************************************************************)
USE NFilesAssumption, NDirsAssumption

(* The number of the COMMITTED journal. *)
Total == NDirs + NFiles + 2

Counting ==
  /\ Saves("arm") => jr.seq = 1
  /\ pc \in ArmPcs \ {"undo"} => Latest.seq = 1
  /\ pc = "dirs" => i <= NDirs + 1 /\ Latest.seq = i
  /\ Saves("nextDir") => jr.seq = i + 1
  /\ pc = "files" => i <= NFiles + 1 /\ Latest.seq = NDirs + i
  /\ Saves("source") => jr.seq = NDirs + i + 1
  /\ pc \in FileSteps => Latest.seq = NDirs + i + 1
  /\ pc = "finish" => Latest.seq = NDirs + NFiles + 1
  /\ Saves("finish") => jr.seq = Total
Closing == pc \in RemovePcs /\ jr.state = "COMMITTED" => jr.seq = Total
Closed == \A s \in Valid : slot[s].state = "COMMITTED" => slot[s].seq = Total

CountPcs ==
  (ArmPcs \ {"undo"}) \cup SavePcs \cup FileSteps \cup RemovePcs \cup {"dirs", "files", "finish"}

-----------------------------------------------------------------------------
LEMMA NotCounting ==
  ASSUME pc' \notin CountPcs
  PROVE  Counting' /\ Closing'
BY DEF CountPcs, Counting, Closing, Saves

LEMMA ReturnsNotCounting ==
  /\ \A s : ProbeReturns(s) => pc' \notin CountPcs
  /\ \A s : InstallReturns(s) => pc' \notin CountPcs
  /\ \A r, s : RunReturns(r, s) => pc' \notin CountPcs
  /\ StartRollback => pc' \notin CountPcs
  /\ \A c : StartClear(c) => pc' \notin CountPcs
  /\ \A c, s : StartDiscard(c, s) => pc' \notin CountPcs
  /\ \A c : ArmFails(c) => pc' \notin CountPcs
BY DEF ProbeReturns, InstallReturns, RunReturns, StartRollback, StartClear, StartDiscard,
   ArmFails, CountPcs, ArmPcs, FileSteps, RemovePcs, SavePcs

LEMMA DiscardNotCounting ==
  ASSUME NEW r, NEW s, DiscardReturns(r, s)
  PROVE  pc' \notin CountPcs
BY ReturnsNotCounting DEF DiscardReturns, CountPcs, ArmPcs, FileSteps, RemovePcs, SavePcs

LEMMA ClearNotCounting ==
  ASSUME NEW r, ClearReturns(r)
  PROVE  pc' \notin CountPcs
BY ReturnsNotCounting, DiscardNotCounting
DEF ClearReturns, CountPcs, ArmPcs, FileSteps, RemovePcs, SavePcs

LEMMA LatestClosed ==
  ASSUME Closed
  PROVE  Latest.state = "COMMITTED" => Latest.seq = Total
BY LatestSlot DEF Closed, JournalValid, JournalStates

LEMMA LatestNumber ==
  ASSUME TypeInv
  PROVE  Latest \in Journal /\ Latest.seq \in Nat
BY LatestOfType DEF TypeInv, TypeOK, UsbOK, Latest, Journal

LEMMA SaveCounts ==
  ASSUME NEW x \in Journal, NEW c, StartSave(x, c), i \in Nat,
         c = "arm" => x.seq = 0,
         c = "nextDir" => x.seq = i,
         c = "source" => x.seq = NDirs + i,
         c = "finish" => x.seq = NDirs + NFiles + 1
  PROVE  Counting' /\ Closing'
<1>1. pc' = "save" /\ k' = c /\ i' = i /\ jr'.seq = x.seq + 1
  BY DEF StartSave, Journal
<1>2. x.seq \in Nat
  BY DEF Journal
<1>3. /\ c = "arm" => x.seq + 1 = 1
      /\ c = "nextDir" => x.seq + 1 = i + 1
      /\ c = "source" => x.seq + 1 = NDirs + i + 1
      /\ c = "finish" => x.seq + 1 = Total
  BY <1>2 DEF Total
<1> DEFINE n == x.seq + 1
<1> HIDE DEF n
<1>4. /\ pc' = "save" /\ k' = c /\ i' = i /\ jr'.seq = n
      /\ c = "arm" => n = 1
      /\ c = "nextDir" => n = i + 1
      /\ c = "source" => n = NDirs + i + 1
      /\ c = "finish" => n = Total
  BY <1>1, <1>3 DEF n
<1> QED
  BY <1>4 DEF Counting, Closing, Saves, SavePcs, ArmPcs, FileSteps, RemovePcs

LEMMA RemoveCounts ==
  ASSUME NEW x, NEW c, StartRemove(x, c), x.state = "COMMITTED" => x.seq = Total
  PROVE  Counting' /\ Closing'
BY DEF StartRemove, Counting, Closing, Saves, SavePcs, ArmPcs, FileSteps, RemovePcs

-----------------------------------------------------------------------------
LEMMA SaveClosed ==
  ASSUME TypeInv, JournalInv, RecoverInv, Counting, Closed, SaveNext
  PROVE  Closed'
<1>1. pc \in SavePcs
  BY DEF SaveNext, SaveOpen, SaveWrite, SaveFails, SavePcs
<1>2. CASE SaveOpen
  BY <1>2, SlotOpened DEF Closed
<1>3. CASE SavedJournal
  <2>1. jr.state = "COMMITTED" => jr.seq = Total
    BY <1>1 DEF RecoverInv, Saving, Counting, Saves
  <2> QED BY <1>1, <1>3, <2>1, SlotSaved DEF Closed
<1>4. CASE slot' = slot
  BY <1>4 DEF Closed, Valid
<1> QED BY <1>2, <1>3, <1>4 DEF SaveNext, SaveWrite, SaveFails

LEMMA SaveCounted ==
  ASSUME TypeInv, JournalInv, RecoverInv, Counting, SaveNext
  PROVE  Counting' /\ Closing'
<1>1. CASE SaveOpen
  <2>1. pc \in SavePcs /\ pc' = "saveWrite" /\ UNCHANGED <<k, jr, i>>
    BY <1>1 DEF SaveOpen, Step, SavePcs
  <2> QED
    BY <2>1 DEF Counting, Closing, Saves, SavePcs, ArmPcs, FileSteps, RemovePcs
<1>2. CASE SaveFails
  <2>1. pc' \notin CountPcs
    BY <1>2, ReturnsNotCounting
    DEF SaveFails, Step, CountPcs, ArmPcs, FileSteps, RemovePcs, SavePcs
  <2> QED BY <2>1, NotCounting
<1>3. CASE SaveWrite
  <2>1. pc \in SavePcs /\ Latest' = jr /\ i \in Nat
    BY <1>3, SlotSaved DEF SaveWrite, SavePcs, TypeInv, TypeOK, CtlOK
  <2>2. CASE k = "arm"
    <3>1. pc' = "arm" /\ jr.seq = 1
      BY <1>3, <2>1, <2>2 DEF SaveWrite, Counting, Saves
    <3> QED
      BY <2>1, <3>1 DEF Counting, Closing, Saves, SavePcs, ArmPcs, FileSteps, RemovePcs
  <2>3. CASE k = "nextDir"
    <3>1. pc' = "dirs" /\ i' = i + 1 /\ jr.seq = i + 1 /\ i \in Dirs
      BY <1>3, <2>1, <2>3 DEF SaveWrite, Counting, Saves, TypeInv, IndexOK
    <3>2. i' <= NDirs + 1
      BY <3>1 DEF Dirs
    <3> QED
      BY <2>1, <3>1, <3>2 DEF Counting, Closing, Saves, SavePcs, ArmPcs, FileSteps, RemovePcs
  <2>4. CASE k = "source"
    <3>1. pc' = "source" /\ i' = i /\ jr.seq = NDirs + i + 1
      BY <1>3, <2>1, <2>4 DEF SaveWrite, Counting, Saves
    <3> QED
      BY <2>1, <3>1 DEF Counting, Closing, Saves, SavePcs, ArmPcs, FileSteps, RemovePcs
  <2>5. CASE k = "restore"
    <3>1. pc' = "restore"
      BY <1>3, <2>5 DEF SaveWrite
    <3> QED
      BY <3>1, NotCounting DEF CountPcs, SavePcs, ArmPcs, FileSteps, RemovePcs
  <2>6. CASE k \in {"undoKeep", "undoDrop", "finish"}
    <3>1. StartRemove(jr, k)
      BY <1>3, <2>6 DEF SaveWrite
    <3>2. jr.state = "COMMITTED" => jr.seq = Total
      BY <2>1 DEF RecoverInv, Saving, Counting, Saves
    <3> QED BY <3>1, <3>2, RemoveCounts
  <2> QED BY <1>3, <2>2, <2>3, <2>4, <2>5, <2>6 DEF SaveWrite
<1> QED BY <1>1, <1>2, <1>3 DEF SaveNext

LEMMA CleanupCounted ==
  ASSUME "read" \notin FaultKinds, TypeInv, Closing, Closed, RemoveNext \/ ClearNext \/ ProbeNext
  PROVE  Counting' /\ Closing' /\ Closed'
<1>1. Closed'
  <2>1. slot \in [Slots -> Journal]
    BY DEF TypeInv, TypeOK, UsbOK
  <2>2. slot' = slot \/ \E s \in Slots : slot' = [slot EXCEPT ![s] = AbsentSlot]
    BY DEF RemoveNext, RemoveBackup, RemoveJournal0, RemoveJournal1, Removed, Slots, ClearNext,
       ProbeNext, ClearMarker, ClearRefused, ClearToken, Probe, Reconcile, TryDiscard,
       DiscardToken, usb
  <2>3. 0 \in Slots
    BY DEF Slots
  <2>4. \A v \in Valid' : v \in Valid /\ slot'[v] = slot[v]
    BY <2>1, <2>2, <2>3, SlotsEmptied
  <2> QED BY <2>4 DEF Closed
<1>2. CASE pc' \notin CountPcs
  BY <1>1, <1>2, NotCounting
<1>3. CASE RemoveBackup \/ RemoveJournal0
  <2>1. pc \in RemovePcs /\ pc' \in RemovePcs /\ jr' = jr
    BY <1>3 DEF RemoveBackup, RemoveJournal0, Loop, Step, RemovePcs
  <2> QED
    BY <1>1, <2>1 DEF Counting, Closing, Saves, SavePcs, ArmPcs, FileSteps, RemovePcs
<1>4. CASE RemoveJournal1
  BY <1>2, <1>4, ReturnsNotCounting, DiscardNotCounting
  DEF RemoveJournal1, Loop, CountPcs, ArmPcs, FileSteps, RemovePcs, SavePcs
<1>5. CASE ClearNext \/ Reconcile \/ DiscardToken
  BY <1>2, <1>5, ReturnsNotCounting, DiscardNotCounting, ClearNotCounting
  DEF ClearNext, ClearMarker, ClearRefused, ClearToken, Reconcile, DiscardToken, Step,
      CountPcs, ArmPcs, FileSteps, RemovePcs, SavePcs
<1>6. ASSUME NEW j, NEW c, Loaded(j), StartRemove(j, c)
      PROVE  Counting' /\ Closing'
  BY <1>6, NewestLoaded, LatestClosed, RemoveCounts
<1>7. CASE Probe
  BY <1>1, <1>2, <1>6, <1>7, ReturnsNotCounting
  DEF Probe, CountPcs, ArmPcs, FileSteps, RemovePcs, SavePcs
<1>8. CASE TryDiscard
  <2>1. ASSUME NEW c, DiscardEmptyJournal(c) PROVE Counting' /\ Closing'
    BY <1>2, <1>6, <2>1, DiscardNotCounting DEF DiscardEmptyJournal
  <2> QED BY <1>1, <1>2, <1>8, <2>1, DiscardNotCounting DEF TryDiscard
<1> QED BY <1>3, <1>4, <1>5, <1>7, <1>8 DEF RemoveNext, ProbeNext

-----------------------------------------------------------------------------
LEMMA StillClosed ==
  ASSUME Closed, UNCHANGED slot
  PROVE  Closed' /\ Latest' = Latest
BY DEF Closed, Valid, Latest

LEMMA ArmCounted ==
  ASSUME "read" \notin FaultKinds, TypeInv, RecoverInv, Counting, Closed, ArmNext
  PROVE  Counting' /\ Closing' /\ Closed'
<1>1. UNCHANGED slot
  BY DEF ArmNext, Begin, ArmCheck, ArmTokenOpen, ArmTokenWrite, ArmMarkerOpen, ArmMarkerWrite,
     ArmUndo, ArmDropMarker, ArmDropToken, usb
<1>2. Closed' /\ Latest' = Latest
  BY <1>1, StillClosed
<1>3. CASE pc' \notin CountPcs
  BY <1>2, <1>3, NotCounting
<1>4. CASE Begin
  <2>1. pc' \notin CountPcs \/ StartSave(EmptyJournal, "arm")
    BY <1>4, ReturnsNotCounting DEF Begin
  <2>2. EmptyJournal \in Journal /\ EmptyJournal.seq = 0 /\ i \in Nat
    BY JournalConstants DEF EmptyJournal, AbsentSlot, TypeInv, TypeOK, CtlOK
  <2> QED BY <1>2, <1>3, <2>1, <2>2, SaveCounts
<1>5. CASE ArmCheck \/ ArmTokenOpen \/ ArmTokenWrite \/ ArmMarkerOpen
  <2>1. \/ pc' \notin CountPcs
        \/ pc \in ArmPcs \ {"undo"} /\ pc' \in ArmPcs \ {"undo"}
    BY <1>5, ReturnsNotCounting
    DEF ArmCheck, ArmTokenOpen, ArmTokenWrite, ArmMarkerOpen, Step, ArmPcs
  <2>2. CASE pc \in ArmPcs \ {"undo"} /\ pc' \in ArmPcs \ {"undo"}
    BY <1>2, <2>2 DEF Counting, Closing, Saves, SavePcs, ArmPcs, FileSteps, RemovePcs
  <2> QED BY <1>3, <2>1, <2>2
<1>6. CASE ArmMarkerWrite
  <2>1. pc' \notin CountPcs \/ (pc' = "dirs" /\ i' = 1)
    BY <1>6, ReturnsNotCounting DEF ArmMarkerWrite, Loop
  <2>2. Latest.seq = 1 /\ 1 <= NDirs + 1
    BY <1>6 DEF ArmMarkerWrite, Counting, ArmPcs
  <2>3. CASE pc' = "dirs" /\ i' = 1
    BY <1>2, <2>2, <2>3 DEF Counting, Closing, Saves, SavePcs, ArmPcs, FileSteps, RemovePcs
  <2> QED BY <1>3, <2>1, <2>3
<1>7. CASE ArmUndo
  <2>1. k \in {"undoKeep", "undoDrop"} /\ i \in Nat
    BY <1>7 DEF ArmUndo, TypeInv, TypeOK, CtlOK, IndexOK
  <2>2. PICK j \in Loads :
          /\ Loaded(j)
          /\ \/ StartSave([j EXCEPT !.state = "ROLLING_BACK"], k)
             \/ pc' \notin CountPcs
    BY <1>7, ReturnsNotCounting
    DEF ArmUndo, Step, CountPcs, ArmPcs, FileSteps, RemovePcs, SavePcs
  <2> DEFINE x == [j EXCEPT !.state = "ROLLING_BACK"]
  <2>3. x \in Journal
    BY <2>2, LoadsType DEF TypeInv, TypeOK, Journal, JournalStates
  <2> HIDE DEF x
  <2>4. StartSave(x, k) \/ pc' \notin CountPcs
    BY <2>2 DEF x
  <2> QED BY <1>2, <1>3, <2>1, <2>3, <2>4, SaveCounts
<1>8. CASE ArmDropMarker \/ ArmDropToken
  BY <1>3, <1>8, ReturnsNotCounting
  DEF ArmDropMarker, ArmDropToken, Loop, CountPcs, ArmPcs, FileSteps, RemovePcs, SavePcs
<1> QED BY <1>4, <1>5, <1>6, <1>7, <1>8 DEF ArmNext

LEMMA InstallCounted ==
  ASSUME "read" \notin FaultKinds, Cnf = {}, TypeInv, Counting, Closed, InstallNext
  PROVE  Counting' /\ Closing' /\ Closed'
<1>1. UNCHANGED slot
  BY DEF InstallNext, Inventory, NoSpace, MakeDirectory, DirectoriesDone, SkipFile,
     Capture, FilesDone, Source, Wipe, WriteOpen, WriteData, Verify, Finish, usb
<1>2. Closed' /\ Latest' = Latest
  BY <1>1, StillClosed
<1>3. CASE pc' \notin CountPcs
  BY <1>2, <1>3, NotCounting
<1>4. i \in Nat /\ Latest \in Journal /\ Latest.seq \in Nat
  BY LatestNumber DEF TypeInv, TypeOK, CtlOK
<1>5. ASSUME NEW j, Loaded(j) PROVE j = Latest
  BY <1>5, NewestLoaded
<1>6. CASE Inventory
  BY <1>3, <1>6, ReturnsNotCounting
  DEF Inventory, NoSpace, CountPcs, ArmPcs, FileSteps, RemovePcs, SavePcs
<1>7. CASE MakeDirectory
  <2>1. pc = "dirs" /\ i \in Dirs
    BY <1>7 DEF MakeDirectory, TypeInv, IndexOK, UpPcs, TypeOK, CtlOK, Dirs
  <2>2. Latest.seq = i
    BY <2>1 DEF Counting
  <2> DEFINE x == Recorded(Latest, i, i \notin dir[inserted])
  <2>3. x \in Journal /\ x.seq = i
    BY <1>4, <2>1, <2>2, Changed
  <2> HIDE DEF x
  <2>4. pc' \notin CountPcs \/ StartSave(x, "nextDir")
    BY <1>5, <1>7, ReturnsNotCounting DEF MakeDirectory, x
  <2> QED BY <1>2, <1>3, <1>4, <2>3, <2>4, SaveCounts
<1>8. CASE DirectoriesDone
  <2>1. pc' = "files" /\ i' = 1 /\ i > NDirs /\ i <= NDirs + 1 /\ Latest.seq = i
    BY <1>8 DEF DirectoriesDone, Loop, Counting
  <2>2. Latest.seq = NDirs + 1 /\ 1 <= NFiles + 1
    BY <1>4, <2>1
  <2> QED
    BY <1>2, <2>1, <2>2 DEF Counting, Closing, Saves, SavePcs, ArmPcs, FileSteps, RemovePcs
<1>9. CASE SkipFile
  BY <1>9 DEF SkipFile, Skipped
<1>10. CASE Capture
  <2>1. pc = "files" /\ i \in Files
    BY <1>10 DEF Capture, TypeInv, IndexOK, UpPcs, TypeOK, CtlOK, Files
  <2>2. Latest.seq = NDirs + i
    BY <2>1 DEF Counting
  <2>3. file[inserted][i] \in Entry
    BY <2>1 DEF TypeInv, TypeOK, CardsOK, Entry
  <2> DEFINE x == [Latest EXCEPT !.entry[i] = file[inserted][i]]
  <2>4. x \in Journal /\ x.seq = NDirs + i
    BY <1>4, <2>1, <2>2, <2>3, Changed
  <2> HIDE DEF x
  <2>5. pc' \notin CountPcs \/ StartSave(x, "source")
    BY <1>5, <1>10, ReturnsNotCounting DEF Capture, x
  <2> QED BY <1>2, <1>3, <1>4, <2>4, <2>5, SaveCounts
<1>11. CASE FilesDone
  <2>1. pc' = "finish" /\ i > NFiles /\ i <= NFiles + 1 /\ Latest.seq = NDirs + i
    BY <1>11 DEF FilesDone, Loop, Counting
  <2>2. Latest.seq = NDirs + NFiles + 1
    BY <1>4, <2>1
  <2> QED
    BY <1>2, <2>1, <2>2 DEF Counting, Closing, Saves, SavePcs, ArmPcs, FileSteps, RemovePcs
<1>12. CASE Source \/ Wipe \/ WriteOpen \/ WriteData
  <2>1. pc \in FileSteps /\ (pc' \notin CountPcs \/ (pc' \in FileSteps /\ i' = i))
    BY <1>12, ReturnsNotCounting DEF Source, Wipe, WriteOpen, WriteData, Step, FileSteps
  <2>2. CASE pc' \in FileSteps /\ i' = i
    BY <1>2, <2>1, <2>2 DEF Counting, Closing, Saves, SavePcs, ArmPcs, FileSteps, RemovePcs
  <2> QED BY <1>3, <2>1, <2>2
<1>13. CASE Verify
  <2>1. pc' \notin CountPcs \/ (pc' = "files" /\ i' = i + 1)
    BY <1>13, ReturnsNotCounting DEF Verify, Loop
  <2>2. Latest.seq = NDirs + i + 1 /\ i \in Files
    BY <1>13 DEF Verify, Counting, FileSteps, TypeInv, IndexOK, FilePcs
  <2>3. i + 1 <= NFiles + 1 /\ NDirs + i + 1 = NDirs + (i + 1)
    BY <2>2 DEF Files
  <2>4. CASE pc' = "files" /\ i' = i + 1
    BY <1>2, <2>2, <2>3, <2>4
    DEF Counting, Closing, Saves, SavePcs, ArmPcs, FileSteps, RemovePcs
  <2> QED BY <1>3, <2>1, <2>4
<1>14. CASE Finish
  <2>1. Latest.seq = NDirs + NFiles + 1
    BY <1>14 DEF Finish, Counting
  <2> DEFINE x == [Latest EXCEPT !.state = "COMMITTED"]
  <2>2. x \in Journal /\ x.seq = NDirs + NFiles + 1
    BY <1>4, <2>1, Changed DEF JournalStates
  <2> HIDE DEF x
  <2>3. pc' \notin CountPcs \/ StartSave(x, "finish")
    BY <1>5, <1>14, ReturnsNotCounting DEF Finish, x
  <2> QED BY <1>2, <1>3, <1>4, <2>2, <2>3, SaveCounts
<1> QED
  BY <1>6, <1>7, <1>8, <1>9, <1>10, <1>11, <1>12, <1>13, <1>14 DEF InstallNext

LEMMA RunCounted ==
  ASSUME "read" \notin FaultKinds, TypeInv, CleanInv, Closed, RunNext
  PROVE  Counting' /\ Closing' /\ Closed'
<1>1. UNCHANGED slot
  BY DEF RunNext, Run, RunCheck, Restore, RestoreWrite, RestoreVerify, RestoreDone,
     RemoveDirectory, RollbackDone, usb
<1>2. Closed' /\ Latest' = Latest
  BY <1>1, StillClosed
<1>3. CASE pc' \notin CountPcs
  BY <1>2, <1>3, NotCounting
<1>4. i \in Nat /\ Latest \in Journal
  BY LatestNumber DEF TypeInv, TypeOK, CtlOK
<1>5. CASE RunCheck
  <2> DEFINE x == [Latest EXCEPT !.state = "ROLLING_BACK"]
  <2>1. x \in Journal
    BY <1>4, Changed DEF JournalStates
  <2> HIDE DEF x
  <2>2. \/ pc' \notin CountPcs \/ StartSave(x, "restore")
        \/ StartRemove(Latest, "run")
    BY <1>5, NewestLoaded, ReturnsNotCounting DEF RunCheck, x
  <2> QED BY <1>2, <1>3, <1>4, <2>1, <2>2, SaveCounts, RemoveCounts, LatestClosed
<1>6. CASE Run \/ Restore \/ RestoreWrite \/ RestoreVerify \/ RestoreDone
  BY <1>3, <1>6, ReturnsNotCounting
  DEF Run, Restore, RestoreWrite, RestoreVerify, RestoreDone, RestoreNext, Step, Loop, CountPcs,
      ArmPcs, FileSteps, RemovePcs, SavePcs
<1>7. CASE RemoveDirectory \/ RollbackDone
  <2>1. jr.state # "COMMITTED"
    BY <1>7 DEF RemoveDirectory, RollbackDone, CleanInv, Cleaning
  <2>2. pc' \notin CountPcs \/ \E c : StartRemove(jr, c)
    BY <1>7, ReturnsNotCounting
    DEF RemoveDirectory, RollbackDone, Loop, CountPcs, ArmPcs, FileSteps, RemovePcs, SavePcs
  <2> QED BY <1>2, <1>3, <2>1, <2>2, RemoveCounts
<1> QED BY <1>5, <1>6, <1>7 DEF RunNext

LEMMA CountStep ==
  ASSUME "read" \notin FaultKinds, Cnf = {}, TypeInv, JournalInv, RecoverInv, CleanInv,
         Counting, Closing, Closed, [Next]_vars
  PROVE  Counting' /\ Closing' /\ Closed'
<1>1. CASE SaveNext
  BY <1>1, SaveClosed, SaveCounted
<1>2. CASE RemoveNext \/ ClearNext \/ ProbeNext
  BY <1>2, CleanupCounted
<1>3. CASE ArmNext \/ InstallNext \/ RunNext
  BY <1>3, ArmCounted, InstallCounted, RunCounted
<1>4. CASE UiInstall \/ UiRecover \/ UiRefresh \/ PowerCut \/ Boot
  <2>1. UNCHANGED slot /\ pc' \notin CountPcs
    BY <1>4 DEF UiInstall, UiRecover, UiRefresh, Starts, PowerCut, Boot, Step, usb, CountPcs,
       ArmPcs, FileSteps, RemovePcs, SavePcs
  <2> QED BY <2>1, NotCounting, StillClosed
<1>5. CASE SwapCard \/ UNCHANGED vars
  <2>1. UNCHANGED <<slot, pc, k, jr, i>>
    BY <1>5 DEF SwapCard, usb, ctl, vars
  <2>2. Closed' /\ Latest' = Latest
    BY <2>1, StillClosed
  <2> QED BY <2>1, <2>2 DEF Counting, Closing, Saves
<1> QED BY <1>1, <1>2, <1>3, <1>4, <1>5 DEF Next, Program

(* The crash-safe installer implements AtomicInstall under the same         *)
(* conditions when it preserves no FREEMCB.CNF and writes an odd number of  *)
(* directories and destinations together: SaveJournal() then puts the       *)
(* COMMITTED journal in slot 1, and RemoveRecoveryFiles() removes slot 0    *)
(* before it, so that no earlier generation is uncovered.                   *)
THEOREM OddPlansInstallAtOnce ==
  ASSUME "read" \notin FaultKinds, "remove" \notin FaultKinds, SwapPoints \subseteq {"idle"},
         VerifyModes \subseteq {"enforced"}, Cnf = {}, (NDirs + NFiles) % 2 = 1
  PROVE  Spec => InstallIsAtomic
<1> DEFINE All == TypeInv /\ CardInv /\ JournalInv /\ RecoverInv /\ AtomicInv
           CountInv == Counting /\ Closing /\ Closed
<1>1. Init => CountInv
  <2> SUFFICES ASSUME Init PROVE CountInv
    OBVIOUS
  <2>1. pc = "idle" /\ Valid = {}
    BY DEF Init, Valid, JournalValid, AbsentSlot, JournalStates
  <2> QED BY <2>1 DEF Counting, Closing, Closed, Saves, SavePcs, ArmPcs, FileSteps, RemovePcs
<1>2. All /\ CountInv /\ [Next]_vars => CountInv'
  BY CountStep DEF AtomicInv
<1>3. CountInv => ~Uncovers
  <2>1. SlotOf(Total) = 1
    BY DEF SlotOf, Total
  <2> QED BY <2>1 DEF Uncovers, Closing
<1>4. All /\ CountInv /\ [Next]_vars => [Atomic!AtomicNext]_Logical
  BY <1>3, AtomicSteps
<1>5. Spec => []All
  BY AtomicInvariance
<1>6. TypeInv => Atomic!AtomicInit
  BY AtomicStart
<1> QED
  BY <1>1, <1>2, <1>4, <1>5, <1>6, PTL DEF Spec, InstallIsAtomic, Atomic!AtomicSpec
=============================================================================
