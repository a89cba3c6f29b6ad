--------------------------- MODULE CardToolsSafety ---------------------------
(***************************************************************************)
(* What must hold of the save tools, the settings file and the KELF cache. *)
(***************************************************************************)
EXTENDS CardTools

Importing == op \in {"image", "import"}

(* The types.  The table of an image import is as long as                  *)
(* FS_IMPORT_CREATED_MAX (card_image_fs.c:610); that of a container never  *)
(* overflows: it holds no more than the container lists and its directory, *)
(* which is less than PSU_MAX_ENTRIES (save_transfer_psu.c:232, 274).      *)
ToolsTypeOK ==
    /\ op \in {"menu", "off", "image", "import", "export", "settings", "install"}
    /\ inserted \in Cards \cup {NoCard} /\ faults \in 0..MaxFaults
    /\ \A c \in Cards : \A p \in DOMAIN card[c] : card[c][p].meta \in {"fresh", "source"}
    /\ job.pc \in {"none", "browse", "selected", "confirm", "walk", "write", "verify",
                   "stamp", "rollback", "list", "copy", "remove", "done"}
    /\ \A n \in DOMAIN psu : psu[n].whole \in BOOLEAN
    /\ op = "image" => Len(job.created) <= CreatedMax
    /\ op = "import" => Len(job.created) <= Cardinality(DOMAIN Source.files) + 1
    /\ Len(pre) <= Len(Kelfs)

(* "A failed transaction rolls back only objects it created"               *)
(* (app_main_v2.c:262): an import that failed and reports no rollback      *)
(* error left the card as it found it, other saves included.  The one      *)
(* exception is a directory that was made when the table of created        *)
(* objects was full.                                                       *)
Unrecorded == IF job.full THEN {p \in DOMAIN Here : Len(p) = 1} \ DOMAIN job.before ELSE {}
RolledBackMeansAsBefore ==
    Importing /\ job.res = "failed" /\ inserted # NoCard
        => Drop(Here, Unrecorded) = job.before

(* PASS: the card holds the chosen saves as the source has them, files,    *)
(* directories and times, and everything it held before.                   *)
PassMeansCopied ==
    Importing /\ job.res = "ok" /\ inserted # NoCard => Here = job.want

(* No step of any tool removes or changes an object of any card that the   *)
(* job in hand has not recorded as created by itself                       *)
(* (save_transfer_psu.c:310-316, card_image_fs.c:706-711).                 *)
SavesKept ==
    [][\A c \in Cards : \A p \in DOMAIN card[c] :
         (p \notin DOMAIN card'[c] \/ card'[c][p] # card[c][p])
             => p \in ToSet(job.created)]_vars

(* An export neither changes, removes nor adds a .psu file but the one     *)
(* whose name it chose.  As long as no device failed since it began to     *)
(* choose (a card that is pulled and a save that is refused are no         *)
(* failures of a device), that name was not on the stick before, and an    *)
(* export that ends without success leaves the stick as it found it.  A    *)
(* failed stat may cost the file that has the name (app_main_v2.c:208), a  *)
(* failed removal leaves a part of one (save_transfer_psu.c:837).          *)
ExportKeepsFiles ==
    op = "export" =>
        /\ Drop(psu, {job.file}) = Drop(job.kept, {job.file})
        /\ faults = job.begun =>
              /\ job.file \notin DOMAIN job.kept
              /\ job.res \notin {"none", "ok"} => psu = job.kept

(* PASS: the container is complete and every file in it is the card's.     *)
ExportedEqualsCard ==
    op = "export" /\ job.res = "ok" =>
        psu[job.file] = Container(Exported, job.want, TRUE)

(* What the transaction writes for a KELF is the binding of the bytes it   *)
(* read from the stick, to the card it writes.                             *)
BoundFromPackage == \A i \in DOMAIN wrote : wrote[i].bound = wrote[i].want

(* A transaction is refused for want of a bound source only if the file    *)
(* on the stick is not the one the preflight bound.                        *)
MissMeansRewritten ==
    [][kpc'[1] = "missed" /\ kpc[1] = "write"
         => \E k \in DOMAIN pre : /\ pre[k].source = Targets[kpc[2]]
                                  /\ pre[k].raw # package[Targets[kpc[2]]]]_vars

(* Whatever fails, an operation that runs comes back to the user.          *)
ToolEnds == Running ~> ~Running
=============================================================================
