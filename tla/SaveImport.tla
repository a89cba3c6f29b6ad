----------------------------- MODULE SaveImport -----------------------------
(***************************************************************************)
(* Selective restore: MciImageFsImportSelected() of card_image_fs.c and    *)
(* the browser that starts it (app_main_v2.c).  The saves chosen in a card *)
(* image are copied, directory by directory and file by file, to the card  *)
(* in the port; a failure deletes what was created, in reverse.            *)
(***************************************************************************)
EXTENDS SaveMedia

CONSTANTS ImageSaves,     \* the saves of the image, in the order of its root
          ImageDir,       \* the names in each directory of the image, in order
          ImageData,      \* the contents of its files
          CreatedMax,     \* FS_IMPORT_CREATED_MAX
          MaxDepth        \* FS_MAX_DEPTH

ASSUME ImageAssumption == DOMAIN ImageDir \cap DOMAIN ImageData = {}
ASSUME TableAssumption == CreatedMax \in Nat /\ MaxDepth \in Nat

ImageTree == [p \in DOMAIN ImageDir \cup DOMAIN ImageData |->
                IF p \in DOMAIN ImageDir THEN Folder("source")
                ELSE Object(ImageData[p], "source")]
(* The image is a tree: its directories list what is in them, and nothing  *)
(* is below a file.                                                        *)
ASSUME ListingAssumption ==
    /\ \A s \in ToSet(ImageSaves) : <<s>> \in DOMAIN ImageDir
    /\ \A p \in DOMAIN ImageTree : IsPath(p)
    /\ \A d \in DOMAIN ImageDir : ImageDir[d] \in Seq(ToSet(ImageDir[d]))
    /\ \A d \in DOMAIN ImageDir : \A p \in DOMAIN ImageTree \ {d} :
          IsPrefix(d, p) =>
             \E i \in DOMAIN ImageDir[d] : IsPrefix(Append(d, ImageDir[d][i]), p)
    /\ \A f \in DOMAIN ImageData : \A p \in DOMAIN ImageTree : IsPrefix(f, p) => p = f

(* AccumulateDirectory(): the room a save takes, its directories included. *)
Required(s) == Cardinality(Subtree(ImageTree, s))
RequiredBy(S) == FoldSet(LAMBDA s, n : n + Required(s), 0, S)
TreeOf(S) == [p \in UNION {Subtree(ImageTree, s) : s \in S} |-> ImageTree[p]]
Scannable == \A p \in DOMAIN ImageDir : Len(p) <= MaxDepth + 1
Conflicts == {s \in ToSet(ImageSaves) : <<s>> \in DOMAIN Here}

-----------------------------------------------------------------------------
(* -------------------------- the image browser -------------------------- *)
(* The image is scanned to FS_MAX_DEPTH, the destination probed and its    *)
(* conflicts and free room shown; no answer leads back to the menu.        *)
Viewed(j) == [j EXCEPT !.pc = "browse", !.todo = <<>>, !.free = Free,
                       !.conflict = Conflicts]
OpenBrowser ==
    /\ op = "menu" /\ Scannable
    /\ \/ Reads /\ op' = "image" /\ job' = Viewed(NoJob)
       \/ ReadFails /\ UNCHANGED <<op, job>>
    /\ UNCHANGED inserted

(* L1 and R1: the destination is read again and the selection is cleared.  *)
RefreshDestination ==
    /\ op = "image" /\ job.pc \in {"browse", "selected"} /\ Stays
    /\ \/ Reads /\ job' = Viewed(job)
       \/ ReadFails /\ job' = [job EXCEPT !.pc = "browse", !.todo = <<>>]

(* SQUARE and TRIANGLE: what conflicts or no longer fits is not selected.  *)
(* The saves that are stay in the order of the list.                       *)
Selections == UNION {{c \in [1..n -> DOMAIN ImageSaves] : \A i, j \in 1..n : i < j => c[i] < c[j]} :
                  n \in 1..Len(ImageSaves)}
Chosen(c) == [i \in DOMAIN c |-> ImageSaves[c[i]]]
Select ==
    /\ At("image", "browse")
    /\ \E c \in Selections :
          /\ ToSet(Chosen(c)) \cap job.conflict = {} /\ RequiredBy(ToSet(Chosen(c))) <= job.free
          /\ job' = [job EXCEPT !.pc = "selected", !.todo = Chosen(c)]
    /\ UNCHANGED <<op, card, inserted, faults>>

Selected == ToSet(job.todo)

(* CROSS: the card is asked again, whatever the browser showed, and the    *)
(* image, which was scanned before, is opened.                             *)
CheckTarget ==
    /\ At("image", "selected")
    /\ \/ /\ Reads
          /\ IF Selected \cap Conflicts # {} THEN Refuse("conflict")
             ELSE IF RequiredBy(Selected) > Free THEN Refuse("full")
             ELSE job' = Starting(job, TreeOf(Selected)) /\ Stays
       \/ ReadFails /\ Refuse("unavailable")

-----------------------------------------------------------------------------
(* ------------------------------ the copy ------------------------------- *)
(* RecordCreated(): an object is recorded after it was made; the one that  *)
(* does not fit in the table is left out of the rollback.                  *)
RecordUnlessTop(j, p) ==
    IF Len(p) = 1 THEN j ELSE [j EXCEPT !.created = Append(@, p)]
RecordUnbounded(j, p) == [j EXCEPT !.created = Append(@, p)]
Record(j, p) ==
    IF Len(j.created) = CreatedMax THEN [Fails(j) EXCEPT !.full = TRUE]
    ELSE [j EXCEPT !.created = Append(@, p)]

Entered(j, p) == [j EXCEPT !.stack = Append(@, [dir |-> p, next |-> 1])]
MakeDirectory(p) ==
    /\ Runs(McMkDir(p),
            LAMBDA o : IF o.rc # Ok THEN Fails(job) ELSE Record(Entered(job, p), p))
    /\ Stays

Frame == Last(job.stack)
Entries == ImageDir[Frame.dir]
InDirectory == At("image", "walk") /\ job.stack # <<>>
NextEntry == Append(Frame.dir, Entries[Frame.next])
Advance(stack) == [stack EXCEPT ![Len(stack)].next = @ + 1]

EnterSave ==
    /\ At("image", "walk") /\ job.stack = <<>> /\ job.todo # <<>>
    /\ MakeDirectory(<<Head(job.todo)>>)

EnterDirectory ==
    /\ InDirectory /\ Frame.next <= Len(Entries)
    /\ NextEntry \in DOMAIN ImageDir /\ MakeDirectory(NextEntry)

(* ImportFile(): create, write, verify against the image, set the times.   *)
CreateFileUnrecorded ==
    /\ InDirectory /\ Frame.next <= Len(Entries)
    /\ NextEntry \in DOMAIN ImageData
    /\ Runs(McCreate(NextEntry),
            LAMBDA o : IF o.rc # Ok THEN Fails(job)
                       ELSE [job EXCEPT !.pc = "write", !.path = NextEntry])
    /\ Stays
CreateFile ==
    /\ InDirectory /\ Frame.next <= Len(Entries)
    /\ NextEntry \in DOMAIN ImageData
    /\ Runs(McCreate(NextEntry),
            LAMBDA o : IF o.rc # Ok THEN Fails(job)
                       ELSE Record([job EXCEPT !.pc = "write", !.path = NextEntry],
                                   NextEntry))
    /\ Stays

WriteFile ==
    /\ At("image", "write")
    /\ Runs(McWrite(job.path, ImageData[job.path]),
            LAMBDA o : IF o.rc = Ok THEN [job EXCEPT !.pc = "verify"] ELSE Fails(job))
    /\ Stays

VerifyImportedFile ==
    /\ At("image", "verify")
    /\ Runs(McSame(job.path, ImageData[job.path]),
            LAMBDA o : IF o.rc = Ok THEN [job EXCEPT !.pc = "stamp"] ELSE Fails(job))
    /\ Stays

StampFileUnchecked ==
    /\ At("image", "stamp")
    /\ Runs(McSetInfo(job.path),
            LAMBDA o : [job EXCEPT !.pc = "walk", !.stack = Advance(@)])
    /\ Stays
StampFile ==
    /\ At("image", "stamp")
    /\ Runs(McSetInfo(job.path),
            LAMBDA o : IF o.rc = Ok
                       THEN [job EXCEPT !.pc = "walk", !.stack = Advance(@)]
                       ELSE Fails(job))
    /\ Stays

(* The end of a directory: its times are set last, its parent goes on.     *)
Left(j) ==
    LET up == Front(j.stack) IN
    IF up = <<>> THEN [j EXCEPT !.stack = up, !.todo = Tail(@)]
    ELSE [j EXCEPT !.stack = Advance(up)]
LeaveDirectory ==
    /\ InDirectory /\ Frame.next > Len(Entries)
    /\ Runs(McSetInfo(Frame.dir),
            LAMBDA o : IF o.rc = Ok THEN Left(job) ELSE Fails(job))
    /\ Stays

ImportDone ==
    /\ At("image", "walk") /\ job.stack = <<>> /\ job.todo = <<>>
    /\ Refuse("ok") /\ UNCHANGED <<card, faults>>

(* RollbackCreated(): every recorded object, the last one first; an error  *)
(* does not stop the loop.                                                 *)
RollbackResult == IF job.rb = Ok THEN "failed" ELSE "rollbackFailed"
RollbackCreated ==
    /\ At("image", "rollback")
    /\ IF job.created = <<>>
       THEN Refuse(RollbackResult) /\ UNCHANGED <<card, faults>>
       ELSE /\ Runs(McDelete(Last(job.created)),
                    LAMBDA o : [job EXCEPT !.created = Front(@),
                                           !.rb = IF @ = Ok THEN o.rc ELSE @])
            /\ Stays

ImportNext ==
    \/ OpenBrowser \/ RefreshDestination \/ Select \/ CheckTarget
    \/ EnterSave \/ EnterDirectory \/ CreateFile \/ WriteFile
    \/ VerifyImportedFile \/ StampFile \/ LeaveDirectory \/ ImportDone
    \/ RollbackCreated
=============================================================================
