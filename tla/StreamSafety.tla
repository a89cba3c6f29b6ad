---------------------------- MODULE StreamSafety ----------------------------
(***************************************************************************)
(* What must hold of the streams and of the log beside them.               *)
(***************************************************************************)
EXTENDS ImageStream, SequencesExt

Exports == {"export", "format"}
Exporting == op.kind \in Exports /\ op.todo # <<>>

StreamTypeOK ==
    /\ fx.mode \in {"WAIT", "NOWAIT"} /\ fx.open \in Fds \cup {0}
    /\ fx.rpc.st \in {"none", "queued", "done"} /\ fx.last \in Fds \cup {0, Failed}
    /\ fx.pos \in 0..ImageUnits /\ fx.faults \in 0..MaxFaults /\ fx.shorts \in 0..MaxShorts
    /\ wb.depth \in 0..1 /\ wb.fill \in Slots /\ wb.async \in Slots \cup {NoSlot}
    /\ \A s \in Slots : wb.len[s] \in 0..BatchUnits
    /\ ra.depth \in 0..2 /\ ra.cur \in Slots \cup {NoSlot}
    /\ \A s \in Slots : ra.slot[s].off \in 0..Len(ra.slot[s].data)
    /\ log.pause \in 0..2 /\ Len(log.ring) <= RingLines /\ log.faults \in 0..LogFaults
    /\ build \in Builds /\ done \in 0..MaxOps

(* The batch keeps the contract of a plain stream of writes: the file is a *)
(* beginning of the accepted records at every moment, and a close that     *)
(* returns success has them all in the file, also when the IOP was still   *)
(* writing or had failed (image_write_behind.c:440, the close boundary).   *)
Promise == INSTANCE RecordStream WITH
    state <- IF ~Exporting THEN "closed"
             ELSE IF op.sealed THEN "complete"
             ELSE IF op.rc < 0 THEN "aborted"
             ELSE IF fx.open # 0 THEN "open" ELSE "closed",
    accepted <- IF ~Exporting \/ (op.rc < 0 /\ ~op.sealed) THEN 0
                ELSE IF op.sealed THEN ImageUnits
                ELSE op.pages * RecordUnits,
    stored <- IF Exporting THEN fx.file ELSE <<>>
StreamImplements == Promise!StreamSpec

(* A buffer the IOP has been given is not written by the EE until the IOP  *)
(* has served it, also after a poll that failed made the EE forget it; a   *)
(* buffer the IOP is filling is not the one being consumed.                *)
InFlight(kind) == fx.rpc.st = "queued" /\ fx.rpc.kind = kind
AsyncOwnsItsBuffer ==
    [][/\ InFlight("write") /\ fx'.rpc = fx.rpc
            => wb'.buf[fx.rpc.slot] = wb.buf[fx.rpc.slot]
       /\ InFlight("read") => ra.cur # fx.rpc.slot]_vars

(* Block mode is global: whenever no image descriptor is open the client   *)
(* waits and no request is outstanding, so that an open or the log never   *)
(* takes the answer of somebody else's request for its own.                *)
WaitBetweenImages == fx.open = 0 => fx.mode = "WAIT" /\ fx.rpc.st # "queued"

(* The records a verification or a restore reads are those of the file,    *)
(* from its beginning, in order, whatever refills, prefetches and short    *)
(* reads served them.  The one exception: in the build that prefetches     *)
(* reads, a restore that opens the verified image again may take the       *)
(* descriptor for the length of the prefetch that was left at the end of   *)
(* the verification (image_read_ahead.c:305); it then reads as many stale  *)
(* units first, and after them the file from its beginning, in order.      *)
ReadFaithful ==
    op.rc # BadEcc =>
        \/ op.got = SubSeq(fx.file, 1, Len(op.got))
        \/ /\ op.checked /\ build = "asyncread"
           /\ \E fd \in Fds : \A i \in DOMAIN op.got : i > fd => op.got[i] = fx.file[i - fd]

(* The card is formatted only when a complete image of it is on the stick. *)
FormatOnlyWithImage ==
    op.formatted /\ op.todo # <<>> => fx.file = Units(ImageUnits) /\ op.sealed

(* The log touches the stick only while no image file is open there and    *)
(* no request is outstanding (diag_wrap.c:222, the hardware finding).      *)
LogAlone ==
    [][log'.file # log.file \/ (log'.path /\ ~log.path)
         => fx.open = 0 /\ fx.rpc.st # "queued"]_vars

(* A line that was formatted is in the log file or still in the ring, or   *)
(* it is one of those the log admits to have dropped: those counted since  *)
(* the last notice, and those the notices in the file speak of.            *)
WholeIn(f) == {i \in DOMAIN f : f[i].whole}
Notices == {i \in DOMAIN log.file : log.file[i].dropped > 0}
Claims(f) == UNION {{i} \X (1..f[i].dropped) : i \in WholeIn(f)}
Admitted == log.dropped + Cardinality(Claims(log.file))
NoSilentLoss ==
    Cardinality((1..log.sequence) \ (log.notices \cup ToSet(log.ring)
                                     \cup {log.file[i].n : i \in WholeIn(log.file)}))
        <= Admitted

(* The whole lines of the file, the notices aside, are in the order they   *)
(* were formatted; only a line whose close failed may appear twice.        *)
LogInOrder ==
    \A i, j \in WholeIn(log.file) \ Notices : i < j => log.file[i].n <= log.file[j].n

(* An operation that was started ends: nothing waits for ever on a request *)
(* or on a scope.                                                          *)
OpEnds == (op.todo # <<>>) ~> (op.todo = <<>>)

(* The locator names the first record whose spare is wrong.                *)
LocatorNamesTheRecord == op.found # 0 => op.found = op.bad
=============================================================================
