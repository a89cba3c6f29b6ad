---------------------------- MODULE WriteBehind ----------------------------
(***************************************************************************)
(* image_write_behind.c: the batch of image records between the export and *)
(* the USB stick.  The release build writes a full batch synchronously; a  *)
(* lab build hands it to the IOP and fills the other buffer meanwhile.     *)
(***************************************************************************)
EXTENDS FileXio

CONSTANT Builds           \* subset of {"sync", "asyncwrite", "asyncread"}

VARIABLES wb,             \* the batch
          build           \* which of the builds this is

Slots == {0, 1}
NoSlot == -1
EmptyBuffer == [i \in 1..BatchUnits |-> 0]

WbInit == [depth |-> 0, fill |-> 0, fd |-> 0, async |-> NoSlot, expected |-> 0,
           len |-> [s \in Slots |-> 0], buf |-> [s \in Slots |-> EmptyBuffer]]

WbReset(w, slot) == [w EXCEPT !.wb.len[slot] = 0]
WbData(w, slot) == SubSeq(w.wb.buf[slot], 1, w.wb.len[slot])

(* ResetPipeline keeps the depth and the bytes of the buffers.             *)
ResetPipeline(w) ==
    SetMode([w EXCEPT !.wb.len = [s \in Slots |-> 0], !.wb.fill = 0, !.wb.fd = 0,
                      !.wb.async = NoSlot, !.wb.expected = 0], "WAIT")

(* FinishAsync: take the result of the request, write what the IOP left,   *)
(* free the buffer.  A failed poll gives the request up and leaves the     *)
(* slot as it is.                                                          *)
WbFinish(w) ==
    IF w.wb.async = NoSlot THEN {Ret(w, 0)}
    ELSE LET slot == w.wb.async
             Settle(x) ==
                LET v == SetMode([x EXCEPT !.wb.async = NoSlot], "WAIT") IN
                IF ~x.answered THEN {Ret(v, Failed)}
                ELSE IF x.rc <= 0 THEN {WbReset(Ret(v, Failed), slot)}
                ELSE {WbReset([y EXCEPT !.wb.expected = 0], slot) :
                        y \in WriteCalls(v, SubSeq(v.wb.buf[slot], 1, v.wb.expected), x.rc)}
         IN After(WaitAsync(w), Settle)

WbSubmit(w, slot) ==
    IF w.wb.async # NoSlot \/ w.wb.len[slot] = 0 THEN {Ret(w, Failed)}
    ELSE {IF x.rc < 0 THEN x
          ELSE [x EXCEPT !.wb.async = slot, !.wb.expected = w.wb.len[slot]] :
             x \in SubmitCall(w, "write", slot, w.wb.len[slot])}

FlushSameSlot(w, slot) ==
    LET Submit(x) == WbSubmit(x, slot) IN
    IF build = "asyncwrite" THEN {WbReset(x, slot) : x \in Then(WbFinish(w), Submit)}
    ELSE {WbReset(x, slot) : x \in WriteCalls(w, WbData(w, slot), 0)}
FlushFullSlot(w, slot) ==
    IF build = "asyncwrite"
    THEN LET Swap(x) == {WbReset([x EXCEPT !.wb.fill = 1 - slot], 1 - slot)}
             Submit(x) == Then(WbSubmit(x, slot), Swap)
         IN Then(WbFinish(w), Submit)
    ELSE {WbReset(x, slot) : x \in WriteCalls(w, WbData(w, slot), 0)}

WbDrain(w) == IF build = "asyncwrite" THEN {SetMode(x, "WAIT") : x \in WbFinish(w)}
              ELSE {Ret(w, 0)}

WbSetEnabled(w, on) ==
    IF on THEN {[(IF w.wb.depth = 0 THEN ResetPipeline(w) ELSE w) EXCEPT !.wb.depth = @ + 1]}
    ELSE IF w.wb.depth = 0 THEN {w}
    ELSE IF w.wb.depth > 1 THEN {[w EXCEPT !.wb.depth = @ - 1]}
    ELSE {[ResetPipeline(x) EXCEPT !.wb.depth = 0, !.rc = w.rc] : x \in WbDrain(w)}

(* Reserve: make the batch belong to this descriptor and make room.        *)
Reserve(w, fd) ==
    LET Forget(x) == {[WbReset(x, x.wb.fill) EXCEPT !.wb.fd = 0]}
        Claim(x) == {[x EXCEPT !.wb.fd = fd]}
        Room(x) == IF x.wb.len[x.wb.fill] + RecordUnits > BatchUnits
                   THEN FlushFullSlot(x, x.wb.fill) ELSE {x}
        Owned == IF w.wb.fd \notin {0, fd} THEN Then(WbDrain(w), Forget) ELSE {Ret(w, 0)}
    IN Then(Then(Owned, Claim), Room)

(* Commit: the record behind the batch is part of it now; flush when full. *)
Commit(w, fd, record) ==
    LET slot == w.wb.fill
        n == w.wb.len[slot]
        Put == [w EXCEPT !.wb.len[slot] = n + RecordUnits,
                         !.wb.buf[slot] = [i \in 1..BatchUnits |->
                             IF i \in (n + 1)..(n + RecordUnits) THEN record[i - n] ELSE @[i]]]
    IN IF w.wb.fd # fd \/ n + RecordUnits > BatchUnits THEN {Ret(w, Failed)}
       ELSE IF n + RecordUnits = BatchUnits THEN FlushFullSlot(Put, slot)
       ELSE {Ret(Put, 0)}

(* fileXioWrite as the program calls it: a record goes through the batch,  *)
(* anything else straight to the file after the outstanding batch.         *)
WrapWrite(w, fd, data) ==
    LET Copy(x) == Commit(x, fd, data)
        Direct(x) == WriteCalls(x, data, 0) IN
    IF w.wb.depth = 0 \/ Len(data) # RecordUnits THEN Then(WbDrain(w), Direct)
    ELSE Then(Reserve(w, fd), Copy)

WrapCloseNow(w) == CloseCall(w)
WrapCloseUndrained(w) == CloseCall(SetMode(w, "WAIT"))
(* fileXioClose as the program calls it: the outstanding batch first; a    *)
(* part of a batch is dropped.                                             *)
WrapClose(w) ==
    LET fd == w.fx.open
        Drop(x) == IF x.wb.fd = fd THEN [WbReset(x, x.wb.fill) EXCEPT !.wb.fd = 0] ELSE x
        Real(x) == {IF x.rc < 0 /\ y.rc >= 0 THEN Ret(y, x.rc) ELSE y :
                       y \in CloseCall(SetMode(x, "WAIT"))}
    IN IF w.wb.depth = 0 THEN Real(Ret(w, 0))
       ELSE After({Drop(x) : x \in WbDrain(w)}, Real)
=============================================================================
