----------------------------- MODULE ReadAhead -----------------------------
(***************************************************************************)
(* image_read_ahead.c: records of a sequential image stream served from a  *)
(* refill buffer.  The release build refills synchronously; a lab build    *)
(* lets the IOP fill a second buffer while the EE consumes the first.      *)
(***************************************************************************)
EXTENDS WriteBehind

VARIABLE ra

EmptySlot == [data |-> <<>>, off |-> 0]
RaInit == [depth |-> 0, fd |-> 0, cur |-> NoSlot, async |-> NoSlot, ready |-> NoSlot,
           disabled |-> FALSE, slot |-> [s \in Slots |-> EmptySlot]]

ResetCacheState(w) == [w EXCEPT !.ra = [RaInit EXCEPT !.depth = w.ra.depth]]
Remaining(w, s) == Len(w.ra.slot[s].data) - w.ra.slot[s].off
Unread(w, s) == SubSeq(w.ra.slot[s].data, w.ra.slot[s].off + 1, Len(w.ra.slot[s].data))
TakeAgain(w, s, n) == [w EXCEPT !.rc = n, !.out = @ \o SubSeq(Unread(w, s), 1, n)]
Take(w, s, n) == [w EXCEPT !.rc = n, !.out = @ \o SubSeq(Unread(w, s), 1, n),
                           !.ra.slot[s].off = @ + n]

(* FillSyncAtLeast: refill a slot with at least one record.                *)
FillSync(w, s) ==
    {[x EXCEPT !.ra.slot[s] = [data |-> x.raw, off |-> 0],
               !.rc = IF x.raw = <<>> THEN x.rc ELSE Len(x.raw)] :
        x \in ReadCalls(w, RecordUnits, BatchUnits)}

(* What the first k bytes of a refill buffer are: what the request put     *)
(* there, and behind it bytes of an earlier refill, which are no units of  *)
(* the image (numbers below 1).                                            *)
Held(data, k) == [i \in 1..k |-> IF i <= Len(data) THEN data[i] ELSE i - k]

(* FinishAsync: the refill of the other slot is ready, as long as the wait *)
(* says, empty at the end of the file; a failure, and a length no refill   *)
(* can have, drops it.                                                     *)
RaFinish(w) ==
    IF w.ra.async = NoSlot THEN {Ret(w, 0)}
    ELSE {LET s == w.ra.async
              v == SetMode([x EXCEPT !.ra.async = NoSlot], "WAIT") IN
          IF x.answered /\ x.rc \in 0..BatchUnits
          THEN [v EXCEPT !.ra.ready = s,
                         !.ra.slot[s] = [data |-> Held(@.data, x.rc), off |-> 0]]
          ELSE Ret([v EXCEPT !.ra.slot[s] = EmptySlot], Failed) :
             x \in WaitAsync(w)}

(* SubmitAsync never fails: a refused request ends the speculation.        *)
RaSubmit(w, s) ==
    IF w.ra.disabled \/ w.ra.async # NoSlot \/ w.ra.ready # NoSlot THEN {w}
    ELSE {IF x.rc < 0 THEN [x EXCEPT !.ra.disabled = TRUE, !.rc = w.rc]
          ELSE [x EXCEPT !.ra.async = s, !.rc = w.rc] :
             x \in SubmitCall([w EXCEPT !.ra.slot[s] = EmptySlot], "read", s, BatchUnits)}

RaDrain(w) ==
    IF build = "asyncread"
    THEN {Ret(SetMode(x, "WAIT"), Lesser(x.rc, 0)) : x \in RaFinish(w)}
    ELSE {Ret(w, 0)}

RaSetEnabled(w, on) ==
    IF on THEN {[(IF w.ra.depth = 0 THEN ResetCacheState(w) ELSE w) EXCEPT !.ra.depth = @ + 1]}
    ELSE IF w.ra.depth = 0 THEN {w}
    ELSE IF w.ra.depth > 1 THEN {[w EXCEPT !.ra.depth = @ - 1]}
    ELSE {[ResetCacheState(x) EXCEPT !.ra.depth = 0, !.rc = w.rc] : x \in RaDrain(w)}

(* The release build: what is left of the slot moves to its front and is   *)
(* topped up; a short tail of the file is served as it is.                 *)
SyncRead(w, fd) ==
    LET v == IF w.ra.fd # fd THEN [ResetCacheState(w) EXCEPT !.ra.fd = fd] ELSE w
        left == Unread(v, 0)
        Serve(x) == Take(x, 0, Lesser(RecordUnits, Remaining(x, 0)))
        Refill(x) == LET y == [x EXCEPT !.ra.slot[0] = [data |-> left \o x.raw, off |-> 0]] IN
                     IF left \o x.raw = <<>> THEN y ELSE Serve(y)
    IN IF Len(left) >= RecordUnits THEN {Serve(v)}
       ELSE {Refill(x) : x \in ReadCalls(v, RecordUnits - Len(left), BatchUnits - Len(left))}

(* The lab build at the end of a slot: on to the refill that is ready, or  *)
(* a synchronous one.                                                      *)
NextSlot(w) ==
    LET old == w.ra.cur
        Swap(x) ==
            LET s == x.ra.ready
                y == [x EXCEPT !.ra.ready = NoSlot, !.ra.cur = s, !.ra.slot[old] = EmptySlot]
            IN IF x.ra.slot[s].data = <<>> THEN {Ret(y, 0)} ELSE RaSubmit(Ret(y, 1), old)
        Prefetch(x) == IF x.rc <= 0 THEN {x} ELSE RaSubmit(x, 1 - old)
        Go(x) == IF x.ra.ready # NoSlot THEN Swap(x) ELSE After(FillSync(x, old), Prefetch)
    IN Then(RaFinish(w), Go)

(* The lab build when a record crosses two refills: the tail, the refill   *)
(* that is ready, and the file for what is still missing.                  *)
JoinSlots(w) ==
    LET old == w.ra.cur
        n == Remaining(w, old)
        Direct(x, have) ==    \* the rest of the record straight from the file
            {LET all == have + Len(y.raw) IN
             [y EXCEPT !.out = @ \o y.raw, !.rc = all] :
                y \in ReadCalls(x, RecordUnits - have, RecordUnits - have)}
        Drop(x, s) == [x EXCEPT !.ra.slot[s] = EmptySlot, !.ra.cur = NoSlot]
        NoRefill(x) == {IF y.rc = RecordUnits THEN Drop(y, old) ELSE y : y \in Direct(x, n)}
        Joined(x) ==
            LET s == x.ra.ready
                k == Lesser(Remaining(x, s), RecordUnits - n)
                y == [Take(x, s, k) EXCEPT !.ra.ready = NoSlot, !.ra.cur = s,
                                           !.ra.slot[old] = EmptySlot, !.rc = n + k]
            IN IF n + k = RecordUnits THEN RaSubmit(y, old)
               ELSE IF x.ra.slot[s].data = <<>> THEN {y}
               ELSE {IF z.rc = RecordUnits /\ Remaining(z, s) = 0 THEN Drop(z, s) ELSE z :
                        z \in Direct(y, n + k)}
        Go(x) == IF x.ra.ready = NoSlot THEN NoRefill(x) ELSE Joined(x)
    IN Then(RaFinish(Take(w, old, n)), Go)

AsyncRead(w, fd) ==
    LET Switch == IF w.ra.fd # fd
                  THEN {IF x.rc < 0 THEN x ELSE [ResetCacheState(x) EXCEPT !.ra.fd = fd] :
                           x \in RaDrain(w)}
                  ELSE {Ret(w, 0)}
        First(x) ==      \* the first refill is synchronous
            {IF y.rc <= 0 THEN y ELSE [y EXCEPT !.ra.cur = 0] : y \in FillSync(x, 0)}
        Prefetch(x) == IF x.rc <= 0 THEN {x} ELSE RaSubmit(x, 1)
        Ensure(x) == IF x.ra.cur = NoSlot THEN After(First(x), Prefetch)
                     ELSE IF Remaining(x, x.ra.cur) = 0 THEN NextSlot(x)
                     ELSE {Ret(x, 1)}
        Serve(x) == IF x.rc <= 0 THEN {x}
                    ELSE IF Remaining(x, x.ra.cur) >= RecordUnits
                    THEN {Take(x, x.ra.cur, RecordUnits)}
                    ELSE JoinSlots(x)
    IN After(Then(Switch, Ensure), Serve)

(* fileXioRead as the program calls it, for n units.                       *)
WrapRead(w, n) ==
    LET Direct(x) == {[y EXCEPT !.out = @ \o y.raw] : y \in ReadCalls(x, n, n)} IN
    IF w.ra.depth = 0 THEN Direct(w)
    ELSE IF n # RecordUnits THEN Then(RaDrain(w), Direct)
    ELSE IF build = "asyncread" THEN AsyncRead(w, w.fx.open)
    ELSE SyncRead(w, w.fx.open)

(* ReadExact of the image engine: a short answer is followed by a read of  *)
(* the rest, which is not a record and goes past the cache.                *)
ReadExact(w) ==
    LET Rest(x) ==
        IF x.rc = RecordUnits THEN {Ret(x, 0)}
        ELSE IF x.rc <= 0 THEN {Ret(x, Failed)}
        ELSE {IF y.rc = RecordUnits - x.rc THEN Ret(y, 0) ELSE Ret(y, Failed) :
                 y \in WrapRead(x, RecordUnits - x.rc)}
    IN After(WrapRead([w EXCEPT !.out = <<>>], RecordUnits), Rest)
=============================================================================
