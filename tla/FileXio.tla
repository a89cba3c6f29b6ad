------------------------------ MODULE FileXio ------------------------------
(***************************************************************************)
(* The fileXio client of the EE as the image code uses it: one image       *)
(* descriptor open at a time, one block mode for the whole client, and at  *)
(* most one request accepted in NOWAIT mode.  The IOP serves requests in   *)
(* the order they were made, so a synchronous call made while a request is *)
(* outstanding returns after it.                                           *)
(*                                                                         *)
(* A call is a set of outcomes.  An outcome is a world: the record of the  *)
(* client (fx), the write batch (wb), the read cache (ra), the call's      *)
(* result (rc) and the data it handed out (out, raw).  In a call that has  *)
(* to wait the IOP serves first.  Data is a sequence of units; an image    *)
(* record is RecordUnits units, so a transfer may end inside one.          *)
(***************************************************************************)
EXTENDS Integers, Sequences, FiniteSets

CONSTANTS RecordUnits,    \* units of one 512/528-byte record
          BatchUnits,     \* units of one write batch and of one read refill
          ImageUnits,     \* units of a complete image
          Fds,            \* descriptors an open may return
          MaxFaults,      \* failures of the USB side in one behaviour
          MaxShorts       \* short transfers in one behaviour

ASSUME FileXioAssumption ==
    /\ RecordUnits \in Nat \ {0} /\ BatchUnits \in Nat \ {0}
    /\ BatchUnits % RecordUnits = 0
    /\ ImageUnits \in Nat \ {0} /\ ImageUnits % BatchUnits = 0
    /\ Fds \subseteq Nat \ {0} /\ Fds # {}
    /\ MaxFaults \in Nat /\ MaxShorts \in Nat

VARIABLE fx   \* mode, rpc, what the last call left, the open file and its position

Failed == -1
BadEcc == -4          \* the verifier's code for a record with a wrong spare
Units(n) == [i \in 1..n |-> i]        \* the first n units of the image
Lesser(a, b) == IF a <= b THEN a ELSE b

NoRequest == [st |-> "none"]
FxInit(faults) == [mode |-> "WAIT", rpc |-> NoRequest, last |-> 0, open |-> 0, pos |-> 0,
                   file |-> <<>>, faults |-> faults, shorts |-> MaxShorts]

Ret(w, rc) == [w EXCEPT !.rc = rc]
SetMode(w, m) == [w EXCEPT !.fx.mode = m]
Fault(w) == [w EXCEPT !.rc = Failed, !.fx.faults = @ - 1]
Busy(w) == w.fx.rpc.st = "queued"
(* A request that was made and whose answer nobody asked for any more.     *)
Served(w) == [w EXCEPT !.fx.rpc = NoRequest]

(* The IOP serves the outstanding request with the bytes the buffer holds  *)
(* now, or fills the buffer it was given.                                  *)
ServeRequest(w) ==
    LET r == w.fx.rpc
        most == IF r.kind = "write" THEN r.len ELSE Lesser(r.len, Len(w.fx.file) - w.fx.pos)
        Result(k) == [w EXCEPT !.fx.rpc = [st |-> "done", kind |-> r.kind, slot |-> r.slot,
                                           len |-> r.len, result |-> k]]
        Moved(k) == IF r.kind = "write"
                    THEN [Result(k) EXCEPT !.fx.file = @ \o SubSeq(w.wb.buf[r.slot], 1, k)]
                    ELSE [Result(k) EXCEPT !.fx.pos = @ + k,
                             !.ra.slot[r.slot].data = SubSeq(w.fx.file, w.fx.pos + 1, w.fx.pos + k)]
    IN {Moved(most)}
       \cup {[Moved(k) EXCEPT !.fx.shorts = @ - 1] :
               k \in {n \in 1..(most - 1) : w.fx.shorts > 0}}
       \cup {[Result(Failed) EXCEPT !.fx.faults = @ - 1] : n \in 1..w.fx.faults}

(* A synchronous call waits for the outstanding request.                   *)
Idle(w) == {Served(v) : v \in IF Busy(w) THEN ServeRequest(w) ELSE {w}}

(* Sequential composition: the second call only after a successful first.  *)
Then(S, F(_)) == UNION {IF x.rc < 0 THEN {x} ELSE F(x) : x \in S}
(* Sequential composition whatever the first call returned.                *)
After(S, F(_)) == UNION {F(x) : x \in S}

(* The client has one completion state: the answer of whatever it called   *)
(* last.  A wait for a request that an open or a close has already waited  *)
(* out finds theirs; no other synchronous call is followed by such a wait. *)
Answers(w, rc) == [w EXCEPT !.rc = rc, !.fx.last = rc]
Refuse(w) == Answers(Fault(w), Failed)

(* The descriptor is what open returns.                                    *)
OpenCall(w, fd, contents) ==
    LET Open(v) == {[Answers(v, fd) EXCEPT !.fx.open = fd, !.fx.pos = 0, !.fx.file = contents]}
                   \cup {Refuse(v) : n \in 1..v.fx.faults}
    IN After(Idle(w), Open)

(* The descriptor is gone whatever close returns.                          *)
CloseCall(w) ==
    LET Closed(v) == [Answers(v, 0) EXCEPT !.fx.open = 0]
        Close(v) == {Closed(v)} \cup {Refuse(Closed(v)) : n \in 1..v.fx.faults}
    IN After(Idle(w), Close)

(* A loop of writes until the data from offset on is out, or one fails.    *)
WriteCalls(w, data, offset) ==
    LET Upto(v, j) == [SetMode(v, "WAIT") EXCEPT
                          !.fx.file = @ \o SubSeq(data, offset + 1, j)]
        Write(v) == {Ret(Upto(v, Len(data)), 0)}
                    \cup {Fault(Upto(v, j)) :
                            j \in {n \in offset..(Len(data) - 1) : v.fx.faults > 0}}
    IN After(Idle(w), Write)

(* A loop of reads into a buffer of size room until at least least units   *)
(* are there, the file ends (rc 0) or a read fails; raw is what was read.  *)
ReadCalls(w, least, room) ==
    LET Got(v, k, rc) == [SetMode(v, "WAIT") EXCEPT !.rc = rc, !.fx.pos = @ + k,
                             !.raw = SubSeq(v.fx.file, v.fx.pos + 1, v.fx.pos + k)]
        Read(v) ==
            LET avail == Len(v.fx.file) - v.fx.pos
                most == Lesser(room, avail) IN
            IF avail < least THEN {Got(v, avail, 0)}
                                  \cup {Fault(Got(v, k, 0)) : k \in {n \in 0..avail : v.fx.faults > 0}}
            ELSE {Got(v, most, most)}
                 \cup {[Got(v, k, k) EXCEPT !.fx.shorts = @ - 1] :
                         k \in {n \in least..(most - 1) : v.fx.shorts > 0}}
                 \cup {Fault(Got(v, k, 0)) : k \in {n \in 0..(least - 1) : v.fx.faults > 0}}
    IN After(Idle(w), Read)

(* A request in NOWAIT mode is accepted (rc 0) or refused.                 *)
SubmitCall(w, kind, slot, len) ==
    LET Submit(v) ==
            {[SetMode(v, "NOWAIT") EXCEPT !.rc = 0,
                 !.fx.rpc = [st |-> "queued", kind |-> kind, slot |-> slot, len |-> len]]}
            \cup {SetMode(Fault(v), "WAIT") : n \in 1..v.fx.faults}
    IN After(Idle(w), Submit)

(* fileXioWaitAsync, polled and then waited for: the request's result, or  *)
(* what the last call left if the request was waited out before, or a poll *)
(* that fails and says nothing about the request.                          *)
WaitAsync(w) ==
    LET Answer(v) == [Served(v) EXCEPT !.answered = TRUE,
                         !.rc = IF v.fx.rpc.st = "done" THEN v.fx.rpc.result
                                ELSE v.fx.last]
    IN {Answer(v) : v \in IF Busy(w) THEN ServeRequest(w) ELSE {w}}
       \cup {[Fault(w) EXCEPT !.answered = FALSE] : n \in 1..w.fx.faults}
=============================================================================
