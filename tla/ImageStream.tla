---------------------------- MODULE ImageStream ----------------------------
(***************************************************************************)
(* The image operations of the dashboard as diag_wrap.c wraps them: the    *)
(* log is paused, the read cache and the write batch are enabled around    *)
(* the image engine, which streams records to or from one image file.      *)
(* Raw operations run between a switch to the raw card personality and the *)
(* way back; each switch detaches the log and attaches it again.           *)
(*                                                                         *)
(* An operation is a script: the calls it makes in order.  A call of the   *)
(* engine runs only while nothing failed, what undoes a scope always runs. *)
(***************************************************************************)
EXTENDS ReadAhead, DiagLog, TLC

CONSTANTS Kinds,          \* subset of {"export", "format", "restore", "scan"}
          MaxOps,         \* operations in one behaviour
          MaxAsides,      \* lines logged from inside one operation
          MaxFailures     \* failures of the USB side and of the log together

ASSUME ImageStreamAssumption ==
    /\ Kinds \subseteq {"export", "format", "restore", "scan"}
    /\ MaxOps \in Nat /\ MaxAsides \in Nat /\ MaxFailures \in Nat

VARIABLES op,             \* the operation
          done            \* operations so far

streamVars == <<fx, wb, ra>>
vars == <<fx, wb, ra, build, log, op, done>>

RunCall(body) == <<"printf", "pause">> \o body \o <<"resume", "printf">>
VerifyBody == <<"open", "verify", "close">>
ExportCall == RunCall(<<"raOn", "wbOn", "create", "record", "finish">> \o VerifyBody
                      \o <<"sidecar", "wbOff", "raOff">>)
RestoreCall == RunCall(<<"raOn">> \o VerifyBody \o <<"open", "program", "close", "raOff">>)
FormatCall == RunCall(<<"raOn">> \o ExportCall \o <<"mcFormat", "raOff">>)
ScanCall == RunCall(RunCall(<<"raOn">> \o VerifyBody \o
                            <<"openLocate", "locate", "close", "raOff">>))
LeaveRaw == <<"printf", "detach", "printf", "reboot", "massInit">>
EnterRaw == <<"detach", "printf", "detach", "reboot", "startRaw">> \o <<"attach", "printf">>
Script(kind) ==
    CASE kind = "export"  -> EnterRaw \o ExportCall \o LeaveRaw
      [] kind = "format"  -> EnterRaw \o FormatCall \o LeaveRaw
      [] kind = "restore" -> EnterRaw \o RestoreCall \o LeaveRaw
      [] kind = "scan"    -> ScanCall

NoOp == [kind |-> "none", todo |-> <<>>, rc |-> 0, bad |-> 0, pages |-> 0, asides |-> 0,
         got |-> <<>>, found |-> 0, sealed |-> FALSE, checked |-> FALSE, formatted |-> FALSE]

At(step) == op.todo # <<>> /\ Head(op.todo) = step
Next1(o) == [o EXCEPT !.todo = Tail(@)]
World == [fx |-> fx, wb |-> wb, ra |-> ra, rc |-> 0, out |-> <<>>, raw |-> <<>>,
          answered |-> FALSE]
Becomes(x) == fx' = x.fx /\ wb' = x.wb /\ ra' = x.ra
(* A call of the image side: one of its outcomes, the log untouched.       *)
Stream(S, o(_)) ==
    /\ \E x \in S : Becomes(x) /\ op' = o(x)
    /\ UNCHANGED <<build, log, done>>
Skip == op' = Next1(op) /\ UNCHANGED <<fx, wb, ra, build, log, done>>
Result(x) == [Next1(op) EXCEPT !.rc = IF op.rc < 0 THEN @ ELSE Lesser(x.rc, 0)]

Init ==
    /\ build \in Builds
    /\ wb = WbInit /\ ra = RaInit /\ op = NoOp /\ done = 0
    /\ \E n \in 0..MaxFaults, m \in 0..LogFaults :
          n + m <= MaxFailures /\ fx = FxInit(n) /\ log = LogInit(m)

(* The user starts an operation; the image a restore or a scan reads is    *)
(* complete, and a scanned one may have a record with a wrong spare.       *)
Begin(kind, bad) ==
    /\ op.todo = <<>> /\ done < MaxOps
    /\ kind = "scan" \/ bad = 0
    /\ op' = [NoOp EXCEPT !.kind = kind, !.todo = Script(kind), !.bad = bad]
    /\ done' = done + 1
    /\ fx' = [fx EXCEPT !.file = IF kind \in {"restore", "scan"}
                                 THEN Units(ImageUnits) ELSE <<>>]
    /\ UNCHANGED <<wb, ra, build, log>>

(* ------------------------------ the logger ----------------------------- *)
(* EnsurePath, FlushPending and WriteRawLineNow put the client in WAIT     *)
(* mode before they touch the stick.                                       *)
LogCall(step, S, touches) ==
    /\ At(step)
    /\ log' \in S
    /\ fx' = IF touches THEN [fx EXCEPT !.mode = "WAIT"] ELSE fx
    /\ op' = Next1(op)
    /\ UNCHANGED <<wb, ra, build, done>>

LogLine == LogCall("printf", Printf(log), log.io /\ log.pause = 0)
LogPause == LogCall("pause", Pause(log), FALSE)
LogResume == LogCall("resume", Resume(log), log.io /\ log.pause = 1)
LogDetach == LogCall("detach", Detach(log), FALSE)
LogAttach == /\ op.rc = 0
             /\ LogCall("attach", Attach(log), log.pause = 0)
(* A line from inside an operation (the first raw reads, the driver).      *)
LogInside == /\ At("record") \/ At("verify")
             /\ op.asides < MaxAsides
             /\ log' \in Printf(log)
             /\ op' = [op EXCEPT !.asides = @ + 1]
             /\ UNCHANGED <<fx, wb, ra, build, done>>

(* The IOP reset loses every request and descriptor; the raw session may   *)
(* fail to start, the mass backend may fail to come back.                  *)
Reboot == /\ At("reboot")
          /\ fx' = [fx EXCEPT !.rpc = NoRequest, !.open = 0]
          /\ op' = Next1(op)
          /\ UNCHANGED <<wb, ra, build, log, done>>
StartRaw == /\ At("startRaw")
            /\ \/ op' = Next1(op) /\ fx' = fx
               \/ /\ fx.faults > 0
                  /\ fx' = [fx EXCEPT !.faults = @ - 1]
                  /\ op' = [op EXCEPT !.rc = Failed, !.todo = <<"printf">> \o LeaveRaw]
            /\ UNCHANGED <<wb, ra, build, log, done>>
MassInit == /\ At("massInit")
            /\ \/ /\ log' \in UNION {Printf(L) : L \in Attach(log)}
                  /\ fx' = [fx EXCEPT !.mode = "WAIT"]
               \/ /\ fx.faults > 0
                  /\ fx' = [fx EXCEPT !.faults = @ - 1]
                  /\ log' \in Printf(log)
            /\ op' = Next1(op)
            /\ UNCHANGED <<wb, ra, build, done>>

(* ------------------------------ the scopes ----------------------------- *)
ScopeResult(x) == Next1(op)
Scope(step, S) == At(step) /\ Stream(S, ScopeResult)
(* Leaving the outermost scope writes its statistics to the trace.         *)
Leave(step, S, depth) ==
    /\ At(step)
    /\ \E x \in S : Becomes(x)
    /\ op' = Next1(op)
    /\ log' \in IF depth = 1 THEN Trace(log) ELSE {log}
    /\ UNCHANGED <<build, done>>
ReadScopeOn == Scope("raOn", RaSetEnabled(World, TRUE))
WriteScopeOn == Scope("wbOn", WbSetEnabled(World, TRUE))
ReadScopeOff == Leave("raOff", RaSetEnabled(World, FALSE), ra.depth)
WriteScopeOff == Leave("wbOff", WbSetEnabled(World, FALSE), wb.depth)

(* ------------------------------ the engine ----------------------------- *)
EngineSteps == {"attach", "create", "record", "finish", "open", "verify", "program",
                "sidecar", "mcFormat"}
(* After a failure the engine's calls are left out, an open image is still *)
(* closed, and a failed verification is followed by the locator only if it *)
(* was the spare that was wrong.                                           *)
SkipStep ==
    /\ op.todo # <<>>
    /\ \/ Head(op.todo) \in EngineSteps \ {"finish"} /\ op.rc < 0
       \/ Head(op.todo) \in {"finish", "close"} /\ fx.open = 0
       \/ Head(op.todo) = "openLocate" /\ op.rc # BadEcc
       \/ Head(op.todo) = "locate" /\ fx.open = 0
    /\ Skip

Create == /\ At("create") /\ op.rc = 0
          /\ \E fd \in Fds : Stream(OpenCall(World, fd, <<>>), Result)

(* Reserve, read the card page into the batch, commit.  The card read may  *)
(* fail between the two.                                                   *)
ExportRecord ==
    LET record == [i \in 1..RecordUnits |-> op.pages * RecordUnits + i]
        Page(x) == Commit(x, x.fx.open, record) \cup {Fault(x) : n \in 1..x.fx.faults}
        More(x) == IF x.rc < 0 THEN Result(x)
                   ELSE LET o == [op EXCEPT !.pages = @ + 1] IN
                        IF o.pages * RecordUnits = ImageUnits THEN Next1(o) ELSE o
    IN /\ At("record") /\ op.rc = 0
       /\ Stream(Then(Reserve(World, fx.open), Page), More)

(* The close ends the export; after a failure the part of an image that    *)
(* was written is removed, but not when it is the close that fails.        *)
Finish ==
    LET Remove(x) == {IF op.rc < 0 THEN [x EXCEPT !.fx.file = <<>>] ELSE x}
        Sealed(x) == [Result(x) EXCEPT !.sealed = op.rc = 0 /\ x.rc = 0] IN
    /\ At("finish") /\ fx.open # 0
    /\ Stream(After(WrapClose(World), Remove), Sealed)

Reopen(step, guard) ==
    LET Opened(x) == [Result(x) EXCEPT !.got = <<>>, !.pages = 0,
                                       !.rc = IF x.rc < 0 THEN x.rc ELSE op.rc] IN
    /\ At(step) /\ guard
    /\ \E fd \in Fds : Stream(OpenCall(World, fd, fx.file), Opened)
OpenImage == Reopen("open", op.rc = 0)
OpenLocate == Reopen("openLocate", op.rc = BadEcc)

Close == LET Kept(x) == Next1(op) IN      \* nobody looks at the result
         /\ At("close") /\ fx.open # 0
         /\ Stream(WrapClose(World), Kept)

(* A record at a time.  The spare of record op.bad does not match.         *)
HoldsBad(data) == op.bad # 0 /\ \E i \in DOMAIN data : data[i] = op.bad * RecordUnits
Count(x) == [op EXCEPT !.pages = @ + 1, !.got = @ \o x.out]
VerifyRetries ==
    LET Page(x) == IF x.rc < 0 THEN op
                   ELSE IF (op.pages + 1) * RecordUnits < Len(fx.file) THEN Count(x)
                   ELSE Next1(Count(x)) IN
    /\ At("verify") /\ op.rc = 0
    /\ Stream(ReadExact(World), Page)
Verify ==
    LET Page(x) ==
            IF x.rc < 0 THEN Result(x)
            ELSE IF HoldsBad(x.out) THEN [Next1(Count(x)) EXCEPT !.rc = BadEcc]
            ELSE IF (op.pages + 1) * RecordUnits < Len(fx.file) THEN Count(x)
            ELSE LET wrong == /\ op.kind \in {"export", "format"}
                              /\ op.got \o x.out # Units(ImageUnits)
                 IN [Next1(Count(x)) EXCEPT !.rc = IF wrong THEN Failed ELSE 0,
                                            !.checked = TRUE]
    IN /\ At("verify") /\ op.rc = 0
       /\ Stream(ReadExact(World), Page)

(* Restoring: the record goes to the card.  The spare of the record may be *)
(* wrong, the erase or the write of the card may fail; at the end the card *)
(* is read back, and it must hold what the verification saw.               *)
Program ==
    LET Done(x) == [Next1(Count(x)) EXCEPT
                       !.rc = IF op.got \o x.out = Units(ImageUnits) THEN 0 ELSE Failed]
        Page(x) == IF x.rc < 0 THEN Result(x)
                   ELSE IF (op.pages + 1) * RecordUnits = ImageUnits THEN Done(x)
                   ELSE Count(x)
        Refused(x) == [Next1(op) EXCEPT !.rc = Failed]
    IN /\ At("program") /\ op.rc = 0
       /\ Stream(ReadExact(World), Page) \/ Stream(ReadExact(World), Refused)

(* MciCardImageFindFirstEccMismatch: the number of the first record whose  *)
(* spare does not match.                                                   *)
Locate ==
    LET Page(x) ==
            IF x.rc < 0 THEN Next1(op)
            ELSE IF HoldsBad(x.out) THEN [Next1(op) EXCEPT !.found = op.pages + 1]
            ELSE IF (op.pages + 1) * RecordUnits = ImageUnits THEN Next1(Count(x))
            ELSE Count(x) IN
    /\ At("locate") /\ fx.open # 0
    /\ Stream(ReadExact(World), Page)

(* The text file beside the image: not a record, written past the batch.   *)
Sidecar ==
    LET text == <<>>
        Ignored(x) == Next1(op)
        Written(x) == WrapWrite(x, x.fx.open, text)
        Closed(x) == WrapClose(x)
        Back(x) == {[x EXCEPT !.fx.file = fx.file, !.fx.open = 0]} IN
    /\ At("sidecar") /\ op.rc = 0
    /\ \E fd \in Fds :
          Stream(After(After(Then(OpenCall(World, fd, <<>>), Written), Closed), Back), Ignored)

McFormatAnyway == /\ At("mcFormat")
                  /\ op' = [Next1(op) EXCEPT !.formatted = TRUE]
                  /\ UNCHANGED <<fx, wb, ra, build, log, done>>
McFormat == /\ At("mcFormat") /\ op.rc = 0
            /\ \/ op' = [Next1(op) EXCEPT !.formatted = TRUE]
               \/ op' = [Next1(op) EXCEPT !.rc = Failed]
            /\ UNCHANGED <<fx, wb, ra, build, log, done>>

(* ------------------------------- the IOP ------------------------------- *)
(* The IOP gets to the outstanding request while the EE does other work.   *)
IopServe == /\ fx.rpc.st = "queued"
            /\ \E x \in ServeRequest(World) : Becomes(x)
            /\ UNCHANGED <<build, log, op, done>>

Step == \/ LogLine \/ LogPause \/ LogResume \/ LogDetach \/ LogAttach
        \/ Reboot \/ StartRaw \/ MassInit
        \/ ReadScopeOn \/ WriteScopeOn \/ ReadScopeOff \/ WriteScopeOff
        \/ SkipStep \/ Create \/ ExportRecord \/ Finish \/ OpenImage \/ OpenLocate
        \/ Close \/ Verify \/ Program \/ Locate \/ Sidecar \/ McFormat

Next == \/ \E kind \in Kinds, bad \in 0..(ImageUnits \div RecordUnits) : Begin(kind, bad)
        \/ Step \/ LogInside \/ IopServe

(* The EE runs the operation it was asked for (a wait ends, because the IOP*)
(* serves what it was given); nobody has to ask for another operation.     *)
Spec == Init /\ [][Next]_vars /\ WF_vars(Step)
=============================================================================
