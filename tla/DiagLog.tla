------------------------------ MODULE DiagLog ------------------------------
(***************************************************************************)
(* diag_log.c: numbered lines, queued in a ring in EE RAM and appended to  *)
(* DREBIN.LOG whenever mass: is attached and nobody has paused the log.    *)
(* A line is its number; the notice of a ring overflow also says how many  *)
(* lines were dropped.  A call of the logger is a set of outcomes, like a  *)
(* call of fileXio.                                                        *)
(***************************************************************************)
EXTENDS Integers, Sequences, FiniteSets

CONSTANTS RingLines,      \* DIAG_PENDING_LINES
          LogFaults       \* failures of the log file in one behaviour

ASSUME DiagLogAssumption == RingLines \in Nat \ {0} /\ LogFaults \in Nat

VARIABLE log

Line(n) == [n |-> n, dropped |-> 0, whole |-> TRUE]
Torn(l) == [l EXCEPT !.whole = FALSE]
Numbers(s) == {s[i].n : i \in DOMAIN s}

(* EnsureInitialized: the session line is born in the ring.                *)
LogInit(faults) == [ring |-> <<1>>, dropped |-> 0, sequence |-> 1, io |-> FALSE,
                    path |-> FALSE, pause |-> 0, file |-> <<>>, faults |-> faults,
                    notices |-> {}]    \* history: the numbers notices took

Detached(L) == [L EXCEPT !.io = FALSE, !.path = FALSE]
LogFault(L) == [L EXCEPT !.faults = @ - 1]
Faulty(L) == 1..L.faults

QueueLineAlways(L, n) == [L EXCEPT !.ring = Append(@, n)]
QueueLineSilent(L, n) == [L EXCEPT !.ring = Append(IF Len(@) < RingLines THEN @ ELSE Tail(@), n)]
QueueLineStuck(L, n) ==
    IF Len(L.ring) < RingLines THEN [L EXCEPT !.ring = Append(@, n)]
    ELSE [L EXCEPT !.ring = <<n>> \o Tail(@), !.dropped = @ + 1]
(* QueueLine: a full ring gives up its oldest line.                        *)
QueueLine(L, n) ==
    IF Len(L.ring) < RingLines THEN [L EXCEPT !.ring = Append(@, n)]
    ELSE [L EXCEPT !.ring = Append(Tail(@), n), !.dropped = @ + 1]

FormatLine(L) == [L EXCEPT !.sequence = @ + 1]

(* EnsurePath: find the stick and its directory, unless already found.     *)
EnsurePath(L) ==
    {[ok |-> TRUE, log |-> [L EXCEPT !.path = TRUE]]}
    \cup {[ok |-> FALSE, log |-> LogFault(L)] : n \in {m \in Faulty(L) : ~L.path}}

(* The batch of a flush: the overflow notice, then the ring.               *)
Notice(L) == IF L.dropped = 0 THEN <<>>
             ELSE <<[n |-> L.sequence + 1, dropped |-> L.dropped, whole |-> TRUE]>>
Batch(L) == Notice(L) \o [i \in DOMAIN L.ring |-> Line(L.ring[i])]

(* The first k lines of the batch are out, and part of the next when torn. *)
Flushed(L, k, torn) ==
    LET batch == Batch(L)
        notice == Len(Notice(L))
        out == SubSeq(batch, 1, k) \o (IF torn THEN <<Torn(batch[k + 1])>> ELSE <<>>) IN
    [L EXCEPT !.file = @ \o out,
              !.sequence = @ + notice,
              !.notices = @ \cup Numbers(Notice(L)),
              !.dropped = IF k >= notice THEN 0 ELSE @,
              !.ring = IF k <= notice THEN @ ELSE SubSeq(@, k - notice + 1, Len(@))]

(* FlushPending: one open, the batch, one close.  A failure detaches the   *)
(* log and keeps what was not written.                                     *)
FlushPending(L) ==
    IF ~L.io \/ L.pause # 0 \/ (L.ring = <<>> /\ L.dropped = 0) THEN {L}
    ELSE LET Append1(p) ==
                IF ~p.ok THEN {[p.log EXCEPT !.io = FALSE]}
                ELSE {Flushed(p.log, Len(Batch(L)), FALSE)}                    \* all of it
                     \cup {Detached(LogFault(p.log)) : n \in Faulty(p.log)}     \* open
                     \cup {Detached(LogFault(Flushed(p.log, k, torn))) :        \* a write
                             k \in {m \in 0..(Len(Batch(L)) - 1) : p.log.faults > 0},
                             torn \in BOOLEAN}
                     \cup {Detached(LogFault(Flushed(p.log, Len(Batch(L)), FALSE))) :
                             n \in Faulty(p.log)}                               \* close
         IN UNION {Append1(p) : p \in EnsurePath(L)}

(* WriteRawLineNow and what MciDiagLogPrintf does when it fails.           *)
WriteLine(L, n) ==
    LET Put(l) == [L EXCEPT !.file = Append(@, l)]
        Queue(K) == QueueLine(Detached(LogFault(K)), n) IN
    {Put(Line(n))}
    \cup {Queue(L) : m \in Faulty(L)}                      \* open, or nothing written
    \cup {Queue(Put(Torn(Line(n)))) : m \in Faulty(L)}     \* part of the line
    \cup {Queue(Put(Line(n))) : m \in Faulty(L)}           \* close

(* MciDiagLogPrintf: what is queued first, then the line itself.           *)
Printf(L) ==
    LET K == FormatLine(L)
        n == K.sequence
        Direct(F) == IF F.io THEN WriteLine([F EXCEPT !.path = TRUE], n) ELSE {QueueLine(F, n)} IN
    IF K.io /\ K.pause = 0 THEN UNION {Direct(F) : F \in FlushPending(K)}
    ELSE {QueueLine(K, n)}

(* MciDiagLogTracePrintf: the ring only.                                   *)
Trace(L) == {QueueLine(FormatLine(L), L.sequence + 1)}

PauseNothing(L) == {L}
(* MciDiagLogSetMassWritePaused.                                           *)
Pause(L) == IF L.pause = 0 THEN Trace([L EXCEPT !.pause = 1])
            ELSE {[L EXCEPT !.pause = @ + 1]}
Resume(L) == IF L.pause = 0 THEN {L}
             ELSE IF L.pause > 1 THEN {[L EXCEPT !.pause = @ - 1]}
             ELSE UNION {FlushPending(F) : F \in Trace([L EXCEPT !.pause = 0])}

(* MciDiagLogSetIoAvailable.  Attaching looks for the stick at once unless *)
(* the log is paused; its four attempts are one here.                      *)
Detach(L) == Printf(Detached(L))
Attach(L) ==
    LET Flush(p) == IF ~p.ok THEN {Detached(p.log)}
                    ELSE UNION {IF F.io THEN Printf(F) ELSE {F} : F \in FlushPending(p.log)} IN
    IF L.io /\ L.path THEN {L}
    ELSE IF L.pause # 0 THEN Trace([L EXCEPT !.io = TRUE, !.path = FALSE])
    ELSE UNION {Flush(p) : p \in EnsurePath([L EXCEPT !.io = TRUE, !.path = FALSE])}
=============================================================================
