---------------------------- MODULE StreamProofs ----------------------------
(***************************************************************************)
(* The streams and the log, for every image size, batch size, ring size,   *)
(* number of operations and number of faults.                              *)
(*                                                                         *)
(* The argument: between two calls of an operation some phase describes    *)
(* the streams, and what is left of the script leads from it to the end;   *)
(* between two operations all scopes are closed (StreamInv).  A step from  *)
(* there keeps it, leaves alone the buffer the IOP has, touches the log    *)
(* only while no image is open, and is a step of the abstract stream of    *)
(* RecordStream or none (Safe).  Every call of the log keeps its account:  *)
(* no more lines are missing than it admits (Owes).                        *)
(***************************************************************************)
EXTENDS StreamPhaseProofs, FiniteSetTheorems

(* ------------------------------- a step ------------------------------- *)
(* The first call of what is left to do leads from p to r, the others on   *)
(* to q.                                                                   *)
Advances(p, r, q) ==
    /\ p \in Phases /\ r \in Phases /\ q \in Phases
    /\ log.pause = p.pause /\ Good(op, World, p) /\ Balanced(q)
    /\ StepOf(Head(op.todo), p, r) /\ Leads(Tail(op.todo), r, q) /\ Leads(op.todo, p, q)

(* What a step may never do to a buffer and to the stick, and what it is   *)
(* of the abstract stream.                                                 *)
Owned == InFlight("write") /\ fx'.rpc = fx.rpc => wb'.buf[fx.rpc.slot] = wb.buf[fx.rpc.slot]
Alone == log'.file # log.file \/ (log'.path /\ ~log.path)
            => fx.open = 0 /\ fx.rpc.st # "queued"
Mapped == Promise!StreamNext \/ UNCHANGED Promise!recordVars
Safe == StreamInv' /\ Owned /\ Alone /\ Mapped
(* A step the abstract stream does not see.                                *)
Alike ==
    /\ op.todo # <<>> /\ op'.kind = op.kind /\ op'.sealed = op.sealed /\ fx'.file = fx.file
    /\ op.kind \in Exports /\ ~op.sealed =>
          /\ op'.pages = op.pages /\ (op.rc < 0 <=> op'.rc < 0)
          /\ op.rc < 0 \/ (fx'.open = 0 <=> fx.open = 0)

(* ------------------------- the losses of the log ----------------------- *)
(* The account of the log: the numbers that can be seen, those of the      *)
(* lines that are lost, but for the numbers b of lines in hand, and the    *)
(* losses the log admits.                                                  *)
Shown(L) == L.notices \cup ToSet(L.ring) \cup {L.file[i].n : i \in WholeIn(L.file)}
Lost(L, b) == (1..L.sequence) \ (Shown(L) \cup b)
Admits(L) == L.dropped + Cardinality(Claims(L.file))
Owes(L, b) == Cardinality(Lost(L, b)) <= Admits(L)

(* What a step does to the log: nothing, or one of its calls.              *)
Moved(L, M) ==
    \/ M = L \/ M \in Printf(L) \/ M \in Trace(L) \/ M \in Pause(L) \/ M \in Resume(L)
    \/ M \in Detach(L) \/ M \in Attach(L) \/ M \in UNION {Printf(K) : K \in Attach(L)}

-----------------------------------------------------------------------------
(* The streams between two calls.                                          *)
LEMMA Now ==
  /\ World.fx = fx /\ World.wb = wb /\ World.ra = ra /\ World.rc = 0 /\ World.out = <<>>
  /\ World.raw = <<>> /\ World.answered = FALSE
BY DEF World

LEMMA GoodWorlds ==
  ASSUME NEW o, NEW w, NEW p, Good(o, w, p)
  PROVE  w \in Worlds /\ Sound(w) /\ (p.at = "none" => w.fx.open = 0)
BY DEF Good, Calm, Sound, Place

LEMMA Advance ==
  ASSUME StreamInv, op.todo # <<>>
  PROVE  \E p, r, q \in Phases : Advances(p, r, q)
<1>1. PICK p \in Phases, q \in Phases :
        log.pause = p.pause /\ Good(op, World, p) /\ Balanced(q) /\ Leads(op.todo, p, q)
  BY DEF StreamInv, Running
<1>2. \E r \in Phases : StepOf(Head(op.todo), p, r) /\ Leads(Tail(op.todo), r, q)
  BY <1>1, LeadsNext
<1> QED BY <1>1, <1>2 DEF Advances

(* The call of a phase leads where the operation says.                     *)
LEMMA Arrive ==
  ASSUME NEW x, NEW o \in Operations, NEW r \in Phases, NEW q \in Phases,
         Good(o, x, r), Balanced(q), Leads(o.todo, r, q), build \in Builds,
         done' \in 0..MaxOps, Tidy(log', log'.sequence), log'.pause = r.pause,
         op' = o, build' = build, fx' = x.fx, wb' = x.wb, ra' = x.ra
  PROVE  StreamInv'
<1>1. Good(op, World, r)'
  BY Carried
<1>2. build' \in Builds /\ done' \in 0..MaxOps /\ op' \in Operations /\ Tidy(log, log.sequence)'
  OBVIOUS
<1>3. ASSUME op'.todo # <<>> PROVE Running'
  BY <1>1 DEF Running
<1>4. ASSUME op'.todo = <<>> PROVE Quiet'
  <2>1. r = q
    <3>1. Len(o.todo) = 0
      BY <1>4
    <3> QED BY <3>1 DEF Leads
  <2>2. /\ Calm(World)' /\ Told(op, World)' /\ Place(op, World, r)'
        /\ World'.ra.depth = r.ra /\ World'.wb.depth = r.wb
    BY <1>1 DEF Good
  <2>3. r.at = "none" /\ r.pause = 0 /\ r.ra = 0 /\ r.wb = 0
    BY <2>1 DEF Balanced
  <2>4. fx'.open = 0 /\ wb'.async = NoSlot
    BY <2>2, <2>3, Zenon DEF Place, World
  <2>5. ra'.depth = 0 /\ wb'.depth = 0
    BY <2>2, <2>3 DEF World
  <2> QED BY <2>2, <2>3, <2>4, <2>5 DEF Quiet
<1> QED BY <1>2, <1>3, <1>4 DEF StreamInv

(* The operation after one of its calls.                                   *)
LEMMA NextParts ==
  ASSUME NEW o \in Operations, Tail(o.todo) \in Seq(Steps)
  PROVE  LET u == Next1(o) IN
         /\ u \in Operations /\ u.kind = o.kind /\ u.rc = o.rc /\ u.bad = o.bad
         /\ u.pages = o.pages /\ u.got = o.got /\ u.sealed = o.sealed
         /\ u.checked = o.checked /\ u.formatted = o.formatted /\ u.todo = Tail(o.todo)
BY DEF Next1, Operations

(* Such a step is none of the abstract stream, or the last of the          *)
(* operation.                                                              *)
LEMMA AlikeMapped ==
  ASSUME Alike
  PROVE  Mapped
<1>1. CASE ~Exporting'
  <2>1. Promise!Discard
    BY <1>1 DEF Promise!Discard
  <2> QED BY <2>1 DEF Mapped, Promise!StreamNext
<1>2. CASE Exporting' /\ op.sealed
  BY <1>2 DEF Mapped, Promise!recordVars, Alike, Exporting
<1>3. CASE Exporting' /\ ~op.sealed
  BY <1>3 DEF Mapped, Promise!recordVars, Alike, Exporting
<1> QED BY <1>1, <1>2, <1>3

(* A call that leaves the streams alone.                                   *)
LEMMA SideStep ==
  ASSUME StreamInv, op.todo # <<>>, NEW p, NEW r, NEW q, Advances(p, r, q), p.at = "none",
         r.at = "none", r.ra = p.ra, r.wb = p.wb, r.image = p.image,
         NEW y \in Worlds, y.wb = wb, y.ra = ra, SameFile(y, World), y.fx.rpc = fx.rpc,
         y.fx.mode \in {fx.mode, "WAIT"}, fx' = y.fx,
         Tidy(log', log'.sequence), log'.pause = r.pause,
         op' = Next1(op), UNCHANGED <<wb, ra, build, done>>
  PROVE  Safe
<1> DEFINE W == World
           o == op
<1>1. /\ p \in Phases /\ r \in Phases /\ q \in Phases /\ Good(op, World, p) /\ Balanced(q)
      /\ Leads(Tail(op.todo), r, q)
  BY DEF Advances
<1>2. World.fx = fx /\ World.wb = wb /\ World.ra = ra
  BY Now
<1>3. Calm(World) /\ fx.open = 0 /\ fx.mode = "WAIT" /\ fx.rpc = NoRequest
  BY <1>1, <1>2 DEF Good, Place, Calm
<1>4. op \in Operations /\ build \in Builds /\ done \in 0..MaxOps
  BY DEF StreamInv
<1>5. PICK u : u = Next1(op)
  OBVIOUS
<1>6. PICK v : v = World
  OBVIOUS
<1>7. PICK a : a = op
  OBVIOUS
<1>8. /\ u \in Operations /\ u.kind = a.kind /\ u.rc = a.rc /\ u.bad = a.bad
      /\ u.pages = a.pages /\ u.got = a.got /\ u.sealed = a.sealed
      /\ u.checked = a.checked /\ u.formatted = a.formatted /\ u.todo = Tail(op.todo)
  <2>1. Tail(op.todo) \in Seq(Steps)
    BY <1>1 DEF Leads
  <2> QED BY <1>4, <1>5, <1>7, <2>1, NextParts
<1>9. Good(a, v, p) /\ y.wb = v.wb /\ y.ra = v.ra /\ SameFile(y, v) /\ y.fx.rpc = v.fx.rpc
      /\ y.fx.mode = "WAIT"
  BY <1>1, <1>2, <1>3, <1>6, <1>7
<1>10. Good(a, y, p)
  BY <1>9, GoodSame
<1>11. Good(u, y, p)
  BY <1>8, <1>10, GoodCall
<1>12. Good(u, y, r)
  BY <1>11, GoodPhase
<1>13. StreamInv'
  BY <1>1, <1>4, <1>5, <1>8, <1>12, Arrive
<1>14. Owned
  BY <1>3 DEF Owned, InFlight, NoRequest
<1>15. Alone
  BY <1>3 DEF Alone, NoRequest
<1>16. Alike
  <2>1. fx'.file = fx.file /\ fx'.open = fx.open
    BY <1>2 DEF SameFile
  <2>2. /\ op'.kind = op.kind /\ op'.sealed = op.sealed /\ op'.pages = op.pages
        /\ op'.rc = op.rc
    BY <1>5, <1>7, <1>8
  <2> QED BY <2>1, <2>2 DEF Alike
<1> QED BY <1>13, <1>14, <1>15, <1>16, AlikeMapped DEF Safe

(* The streams after a call of the log.                                    *)
LEMMA LogStep ==
  ASSUME StreamInv, op.todo # <<>>, NEW p, NEW r, NEW q, Advances(p, r, q), p.at = "none",
         r.at = "none", r.ra = p.ra, r.wb = p.wb, r.image = p.image,
         \/ fx' = fx
         \/ fx' = [fx EXCEPT !.mode = "WAIT"]
         \/ fx.faults > 0 /\ fx' = [fx EXCEPT !.faults = @ - 1],
         Tidy(log', log'.sequence), log'.pause = r.pause,
         op' = Next1(op), UNCHANGED <<wb, ra, build, done>>
  PROVE  Safe
<1>1. World \in Worlds
  BY GoodWorlds DEF Advances
<1>2. PICK v : v = World
  OBVIOUS
<1>3. v \in Worlds /\ v.fx = fx /\ v.wb = wb /\ v.ra = ra
  BY <1>1, <1>2, Now
<1>4. CASE fx' = fx
  <2>1. SameFile(v, v) /\ v.fx.mode = fx.mode /\ v.fx.rpc = fx.rpc
    BY <1>3 DEF SameFile
  <2> QED BY <1>2, <1>3, <1>4, <2>1, SideStep
<1>5. CASE fx' = [fx EXCEPT !.mode = "WAIT"]
  <2> DEFINE y == SetMode(v, "WAIT")
  <2>1. /\ y \in Worlds /\ y.wb = wb /\ y.ra = ra /\ SameFile(y, v) /\ y.fx.mode = "WAIT"
        /\ y.fx.rpc = fx.rpc
    BY <1>3, ModeParts
  <2>2. fx' = y.fx
    BY <1>3, <1>5 DEF SetMode, Worlds
  <2> HIDE DEF y
  <2> QED BY <1>2, <2>1, <2>2, SideStep
<1>6. CASE fx.faults > 0 /\ fx' = [fx EXCEPT !.faults = @ - 1]
  <2> DEFINE y == LessFaults(v)
  <2>1. /\ y \in Worlds /\ y.wb = wb /\ y.ra = ra /\ SameFile(y, v) /\ y.fx.mode = fx.mode
        /\ y.fx.rpc = fx.rpc
    BY <1>3, <1>6, FaultsParts
  <2>2. fx' = y.fx
    BY <1>3, <1>6 DEF LessFaults, Worlds
  <2> HIDE DEF y
  <2> QED BY <1>2, <2>1, <2>2, SideStep
<1> QED BY <1>4, <1>5, <1>6

(* The beginnings of the image are beginnings of one another.              *)
LEMMA UnitsPrefix ==
  ASSUME NEW n \in Nat, NEW m \in Nat, n <= m
  PROVE  SubSeq(Units(m), 1, n) = Units(n) /\ Promise!IsPrefix(Units(n), Units(m))
<1>1. \A k \in Nat : Units(k) \in Seq(Int) /\ Len(Units(k)) = k /\ \A i \in 1..k : Units(k)[i] = i
  BY UnitsParts
<1>2. ASSUME NEW k \in Nat, n <= k PROVE SubSeq(Units(k), 1, n) = Units(n)
  <2> DEFINE s == SubSeq(Units(k), 1, n)
  <2>1. s \in Seq(Int) /\ Len(s) = n /\ \A i \in 1..n : s[i] = i
    <3> DEFINE g == Units(k)
               z == 0
    <3>1. g \in Seq(Int) /\ n \in 0..Len(g) /\ z \in Int /\ Run(g, z)
      BY <1>1, <1>2 DEF Run
    <3> HIDE DEF g, z
    <3>2. SubSeq(g, 1, n) \in Seq(Int) /\ Len(SubSeq(g, 1, n)) = n /\ Run(SubSeq(g, 1, n), z)
      BY <3>1, RunCut
    <3> QED BY <3>2 DEF Run, g, z
  <2> HIDE DEF s
  <2>2. s = Units(n)
    <3> DEFINE g == Units(n)
    <3>1. g \in Seq(Int) /\ Len(g) = n /\ \A i \in 1..n : g[i] = i
      BY <1>1
    <3> HIDE DEF g
    <3>2. s = g
      BY <2>1, <3>1
    <3> QED BY <3>2 DEF g
  <2> QED BY <2>2 DEF s
<1>3. n <= n /\ SubSeq(Units(n), 1, n) = Units(n) /\ SubSeq(Units(m), 1, n) = Units(n)
  BY <1>2
<1>4. Len(Units(n)) = n /\ Len(Units(m)) = m
  BY <1>1
<1> HIDE DEF Units
<1> QED BY <1>3, <1>4 DEF Promise!IsPrefix

(* The end of an operation, and a failure of an export.                    *)
LEMMA EndMapped ==
  ASSUME ~Exporting'
  PROVE  Mapped
<1>1. Promise!Discard
  BY DEF Promise!Discard
<1> QED BY <1>1 DEF Mapped, Promise!StreamNext

LEMMA AbortMapped ==
  ASSUME op.todo # <<>>, ~op.sealed, ~(op.rc < 0), op'.kind = op.kind, ~op'.sealed, op'.rc < 0,
         NEW k \in Nat, k <= ImageUnits, fx'.file = Units(k)
  PROVE  Mapped
<1>1. CASE ~Exporting'
  BY <1>1, EndMapped
<1>2. CASE Exporting'
  <2>1. Promise!IsPrefix(Units(k), Units(ImageUnits))
    BY FileXioAssumption, UnitsPrefix
  <2>2. Promise!Whole = Units(ImageUnits)
    BY DEF Promise!Whole, Units
  <2>3. Promise!IsPrefix(fx'.file, Promise!Whole)
    BY <2>1, <2>2
  <2>4. Promise!Abort
    BY <1>2, <2>3 DEF Promise!Abort, Exporting
  <2> QED BY <2>4 DEF Mapped, Promise!StreamNext
<1> QED BY <1>1, <1>2

(* Only the log is paused and resumed.                                     *)
LEMMA StepPause ==
  ASSUME NEW s, NEW p, NEW r, StepOf(s, p, r), s \notin {"pause", "resume"}
  PROVE  r.pause = p.pause
BY PhaseParts DEF StepOf

(* A call that the streams follow.                                         *)
LEMMA CallStep ==
  ASSUME StreamInv, op.todo # <<>>, NEW p, NEW r, NEW q, Advances(p, r, q),
         NEW u \in Operations, NEW x, NEW s, Good(u, x, s),
         \/ s = r /\ u.todo = Tail(op.todo)
         \/ s = p /\ u.todo = op.todo,
         s.pause = p.pause, Leaves(World, x),
         op' = u, fx' = x.fx, wb' = x.wb, ra' = x.ra, UNCHANGED <<build, done>>,
         Tidy(log', log'.sequence), log'.pause = log.pause, log'.file = log.file,
         log'.path = log.path, Mapped
  PROVE  Safe
<1>1. /\ p \in Phases /\ r \in Phases /\ q \in Phases /\ Balanced(q) /\ log.pause = p.pause
      /\ Leads(Tail(op.todo), r, q) /\ Leads(op.todo, p, q)
  BY DEF Advances
<1>2. s \in Phases /\ Leads(u.todo, s, q)
  BY <1>1
<1>3. build \in Builds /\ done \in 0..MaxOps
  BY DEF StreamInv
<1>4. StreamInv'
  BY <1>1, <1>2, <1>3, Arrive
<1>5. Owned
  <2>1. InFlight("write") /\ fx'.rpc = fx.rpc => x.wb.buf[fx.rpc.slot] = wb.buf[fx.rpc.slot]
    BY Now DEF Leaves, Queued, InFlight
  <2> QED BY <2>1 DEF Owned
<1>6. Alone
  BY DEF Alone
<1> QED BY <1>4, <1>5, <1>6 DEF Safe

(* The calls of the log.                                                   *)
LEMMA CallLog ==
  ASSUME StreamInv, NEW step, NEW S, NEW touches \in BOOLEAN, LogCall(step, S, touches),
         step \in {"printf", "detach", "attach"},
         \A M \in S : Tidy(M, M.sequence) /\ M.pause = log.pause
  PROVE  Safe
<1>1. /\ op.todo # <<>> /\ Head(op.todo) = step /\ log' \in S /\ op' = Next1(op)
      /\ fx' = fx \/ fx' = [fx EXCEPT !.mode = "WAIT"]
      /\ UNCHANGED <<wb, ra, build, done>>
  BY DEF LogCall, At
<1>2. PICK p, r, q \in Phases : Advances(p, r, q)
  BY <1>1, Advance
<1>3. StepOf(step, p, r) /\ log.pause = p.pause
  BY <1>1, <1>2 DEF Advances
<1>4. p.at = "none" /\ r = p
  BY <1>3 DEF StepOf
<1>5. Tidy(log', log'.sequence) /\ log'.pause = r.pause
  BY <1>1, <1>3, <1>4
<1> QED BY <1>1, <1>2, <1>4, <1>5, LogStep

LEMMA LogLineSafe == ASSUME StreamInv, LogLine PROVE Safe
<1> DEFINE b == log.io /\ log.pause = 0
<1>1. LogCall("printf", Printf(log), b) /\ b \in BOOLEAN
  BY DEF LogLine
<1>2. \A M \in Printf(log) : Tidy(M, M.sequence) /\ M.pause = log.pause
  BY PrintfTidy DEF StreamInv
<1> HIDE DEF b
<1> QED BY <1>1, <1>2, CallLog

LEMMA LogDetachSafe == ASSUME StreamInv, LogDetach PROVE Safe
<1>1. LogCall("detach", Detach(log), FALSE)
  BY DEF LogDetach
<1>2. \A M \in Detach(log) : Tidy(M, M.sequence) /\ M.pause = log.pause
  BY DetachTidy DEF StreamInv
<1> QED BY <1>1, <1>2, CallLog

LEMMA LogAttachSafe == ASSUME StreamInv, LogAttach PROVE Safe
<1> DEFINE b == log.pause = 0
<1>1. LogCall("attach", Attach(log), b) /\ b \in BOOLEAN
  BY DEF LogAttach
<1>2. \A M \in Attach(log) : Tidy(M, M.sequence) /\ M.pause = log.pause
  BY AttachTidy DEF StreamInv
<1> HIDE DEF b
<1> QED BY <1>1, <1>2, CallLog

LEMMA LogPauseSafe == ASSUME StreamInv, LogPause PROVE Safe
<1>1. /\ op.todo # <<>> /\ Head(op.todo) = "pause" /\ log' \in Pause(log)
      /\ op' = Next1(op) /\ fx' = fx /\ UNCHANGED <<wb, ra, build, done>>
  BY DEF LogPause, LogCall, At
<1>2. PICK p, r, q \in Phases : Advances(p, r, q)
  BY <1>1, Advance
<1>3. StepOf("pause", p, r) /\ log.pause = p.pause
  BY <1>1, <1>2 DEF Advances
<1>4. p.at = "none" /\ r = Phase(p.pause + 1, p.ra, p.wb, "none", p.image)
  BY <1>3 DEF StepOf
<1>5. r.pause = p.pause + 1 /\ r.ra = p.ra /\ r.wb = p.wb /\ r.at = "none" /\ r.image = p.image
  BY <1>4, PhaseParts
<1>6. Tidy(log', log'.sequence) /\ log'.pause = log.pause + 1
  BY <1>1, PauseTidy DEF StreamInv
<1> QED BY <1>1, <1>2, <1>3, <1>4, <1>5, <1>6, LogStep

LEMMA LogResumeSafe == ASSUME StreamInv, LogResume PROVE Safe
<1>1. /\ op.todo # <<>> /\ Head(op.todo) = "resume" /\ log' \in Resume(log)
      /\ op' = Next1(op) /\ UNCHANGED <<wb, ra, build, done>>
      /\ fx' = fx \/ fx' = [fx EXCEPT !.mode = "WAIT"]
  BY DEF LogResume, LogCall, At
<1>2. PICK p, r, q \in Phases : Advances(p, r, q)
  BY <1>1, Advance
<1>3. StepOf("resume", p, r) /\ log.pause = p.pause
  BY <1>1, <1>2 DEF Advances
<1>4. p.at = "none" /\ p.pause > 0 /\ r = Phase(p.pause - 1, p.ra, p.wb, "none", p.image)
  BY <1>3 DEF StepOf
<1>5. r.pause = p.pause - 1 /\ r.ra = p.ra /\ r.wb = p.wb /\ r.at = "none" /\ r.image = p.image
  BY <1>4, PhaseParts
<1>6. Tidy(log', log'.sequence) /\ log'.pause = log.pause - 1
  BY <1>1, <1>3, <1>4, ResumeTidy DEF StreamInv
<1> QED BY <1>1, <1>2, <1>3, <1>4, <1>5, <1>6, LogStep

(* The IOP resets and the way back.                                        *)
LEMMA RebootSafe == ASSUME StreamInv, Reboot PROVE Safe
<1>1. /\ op.todo # <<>> /\ Head(op.todo) = "reboot" /\ op' = Next1(op)
      /\ fx' = [fx EXCEPT !.rpc = NoRequest, !.open = 0] /\ UNCHANGED <<wb, ra, build, log, done>>
  BY DEF Reboot, At
<1>2. PICK p, r, q \in Phases : Advances(p, r, q)
  BY <1>1, Advance
<1>3. StepOf("reboot", p, r) /\ log.pause = p.pause /\ Good(op, World, p)
  BY <1>1, <1>2 DEF Advances
<1>4. p.at = "none" /\ r = p
  BY <1>3 DEF StepOf, Balanced
<1>5. World \in Worlds /\ World.fx.open = 0 /\ World.fx.rpc = NoRequest
  BY <1>3, <1>4, GoodWorlds DEF Good, Calm
<1>6. fx \in Clients /\ fx.open = 0 /\ fx.rpc = NoRequest
  BY <1>5, Now, WorldParts
<1>7. fx' = fx
  BY <1>1, <1>6 DEF Clients
<1>8. Tidy(log', log'.sequence)
  BY <1>1 DEF StreamInv
<1> QED BY <1>1, <1>2, <1>3, <1>4, <1>7, <1>8, LogStep

LEMMA MassInitSafe == ASSUME StreamInv, MassInit PROVE Safe
<1>1. /\ op.todo # <<>> /\ Head(op.todo) = "massInit" /\ op' = Next1(op)
      /\ UNCHANGED <<wb, ra, build, done>>
      /\ \/ /\ log' \in UNION {Printf(L) : L \in Attach(log)}
            /\ fx' = [fx EXCEPT !.mode = "WAIT"]
         \/ /\ fx.faults > 0
            /\ fx' = [fx EXCEPT !.faults = @ - 1]
            /\ log' \in Printf(log)
  BY DEF MassInit, At
<1>2. PICK p, r, q \in Phases : Advances(p, r, q)
  BY <1>1, Advance
<1>3. StepOf("massInit", p, r) /\ log.pause = p.pause
  BY <1>1, <1>2 DEF Advances
<1>4. p.at = "none" /\ r = p
  BY <1>3 DEF StepOf, Balanced
<1>5. Tidy(log', log'.sequence) /\ log'.pause = log.pause
  <2>1. Tidy(log, log.sequence)
    BY DEF StreamInv
  <2>2. CASE log' \in UNION {Printf(L) : L \in Attach(log)}
    <3>1. PICK L \in Attach(log) : log' \in Printf(L)
      BY <2>2
    <3>2. Tidy(L, L.sequence) /\ L.pause = log.pause
      BY <2>1, AttachTidy
    <3> QED BY <3>1, <3>2, PrintfTidy
  <2>3. CASE log' \in Printf(log)
    BY <2>1, <2>3, PrintfTidy
  <2> QED BY <1>1, <2>2, <2>3
<1>6. \/ fx' = [fx EXCEPT !.mode = "WAIT"]
      \/ fx.faults > 0 /\ fx' = [fx EXCEPT !.faults = @ - 1]
  BY <1>1
<1> QED BY <1>1, <1>2, <1>3, <1>4, <1>5, <1>6, LogStep

(* The raw session does not start: the operation is over but for the way   *)
(* back.                                                                   *)
LEMMA StartRawSafe == ASSUME StreamInv, StartRaw PROVE Safe
<1>1. /\ op.todo # <<>> /\ Head(op.todo) = "startRaw" /\ UNCHANGED <<wb, ra, build, log, done>>
      /\ \/ op' = Next1(op) /\ fx' = fx
         \/ /\ fx.faults > 0 /\ fx' = [fx EXCEPT !.faults = @ - 1]
            /\ op' = [op EXCEPT !.rc = Failed, !.todo = <<"printf">> \o LeaveRaw]
  BY DEF StartRaw, At
<1>2. PICK p, r, q \in Phases : Advances(p, r, q)
  BY <1>1, Advance
<1>3. StepOf("startRaw", p, r) /\ log.pause = p.pause /\ Good(op, World, p) /\ p \in Phases
  BY <1>1, <1>2 DEF Advances
<1>4. /\ p.at = "none" /\ r = p /\ p.image \notin {"scanned", "searched"} /\ Balanced(p)
  BY <1>3 DEF StepOf, Balanced
<1>5. Tidy(log', log'.sequence) /\ log'.pause = r.pause
  BY <1>1, <1>3, <1>4 DEF StreamInv
<1>6. CASE op' = Next1(op) /\ fx' = fx
  BY <1>1, <1>2, <1>3, <1>4, <1>5, <1>6, LogStep
<1>7. CASE /\ fx.faults > 0 /\ fx' = [fx EXCEPT !.faults = @ - 1]
           /\ op' = [op EXCEPT !.rc = Failed, !.todo = <<"printf">> \o LeaveRaw]
  <2> DEFINE t == <<"printf">> \o LeaveRaw
  <2>1. PICK a, u, v : a = op /\ v = World /\ u = op'
    OBVIOUS
  <2>2. v \in Worlds /\ v.fx = fx /\ v.wb = wb /\ v.ra = ra
    BY <1>3, <2>1, Now, GoodWorlds
  <2>3. Leads(t, p, p) /\ t \in Seq(Steps)
    <3>1. p = Phase(0, 0, 0, "none", p.image) /\ p.image \in Images \ {"scanned", "searched"}
      BY <1>3, <1>4 DEF Phases, Phase, Balanced
    <3> DEFINE c == p.image
    <3>2. p = Phase(0, 0, 0, "none", c) /\ c \in Images \ {"scanned", "searched"}
      BY <3>1
    <3> HIDE DEF c
    <3>3. Leads(t, p, p)
      BY <3>2, RawLeads
    <3> QED BY <3>3 DEF Leads
  <2>4. op \in Operations /\ build \in Builds /\ done \in 0..MaxOps
    BY DEF StreamInv
  <2>5. u = [a EXCEPT !.rc = Failed, !.todo = t] /\ a \in Operations
    BY <1>7, <2>1, <2>4
  <2> HIDE DEF t
  <2>6. /\ u \in Operations /\ u.kind = a.kind /\ u.rc = Failed /\ u.bad = a.bad
        /\ u.pages = a.pages /\ u.got = a.got /\ u.sealed = a.sealed
        /\ u.checked = a.checked /\ u.formatted = a.formatted /\ u.todo = t
    BY <2>3, <2>5 DEF Operations
  <2>7. Good(a, v, p) /\ a.rc # BadEcc
    <3>1. Good(a, v, p)
      BY <1>3, <2>1
    <3>2. Image(a, v, p)
      BY <3>1 DEF Good
    <3> QED BY <1>4, <3>1, <3>2 DEF Image
  <2>8. Good(u, v, p)
    BY <1>4, <2>6, <2>7, FailGood
  <2> DEFINE y == LessFaults(v)
  <2>9. /\ y \in Worlds /\ y.wb = wb /\ y.ra = ra /\ SameFile(y, v) /\ y.fx.mode = v.fx.mode
        /\ y.fx.rpc = v.fx.rpc
    BY <1>7, <2>2, FaultsParts
  <2>10. fx' = y.fx
    BY <1>7, <2>2 DEF LessFaults, Worlds
  <2> HIDE DEF y
  <2>11. Calm(v) /\ v.fx.open = 0
    BY <1>4, <2>8, GoodWorlds DEF Good
  <2>12. v.fx.mode = "WAIT" /\ v.fx.rpc = NoRequest /\ Pending(v)
    BY <2>11 DEF Calm
  <2>13. Good(u, y, p)
    BY <2>2, <2>8, <2>9, <2>12, GoodSame
  <2>14. StreamInv'
    BY <1>1, <1>3, <1>4, <1>5, <2>1, <2>3, <2>4, <2>6, <2>9, <2>10, <2>13, Arrive
  <2>15. Owned /\ Alone
    BY <1>1, <2>2, <2>12 DEF Owned, Alone, InFlight, NoRequest
  <2>16. fx'.file = fx.file /\ fx'.open = fx.open /\ fx.open = 0
    BY <2>2, <2>9, <2>10, <2>11 DEF SameFile
  <2>17. Mapped
    <3>1. CASE op.sealed \/ op.rc < 0 \/ op.kind \notin Exports
      <4>1. Alike
        BY <1>1, <2>1, <2>6, <2>16, <3>1 DEF Alike, Failed
      <4> QED BY <4>1, AlikeMapped
    <3>2. CASE ~op.sealed /\ ~(op.rc < 0) /\ op.kind \in Exports
      <4>1. op'.kind = op.kind /\ ~op'.sealed /\ op'.rc < 0
        BY <2>1, <2>6, <3>2 DEF Failed
      <4> DEFINE k == Size(v)
      <4>2. fx'.file = Units(k) /\ k <= ImageUnits /\ k \in Nat
        BY <2>2, <2>12, <2>16, WorldParts DEF Pending, Size
      <4> HIDE DEF k
      <4> QED BY <1>1, <3>2, <4>1, <4>2, AbortMapped
    <3> QED BY <3>1, <3>2
  <2> QED BY <2>14, <2>15, <2>17 DEF Safe
<1> QED BY <1>1, <1>6, <1>7

(* A call without an image file being open, before or after.               *)
LEMMA RestStep ==
  ASSUME StreamInv, op.todo # <<>>, NEW p, NEW r, NEW q, Advances(p, r, q), p.at = "none",
         NEW x, Good(op, x, r), Keeps(World, x), r.at = "none", r.pause = p.pause,
         op' = Next1(op), fx' = x.fx, wb' = x.wb, ra' = x.ra, UNCHANGED <<build, done>>,
         Tidy(log', log'.sequence), log'.pause = log.pause, log'.file = log.file,
         log'.path = log.path
  PROVE  Safe
<1>1. PICK u, a : u = Next1(op) /\ a = op
  OBVIOUS
<1>2. Tail(op.todo) \in Seq(Steps) /\ op \in Operations
  BY DEF Advances, Leads, StreamInv
<1>3. /\ u \in Operations /\ u.kind = a.kind /\ u.rc = a.rc /\ u.bad = a.bad
      /\ u.pages = a.pages /\ u.got = a.got /\ u.sealed = a.sealed
      /\ u.checked = a.checked /\ u.formatted = a.formatted /\ u.todo = Tail(op.todo)
  BY <1>1, <1>2, NextParts
<1>4. Good(a, x, r)
  BY <1>1
<1>5. Good(u, x, r)
  BY <1>3, <1>4, GoodCall
<1>6. Leaves(World, x) /\ x.fx.file = fx.file
  BY Now DEF Keeps
<1>7. fx'.open = 0 /\ fx.open = 0
  <2>1. Good(op, World, p)
    BY DEF Advances
  <2> QED BY <2>1, Now, GoodWorlds
<1>8. Alike
  BY <1>1, <1>3, <1>6, <1>7 DEF Alike
<1> QED BY <1>1, <1>3, <1>5, <1>6, <1>8, AlikeMapped, CallStep

LEMMA ReadScopeOnSafe == ASSUME StreamInv, ReadScopeOn PROVE Safe
<1>1. /\ op.todo # <<>> /\ Head(op.todo) = "raOn" /\ UNCHANGED <<build, log, done>>
      /\ op' = Next1(op) /\ \E x \in RaSetEnabled(World, TRUE) : Becomes(x)
  BY DEF ReadScopeOn, Scope, Stream, ScopeResult, At
<1>2. PICK x \in RaSetEnabled(World, TRUE) : fx' = x.fx /\ wb' = x.wb /\ ra' = x.ra
  BY <1>1 DEF Becomes
<1>3. PICK p, r, q \in Phases : Advances(p, r, q)
  BY <1>1, Advance
<1>4. StepOf("raOn", p, r) /\ Good(op, World, p)
  BY <1>1, <1>3 DEF Advances
<1>5. p.at = "none" /\ r = Phase(p.pause, p.ra + 1, p.wb, "none", p.image)
  BY <1>4 DEF StepOf
<1>6. r.at = "none" /\ r.pause = p.pause
  BY <1>5, PhaseParts
<1>7. Good(op, x, r) /\ Keeps(World, x)
  BY <1>2, <1>4, ReadOn
<1>8. Tidy(log', log'.sequence)
  BY <1>1 DEF StreamInv
<1> QED BY <1>1, <1>2, <1>3, <1>5, <1>6, <1>7, <1>8, RestStep

LEMMA WriteScopeOnSafe == ASSUME StreamInv, WriteScopeOn PROVE Safe
<1>1. /\ op.todo # <<>> /\ Head(op.todo) = "wbOn" /\ UNCHANGED <<build, log, done>>
      /\ op' = Next1(op) /\ \E x \in WbSetEnabled(World, TRUE) : Becomes(x)
  BY DEF WriteScopeOn, Scope, Stream, ScopeResult, At
<1>2. PICK x \in WbSetEnabled(World, TRUE) : fx' = x.fx /\ wb' = x.wb /\ ra' = x.ra
  BY <1>1 DEF Becomes
<1>3. PICK p, r, q \in Phases : Advances(p, r, q)
  BY <1>1, Advance
<1>4. StepOf("wbOn", p, r) /\ Good(op, World, p)
  BY <1>1, <1>3 DEF Advances
<1>5. p.at = "none" /\ r = Phase(p.pause, p.ra, 1, "none", p.image)
  BY <1>4 DEF StepOf
<1>6. r.at = "none" /\ r.pause = p.pause
  BY <1>5, PhaseParts
<1>7. Good(op, x, r) /\ Keeps(World, x)
  BY <1>2, <1>4, WriteOn
<1>8. Tidy(log', log'.sequence)
  BY <1>1 DEF StreamInv
<1> QED BY <1>1, <1>2, <1>3, <1>5, <1>6, <1>7, <1>8, RestStep

(* The line with the statistics only goes to the ring.                     *)
LEMMA LeaveLog ==
  ASSUME StreamInv, NEW depth, log' \in IF depth = 1 THEN Trace(log) ELSE {log}
  PROVE  /\ Tidy(log', log'.sequence) /\ log'.pause = log.pause /\ log'.file = log.file
         /\ log'.path = log.path
<1>1. Tidy(log, log.sequence)
  BY DEF StreamInv
<1>2. CASE log' \in Trace(log)
  BY <1>1, <1>2, TraceTidy
<1>3. CASE log' = log
  BY <1>1, <1>3
<1> QED BY <1>2, <1>3

LEMMA ReadScopeOffSafe == ASSUME StreamInv, ReadScopeOff PROVE Safe
<1>1. /\ op.todo # <<>> /\ Head(op.todo) = "raOff" /\ UNCHANGED <<build, done>>
      /\ op' = Next1(op) /\ \E x \in RaSetEnabled(World, FALSE) : Becomes(x)
      /\ log' \in IF ra.depth = 1 THEN Trace(log) ELSE {log}
  BY DEF ReadScopeOff, Leave, At
<1>2. PICK x \in RaSetEnabled(World, FALSE) : fx' = x.fx /\ wb' = x.wb /\ ra' = x.ra
  BY <1>1 DEF Becomes
<1>3. PICK p, r, q \in Phases : Advances(p, r, q)
  BY <1>1, Advance
<1>4. StepOf("raOff", p, r) /\ Good(op, World, p) /\ p.ra \in Nat
  BY <1>1, <1>3 DEF Advances, Phases
<1>5. p.at = "none" /\ r = Phase(p.pause, p.ra - 1, p.wb, "none", p.image)
  BY <1>4 DEF StepOf
<1>6. r.at = "none" /\ r.pause = p.pause
  BY <1>5, PhaseParts
<1>7. Good(op, x, r) /\ Keeps(World, x)
  BY <1>2, <1>4, ReadOff
<1>8. /\ Tidy(log', log'.sequence) /\ log'.pause = log.pause /\ log'.file = log.file
      /\ log'.path = log.path
  BY <1>1, LeaveLog
<1> QED BY <1>1, <1>2, <1>3, <1>5, <1>6, <1>7, <1>8, RestStep

LEMMA WriteScopeOffSafe == ASSUME StreamInv, WriteScopeOff PROVE Safe
<1>1. /\ op.todo # <<>> /\ Head(op.todo) = "wbOff" /\ UNCHANGED <<build, done>>
      /\ op' = Next1(op) /\ \E x \in WbSetEnabled(World, FALSE) : Becomes(x)
      /\ log' \in IF wb.depth = 1 THEN Trace(log) ELSE {log}
  BY DEF WriteScopeOff, Leave, At
<1>2. PICK x \in WbSetEnabled(World, FALSE) : fx' = x.fx /\ wb' = x.wb /\ ra' = x.ra
  BY <1>1 DEF Becomes
<1>3. PICK p, r, q \in Phases : Advances(p, r, q)
  BY <1>1, Advance
<1>4. StepOf("wbOff", p, r) /\ Good(op, World, p)
  BY <1>1, <1>3 DEF Advances
<1>5. p.at = "none" /\ r = Phase(p.pause, p.ra, 0, "none", p.image)
  BY <1>4 DEF StepOf
<1>6. r.at = "none" /\ r.pause = p.pause
  BY <1>5, PhaseParts
<1>7. Good(op, x, r) /\ Keeps(World, x)
  BY <1>2, <1>4, WriteOff
<1>8. /\ Tidy(log', log'.sequence) /\ log'.pause = log.pause /\ log'.file = log.file
      /\ log'.path = log.path
  BY <1>1, LeaveLog
<1> QED BY <1>1, <1>2, <1>3, <1>5, <1>6, <1>7, <1>8, RestStep

(* A call of the engine is left out.                                       *)
LEMMA SkipStepSafe == ASSUME StreamInv, SkipStep PROVE Safe
<1> DEFINE h == Head(op.todo)
<1>1. /\ op.todo # <<>> /\ UNCHANGED <<fx, wb, ra, build, log, done>> /\ op' = Next1(op)
      /\ \/ h \in EngineSteps \ {"finish"} /\ op.rc < 0
         \/ h \in {"finish", "close"} /\ fx.open = 0
         \/ h = "openLocate" /\ op.rc # BadEcc
         \/ h = "locate" /\ fx.open = 0
  BY DEF SkipStep, Skip
<1>2. PICK p, r, q \in Phases : Advances(p, r, q)
  BY <1>1, Advance
<1>3. StepOf(h, p, r) /\ Good(op, World, p)
  BY <1>1, <1>2 DEF Advances
<1>4. PICK u, a, v, s : u = Next1(op) /\ a = op /\ v = World /\ s = h
  OBVIOUS
<1>5. Tail(op.todo) \in Seq(Steps) /\ op \in Operations
  BY <1>2 DEF Advances, Leads, StreamInv
<1>6. /\ u \in Operations /\ u.kind = a.kind /\ u.rc = a.rc /\ u.bad = a.bad
      /\ u.pages = a.pages /\ u.got = a.got /\ u.sealed = a.sealed
      /\ u.checked = a.checked /\ u.formatted = a.formatted /\ u.todo = Tail(op.todo)
  BY <1>4, <1>5, NextParts
<1>7. v.fx = fx /\ v.wb = wb /\ v.ra = ra
  BY <1>4, Now
<1>8. /\ StepOf(s, p, r) /\ Good(a, v, p)
      /\ \/ s \in EngineSteps \ {"finish"} /\ a.rc < 0
         \/ s \in {"finish", "close"} /\ v.fx.open = 0
         \/ s = "openLocate" /\ a.rc # BadEcc
         \/ s = "locate" /\ v.fx.open = 0
  BY <1>1, <1>3, <1>4, <1>7
<1> HIDE DEF h
<1>9. Good(a, v, r)
  BY <1>8, SkipGood
<1>10. Good(u, v, r)
  BY <1>6, <1>9, GoodCall
<1>11. r.pause = p.pause
  <2>1. s \notin {"pause", "resume"}
    BY <1>8 DEF EngineSteps
  <2> QED BY <1>8, <2>1, StepPause
<1>12. Leaves(World, v)
  BY <1>4 DEF Leaves
<1>13. Alike
  BY <1>1, <1>4, <1>6 DEF Alike
<1>14. Tidy(log', log'.sequence)
  BY <1>1 DEF StreamInv
<1> QED BY <1>1, <1>2, <1>4, <1>6, <1>7, <1>10, <1>11, <1>12, <1>13, <1>14, AlikeMapped, CallStep

(* While there is an image and nothing failed, an export has sealed it.    *)
LEMMA SealedSoFar ==
  ASSUME StreamInv, NEW p \in Phases, Good(op, World, p), p.image # "no", op.kind \in Exports
  PROVE  op.rc # BadEcc /\ (op.sealed \/ op.rc < 0)
<1>1. Image(op, World, p) /\ op.rc \in {0, Failed, BadEcc} /\ p.image \in Images
  BY DEF Good, StreamInv, Operations, Phases
<1> QED BY <1>1 DEF Image, Images, Failed, BadEcc

LEMMA CreateSafe == ASSUME StreamInv, Create PROVE Safe
<1>1. PICK fd, x :
        /\ fd \in Fds /\ x \in OpenCall(World, fd, <<>>)
        /\ op.todo # <<>> /\ Head(op.todo) = "create" /\ op.rc = 0
        /\ fx' = x.fx /\ wb' = x.wb /\ ra' = x.ra /\ op' = Result(x)
        /\ UNCHANGED <<build, log, done>>
  BY DEF Create, At, Stream, Becomes
<1>2. PICK p, r, q \in Phases : Advances(p, r, q)
  BY <1>1, Advance
<1>3. StepOf("create", p, r) /\ Good(op, World, p) /\ Tail(op.todo) \in Seq(Steps)
  BY <1>1, <1>2 DEF Advances, Leads
<1>4. PICK u, a, v : u = op' /\ a = op /\ v = World
  OBVIOUS
<1>5. a \in Operations /\ a.rc = 0 /\ Tail(a.todo) \in Seq(Steps)
  BY <1>1, <1>3, <1>4 DEF StreamInv
<1>6. u = [Next1(a) EXCEPT !.rc = Lesser(x.rc, 0)]
  <2>1. u = [Next1(a) EXCEPT !.rc = IF a.rc < 0 THEN @ ELSE Lesser(x.rc, 0)]
    BY <1>1, <1>4 DEF Result
  <2> QED BY <1>5, <2>1
<1>7. /\ u.kind = a.kind /\ u.rc = Lesser(x.rc, 0) /\ u.bad = a.bad /\ u.pages = a.pages
      /\ u.got = a.got /\ u.sealed = a.sealed /\ u.checked = a.checked
      /\ u.formatted = a.formatted /\ u.todo = Tail(a.todo)
      /\ Lesser(x.rc, 0) \in {0, Failed, BadEcc} => u \in Operations
  BY <1>5, <1>6 DEF Next1, Operations
<1>8. Good(a, v, p) /\ fd \in Fds /\ x \in OpenCall(v, fd, <<>>)
  BY <1>1, <1>3, <1>4
<1>9. /\ Good(u, x, r) /\ Keeps(v, x) /\ u.rc \in {0, Failed}
      /\ (u.rc = 0 <=> x.fx.open # 0) /\ x.fx.file = <<>> /\ u.pages = 0
      /\ a.kind \in Exports /\ ~a.sealed
  BY <1>3, <1>5, <1>7, <1>8, CreateGood
<1>10. v.fx.open = 0
  <2>1. p.at = "none"
    BY <1>3 DEF StepOf
  <2> QED BY <1>8, <2>1, GoodWorlds
<1>11. Mapped
  <2>1. CASE ~Exporting'
    BY <2>1, EndMapped
  <2>2. CASE Exporting' /\ u.rc = 0
    <3>1. Exporting /\ ~op.sealed /\ ~(op.rc < 0) /\ fx.open = 0
      BY <1>1, <1>4, <1>9, <1>10, Now DEF Exporting
    <3>2. ~op'.sealed /\ ~(op'.rc < 0) /\ fx'.open # 0 /\ fx'.file = <<>> /\ op'.pages = 0
      BY <1>1, <1>4, <1>7, <1>9, <2>2
    <3>3. op'.pages * RecordUnits = 0
      BY <3>2, FileXioAssumption
    <3>4. Promise!StreamOpen
      BY <2>2, <3>1, <3>2, <3>3, Zenon DEF Promise!StreamOpen
    <3> QED BY <3>4 DEF Mapped, Promise!StreamNext
  <2>3. CASE Exporting' /\ u.rc = Failed
    <3> DEFINE k == 0
    <3>1. k \in Nat /\ k <= ImageUnits /\ fx'.file = Units(k)
      BY <1>1, <1>9, FileXioAssumption DEF Units
    <3> HIDE DEF k
    <3>2. op.todo # <<>> /\ ~op.sealed /\ ~(op.rc < 0) /\ op'.kind = op.kind /\ ~op'.sealed
          /\ op'.rc < 0
      BY <1>1, <1>4, <1>7, <1>9, <2>3 DEF Failed
    <3> QED BY <3>1, <3>2, AbortMapped
  <2> QED BY <1>9, <2>1, <2>2, <2>3
<1>12. r.pause = p.pause
  BY <1>3, StepPause
<1>13. Leaves(World, x) /\ u \in Operations /\ u.todo = Tail(op.todo)
  BY <1>4, <1>7, <1>9 DEF Keeps
<1>14. Tidy(log', log'.sequence)
  BY <1>1 DEF StreamInv
<1> QED BY <1>1, <1>2, <1>4, <1>9, <1>11, <1>12, <1>13, <1>14, CallStep

(* The image is opened again for a pass.                                   *)
LEMMA ReopenSafe ==
  ASSUME StreamInv, NEW s, NEW guard, Reopen(s, guard),
         \/ s = "open" /\ op.rc = 0
         \/ s = "openLocate" /\ op.rc = BadEcc
  PROVE  Safe
<1>1. PICK fd, x :
        /\ fd \in Fds /\ x \in OpenCall(World, fd, fx.file)
        /\ op.todo # <<>> /\ Head(op.todo) = s
        /\ fx' = x.fx /\ wb' = x.wb /\ ra' = x.ra
        /\ op' = [Result(x) EXCEPT !.got = <<>>, !.pages = 0,
                                   !.rc = IF x.rc < 0 THEN x.rc ELSE op.rc]
        /\ UNCHANGED <<build, log, done>>
  BY DEF Reopen, At, Stream, Becomes
<1>2. PICK p, r, q \in Phases : Advances(p, r, q)
  BY <1>1, Advance
<1>3. StepOf(s, p, r) /\ Good(op, World, p) /\ Tail(op.todo) \in Seq(Steps)
  BY <1>1, <1>2 DEF Advances, Leads
<1>4. PICK u, a, v : u = op' /\ a = op /\ v = World
  OBVIOUS
<1>5. a \in Operations /\ a.rc = op.rc /\ Tail(a.todo) \in Seq(Steps)
  BY <1>3, <1>4 DEF StreamInv
<1>6. u = [Result(x) EXCEPT !.got = <<>>, !.pages = 0, !.rc = IF x.rc < 0 THEN x.rc ELSE a.rc]
  BY <1>1, <1>4
<1>7. Result(x) = [Next1(a) EXCEPT !.rc = IF a.rc < 0 THEN @ ELSE Lesser(x.rc, 0)]
  BY <1>4 DEF Result
<1>8. /\ u.kind = a.kind /\ u.rc = (IF x.rc < 0 THEN x.rc ELSE a.rc) /\ u.bad = a.bad
      /\ u.pages = 0 /\ u.got = <<>> /\ u.sealed = a.sealed /\ u.checked = a.checked
      /\ u.formatted = a.formatted /\ u.todo = Tail(a.todo)
      /\ (x.rc < 0 => x.rc = Failed) => u \in Operations
  <2>1. Next1(a) \in Operations /\ Next1(a).todo = Tail(a.todo) /\ Next1(a).kind = a.kind
        /\ Next1(a).bad = a.bad /\ Next1(a).sealed = a.sealed
        /\ Next1(a).checked = a.checked /\ Next1(a).formatted = a.formatted /\ Next1(a).rc = a.rc
    BY <1>5, NextParts
  <2>2. PICK b, c, e, f :
          /\ b = Next1(a) /\ c = Result(x) /\ e = (IF a.rc < 0 THEN b.rc ELSE Lesser(x.rc, 0))
          /\ f = (IF x.rc < 0 THEN x.rc ELSE a.rc)
    OBVIOUS
  <2>3. c = [b EXCEPT !.rc = e] /\ u = [c EXCEPT !.got = <<>>, !.pages = 0, !.rc = f]
    BY <1>6, <1>7, <2>2
  <2>4. /\ b \in Operations /\ b.todo = Tail(a.todo) /\ b.kind = a.kind /\ b.bad = a.bad
        /\ b.sealed = a.sealed /\ b.checked = a.checked /\ b.formatted = a.formatted
    BY <2>1, <2>2
  <2>5. /\ u.kind = a.kind /\ u.rc = f /\ u.bad = a.bad /\ u.pages = 0 /\ u.got = <<>>
        /\ u.sealed = a.sealed /\ u.checked = a.checked /\ u.formatted = a.formatted
        /\ u.todo = Tail(a.todo)
    BY <2>3, <2>4 DEF Operations
  <2>6. (x.rc < 0 => x.rc = Failed) => f \in {0, Failed, BadEcc}
    BY <1>5, <2>2 DEF Operations
  <2>7. ASSUME f \in {0, Failed, BadEcc} PROVE u \in Operations
    <3>1. c \in [kind : Kinds \cup {"none"}, todo : Seq(Steps), rc : {e}, bad : Nat,
                 pages : Nat, asides : Nat, got : Seq(Int), found : Nat, sealed : BOOLEAN,
                 checked : BOOLEAN, formatted : BOOLEAN]
      BY <2>3, <2>4 DEF Operations
    <3>2. <<>> \in Seq(Int) /\ 0 \in Nat
      OBVIOUS
    <3> QED BY <2>3, <2>7, <3>1, <3>2 DEF Operations
  <2> QED BY <2>2, <2>5, <2>6, <2>7
<1>9. Good(a, v, p) /\ fd \in Fds /\ x \in OpenCall(v, fd, v.fx.file)
  BY <1>1, <1>3, <1>4, Now
<1>10. Good(u, x, r) /\ Keeps(v, x) /\ (x.rc < 0 => x.rc = Failed)
  <2>1. \/ s = "open" /\ a.rc = 0
        \/ s = "openLocate" /\ a.rc = BadEcc
    BY <1>4
  <2>2. Good(u, x, r) /\ Keeps(v, x) /\ x.rc \in Fds \cup {Failed}
    BY <1>3, <1>8, <1>9, <2>1, OpenGood
  <2>3. \A n \in Fds : ~(n < 0)
    BY FileXioAssumption
  <2> QED BY <2>2, <2>3
<1>11. Alike
  <2>1. p.image # "no"
    BY <1>3 DEF StepOf
  <2>2. op.kind \in Exports => op.sealed
    BY <1>2, <1>3, <2>1, SealedSoFar DEF BadEcc
  <2>3. fx'.file = fx.file
    BY <1>1, <1>4, <1>10, Now DEF Keeps
  <2> QED BY <1>1, <1>4, <1>8, <2>2, <2>3 DEF Alike
<1>12. r.pause = p.pause
  BY <1>3, StepPause
<1>13. Leaves(World, x) /\ u \in Operations /\ u.todo = Tail(op.todo)
  BY <1>4, <1>8, <1>10 DEF Keeps
<1>14. Tidy(log', log'.sequence)
  BY <1>1 DEF StreamInv
<1> QED BY <1>1, <1>2, <1>4, <1>10, <1>11, <1>12, <1>13, <1>14, AlikeMapped, CallStep

LEMMA OpenImageSafe == ASSUME StreamInv, OpenImage PROVE Safe
<1>1. Reopen("open", op.rc = 0) /\ op.rc = 0
  BY DEF OpenImage, Reopen
<1> QED BY <1>1, ReopenSafe

LEMMA OpenLocateSafe == ASSUME StreamInv, OpenLocate PROVE Safe
<1>1. Reopen("openLocate", op.rc = BadEcc) /\ op.rc = BadEcc
  BY DEF OpenLocate, Reopen
<1> QED BY <1>1, ReopenSafe

LEMMA CloseSafe == ASSUME StreamInv, Close PROVE Safe
<1>1. PICK x \in WrapClose(World) :
        /\ op.todo # <<>> /\ Head(op.todo) = "close" /\ fx.open # 0
        /\ fx' = x.fx /\ wb' = x.wb /\ ra' = x.ra /\ op' = Next1(op)
        /\ UNCHANGED <<build, log, done>>
  BY DEF Close, At, Stream, Becomes
<1>2. PICK p, r, q \in Phases : Advances(p, r, q)
  BY <1>1, Advance
<1>3. StepOf("close", p, r) /\ Good(op, World, p) /\ Tail(op.todo) \in Seq(Steps)
  BY <1>1, <1>2 DEF Advances, Leads
<1>4. PICK u, a, v : u = Next1(op) /\ a = op /\ v = World
  OBVIOUS
<1>5. op \in Operations
  BY DEF StreamInv
<1>6. /\ u \in Operations /\ u.kind = a.kind /\ u.rc = a.rc /\ u.bad = a.bad
      /\ u.pages = a.pages /\ u.got = a.got /\ u.sealed = a.sealed
      /\ u.checked = a.checked /\ u.formatted = a.formatted /\ u.todo = Tail(op.todo)
  BY <1>3, <1>4, <1>5, NextParts
<1>7. Good(a, v, p) /\ a.pages \in Nat /\ v.fx.open # 0 /\ x \in WrapClose(v)
  BY <1>1, <1>3, <1>4, <1>5, Now DEF Operations
<1>8. Good(a, x, r) /\ Keeps(v, x)
  BY <1>3, <1>7, CloseGood
<1>9. Good(u, x, r)
  BY <1>6, <1>8, GoodCall
<1>10. Alike
  <2>1. p.image # "no"
    <3>1. Place(op, World, p) /\ p.at \in {"read", "locating"}
      BY <1>3 DEF Good, StepOf
    <3> QED BY <3>1 DEF Place
  <2>2. op.kind \in Exports => op.sealed \/ op.rc < 0
    BY <1>2, <1>3, <2>1, SealedSoFar
  <2>3. fx'.file = fx.file
    BY <1>1, <1>4, <1>8, Now DEF Keeps
  <2> QED BY <1>1, <1>4, <1>6, <2>2, <2>3 DEF Alike
<1>11. r.pause = p.pause
  BY <1>3, StepPause
<1>12. Leaves(World, x)
  BY <1>4, <1>8 DEF Keeps
<1>13. Tidy(log', log'.sequence)
  BY <1>1 DEF StreamInv
<1> QED BY <1>1, <1>2, <1>4, <1>6, <1>9, <1>10, <1>11, <1>12, <1>13, AlikeMapped, CallStep

LEMMA McFormatSafe == ASSUME StreamInv, McFormat PROVE Safe
<1>1. /\ op.todo # <<>> /\ Head(op.todo) = "mcFormat" /\ op.rc = 0
      /\ UNCHANGED <<fx, wb, ra, build, log, done>>
      /\ \/ op' = [Next1(op) EXCEPT !.formatted = TRUE]
         \/ op' = [Next1(op) EXCEPT !.rc = Failed]
  BY DEF McFormat, At
<1>2. PICK p, r, q \in Phases : Advances(p, r, q)
  BY <1>1, Advance
<1>3. StepOf("mcFormat", p, r) /\ Good(op, World, p) /\ Tail(op.todo) \in Seq(Steps)
  BY <1>1, <1>2 DEF Advances, Leads
<1>4. p.at = "none" /\ p.image = "made" /\ r = p
  BY <1>3 DEF StepOf
<1>5. PICK u, a, v : u = op' /\ a = op /\ v = World
  OBVIOUS
<1>6. a \in Operations /\ a.rc = 0 /\ Tail(a.todo) \in Seq(Steps)
  BY <1>1, <1>3, <1>5 DEF StreamInv
<1>7. /\ u \in Operations /\ u.kind = a.kind /\ u.bad = a.bad /\ u.pages = a.pages
      /\ u.got = a.got /\ u.sealed = a.sealed /\ u.checked = a.checked
      /\ u.todo = Tail(a.todo)
      /\ \/ u.rc = a.rc /\ u.formatted = TRUE
         \/ u.rc = Failed /\ u.formatted = a.formatted
  BY <1>1, <1>5, <1>6 DEF Next1, Operations
<1>8. Good(a, v, p) /\ a.rc # BadEcc
  BY <1>3, <1>5, <1>6 DEF BadEcc
<1>9. Good(u, v, p)
  <2>1. CASE u.rc = a.rc /\ u.formatted = TRUE
    BY <1>4, <1>6, <1>7, <1>8, <2>1, FormatGood
  <2>2. CASE u.rc = Failed /\ u.formatted = a.formatted
    BY <1>4, <1>7, <1>8, <2>2, FailGood
  <2> QED BY <1>7, <2>1, <2>2
<1>10. Alike
  <2>1. op.kind \in Exports => op.sealed
    BY <1>1, <1>2, <1>3, <1>4, SealedSoFar
  <2> QED BY <1>1, <1>5, <1>7, <2>1 DEF Alike
<1>11. Leaves(World, v) /\ v.fx = fx /\ v.wb = wb /\ v.ra = ra
  BY <1>5, Now DEF Leaves
<1>12. Tidy(log', log'.sequence)
  BY <1>1 DEF StreamInv
<1> QED BY <1>1, <1>2, <1>4, <1>5, <1>7, <1>9, <1>10, <1>11, <1>12, AlikeMapped, CallStep

LEMMA SidecarSafe == ASSUME StreamInv, Sidecar PROVE Safe
<1> DEFINE text == <<>>
           W(y) == WrapWrite(y, y.fx.open, text)
           C(y) == WrapClose(y)
           B(y) == {PutBack(y, fx.file)}
<1>1. PICK fd, x :
        /\ fd \in Fds /\ x \in After(After(Then(OpenCall(World, fd, <<>>), W), C), B)
        /\ op.todo # <<>> /\ Head(op.todo) = "sidecar" /\ op.rc = 0
        /\ fx' = x.fx /\ wb' = x.wb /\ ra' = x.ra /\ op' = Next1(op)
        /\ UNCHANGED <<build, log, done>>
  BY DEF Sidecar, At, Stream, Becomes, PutBack
<1>2. PICK c \in After(Then(OpenCall(World, fd, <<>>), W), C) : x = PutBack(c, fx.file)
  BY <1>1 DEF After
<1>3. PICK b \in Then(OpenCall(World, fd, <<>>), W) : c \in WrapClose(b)
  BY <1>2 DEF After
<1>4. PICK e \in OpenCall(World, fd, <<>>) : b \in IF e.rc < 0 THEN {e} ELSE W(e)
  BY <1>3 DEF Then
<1>5. IF e.rc < 0 THEN b = e ELSE b \in WrapWrite(e, e.fx.open, <<>>)
  BY <1>4
<1> HIDE DEF W, C, B, text
<1>6. PICK p, r, q \in Phases : Advances(p, r, q)
  BY <1>1, Advance
<1>7. StepOf("sidecar", p, r) /\ Good(op, World, p)
  BY <1>1, <1>6 DEF Advances
<1>8. p.at = "none" /\ p.image = "made" /\ r = p
  BY <1>7 DEF StepOf
<1>9. PICK a, v : a = op /\ v = World
  OBVIOUS
<1>10. /\ Good(a, v, p) /\ fd \in Fds /\ e \in OpenCall(v, fd, <<>>)
       /\ x = PutBack(c, v.fx.file)
  BY <1>1, <1>2, <1>4, <1>7, <1>9, Now
<1>11. Good(a, x, r) /\ Keeps(v, x)
  BY <1>3, <1>5, <1>7, <1>10, SidecarGood
<1>12. Good(op, x, r) /\ Keeps(World, x)
  BY <1>9, <1>11
<1>13. Tidy(log', log'.sequence)
  BY <1>1 DEF StreamInv
<1> QED BY <1>1, <1>6, <1>8, <1>12, <1>13, RestStep

(* A record of a pass over the image.                                      *)
LEMMA PassSafe ==
  ASSUME StreamInv, NEW x \in ReadExact(World), NEW u \in Operations, op.todo # <<>>,
         Head(op.todo) \in {"verify", "program"}, op.rc = 0,
         fx' = x.fx, wb' = x.wb, ra' = x.ra, op' = u, UNCHANGED <<build, log, done>>,
         u.kind = op.kind, u.bad = op.bad, u.sealed = op.sealed, u.formatted = op.formatted,
         \/ u.got = op.got /\ u.pages = op.pages /\ u.rc = Failed
         \/ x.rc >= 0 /\ u.got = op.got \o x.out /\ u.pages = op.pages + 1,
         u.rc = BadEcc => op.bad # 0, op.checked => u.checked,
         \/ /\ u.todo = Tail(op.todo)
            /\ u.rc = 0 => /\ ~(Taken(u) < Len(fx.file)) /\ u.checked
                           /\ u.got = Units(ImageUnits) \/ ~op.checked
         \/ /\ u.todo = op.todo /\ u.checked = op.checked
            /\ u.rc = 0 => Taken(u) < Len(fx.file)
  PROVE  Safe
<1>1. PICK p, r, q \in Phases : Advances(p, r, q)
  BY Advance
<1>2. StepOf(Head(op.todo), p, r) /\ Good(op, World, p)
  BY <1>1 DEF Advances
<1>3. p.at = "reading" /\ r = Phase(p.pause, p.ra, p.wb, "read", Seen(p.image)) /\ p.ra \in Nat
  BY <1>2 DEF StepOf, Phases
<1>4. PICK a, v : a = op /\ v = World
  OBVIOUS
<1>5. /\ a.pages \in Nat /\ a.got \in Seq(Int) /\ a.checked \in BOOLEAN /\ Good(a, v, p)
      /\ a.rc = 0
      /\ v.rc = 0 /\ v.out = <<>> /\ x \in ReadExact(v) /\ v.fx = fx
  BY <1>2, <1>4, Now DEF StreamInv, Operations
<1>6. Place(a, v, p) /\ Reading(a, v, p)
  BY <1>5 DEF Good
<1>7. p.image # "no" /\ fx.file = Units(ImageUnits)
  BY <1>3, <1>5, <1>6 DEF Place, Reading
<1>8. Len(fx.file) = ImageUnits
  BY <1>7, UnitsParts, FileXioAssumption
<1>9. PICK s :
        \/ /\ s = r /\ u.todo = Tail(op.todo)
           /\ u.rc = 0 => /\ ~(Taken(u) < ImageUnits) /\ u.checked
                          /\ u.got = Units(ImageUnits) \/ ~op.checked
        \/ s = p /\ u.todo = op.todo /\ u.checked = op.checked /\ (u.rc = 0 => Taken(u) < ImageUnits)
  BY <1>8
<1>10. r # p
  BY <1>3, PhaseParts
<1>11. u.rc = 0 => (s = p <=> Taken(u) < ImageUnits)
  BY <1>9, <1>10
<1>12. Good(u, x, s) /\ Keeps(v, x)
  <2>1. Passing(a, v, p, x)
    BY <1>3, <1>5 DEF Passing
  <2>2. Passed(a, x, u)
    BY <1>4 DEF Passed, Operations
  <2>3. Whither(a, p, r, u, s)
    BY <1>4, <1>9, <1>10, <1>11 DEF Whither
  <2> QED BY <1>3, <2>1, <2>2, <2>3, ReadGood
<1>13. Alike
  <2>1. op.kind \in Exports => op.sealed
    BY <1>1, <1>2, <1>7, SealedSoFar
  <2>2. fx'.file = fx.file
    BY <1>5, <1>12 DEF Keeps
  <2> QED BY <2>1, <2>2 DEF Alike
<1>14. s.pause = p.pause
  BY <1>3, <1>9, PhaseParts
<1>15. Leaves(World, x) /\ Tidy(log', log'.sequence)
  BY <1>4, <1>12 DEF Keeps, StreamInv
<1> QED BY <1>1, <1>9, <1>12, <1>13, <1>14, <1>15, AlikeMapped, CallStep

(* The operation after a record.                                           *)
LEMMA CountParts ==
  ASSUME NEW o \in Operations, NEW t \in Seq(Steps), NEW c \in {0, Failed, BadEcc},
         NEW d \in Seq(Int), NEW f \in Nat, NEW k \in BOOLEAN
  PROVE  /\ [o EXCEPT !.todo = t, !.rc = c] \in Operations
         /\ [o EXCEPT !.todo = t, !.found = f] \in Operations
         /\ [o EXCEPT !.pages = @ + 1, !.got = @ \o d, !.todo = t, !.rc = c,
                       !.checked = k] \in Operations
<1>1. o.got \o d \in Seq(Int) /\ o.pages + 1 \in Nat
  BY DEF Operations
<1> QED BY <1>1 DEF Operations

LEMMA VerifySafe == ASSUME StreamInv, Verify PROVE Safe
<1> DEFINE Page(x) ==
            IF x.rc < 0 THEN Result(x)
            ELSE IF HoldsBad(x.out) THEN [Next1(Count(x)) EXCEPT !.rc = BadEcc]
            ELSE IF (op.pages + 1) * RecordUnits < Len(fx.file) THEN Count(x)
            ELSE [Next1(Count(x)) EXCEPT !.rc = IF op.kind \in {"export", "format"}
                               /\ op.got \o x.out # Units(ImageUnits) THEN Failed ELSE 0,
                               !.checked = TRUE]
<1>1. PICK x \in ReadExact(World) :
        /\ op.todo # <<>> /\ Head(op.todo) = "verify" /\ op.rc = 0
        /\ fx' = x.fx /\ wb' = x.wb /\ ra' = x.ra /\ op' = Page(x)
        /\ UNCHANGED <<build, log, done>>
  BY DEF Verify, At, Stream, Becomes
<1>2. PICK p, r, q \in Phases : Advances(p, r, q)
  BY <1>1, Advance
<1>3. Tail(op.todo) \in Seq(Steps) /\ op.todo \in Seq(Steps) /\ op \in Operations
  BY <1>2 DEF Advances, Leads, StreamInv
<1>4. x \in Worlds /\ x.rc \in {0, Failed} /\ (op.kind \in Exports \/ ~op.checked)
  <2>1. StepOf("verify", p, r) /\ Good(op, World, p) /\ p.ra \in Nat
    BY <1>1, <1>2 DEF Advances, Phases
  <2>2. p.at = "reading"
    BY <2>1 DEF StepOf
  <2>3. World.fx.open # 0 /\ World.rc = 0 /\ World.out = <<>>
    BY <1>1, <2>1, <2>2, Now DEF Good, Place
  <2>4. op.kind \in Exports \/ ~op.checked
    <3>1. Image(op, World, p) /\ Place(op, World, p) /\ p.image \in Images
      BY <1>2, <2>1 DEF Good, Phases
    <3>2. p.image \in {"made", "given", "scanned"}
      BY <2>1, <2>2, <3>1 DEF StepOf, Place, Images
    <3> QED BY <3>1, <3>2 DEF Image
  <2> QED BY <2>1, <2>2, <2>3, <2>4, ReadCalm
<1>5. x.out \in Seq(Int)
  BY <1>4, WorldParts
<1>6. PICK a, t, d, u : a = op /\ t = Tail(op.todo) /\ d = x.out /\ u = op'
  OBVIOUS
<1>7. a \in Operations /\ t \in Seq(Steps) /\ d \in Seq(Int) /\ a.rc = 0 /\ a.todo \in Seq(Steps)
      /\ a.checked \in BOOLEAN
  BY <1>1, <1>3, <1>5, <1>6 DEF Operations
<1>8. Failed < 0 /\ BadEcc < 0 /\ Failed # BadEcc /\ Failed # 0 /\ BadEcc # 0 /\ ~(0 < 0)
  BY DEF Failed, BadEcc
<1>9. CASE x.rc < 0
  <2>1. u = [a EXCEPT !.todo = t, !.rc = Failed]
    <3>1. u = [Next1(a) EXCEPT !.rc = IF a.rc < 0 THEN @ ELSE Lesser(x.rc, 0)]
      BY <1>1, <1>6, <1>9 DEF Result
    <3>2. Next1(a) = [a EXCEPT !.todo = t]
      BY <1>6 DEF Next1
    <3>3. Lesser(x.rc, 0) = Failed
      BY <1>4, <1>9 DEF Lesser, Failed
    <3> QED BY <1>7, <1>8, <3>1, <3>2, <3>3
  <2>2. /\ u.kind = a.kind /\ u.bad = a.bad /\ u.sealed = a.sealed /\ u.formatted = a.formatted
        /\ u.got = a.got /\ u.pages = a.pages /\ u.rc = Failed /\ u.todo = t
        /\ u.checked = a.checked
    BY <1>7, <2>1 DEF Operations
  <2>3. u \in Operations
    BY <1>7, <2>1, CountParts
  <2> HIDE DEF Page
  <2> QED BY <1>1, <1>4, <1>6, <1>8, <1>9, <2>2, <2>3, PassSafe
<1>10. CASE ~(x.rc < 0)
  <2>1. PICK c, l, k :
          /\ u = [a EXCEPT !.pages = @ + 1, !.got = @ \o d, !.todo = l, !.rc = c, !.checked = k]
          /\ c \in {0, Failed, BadEcc} /\ (c = BadEcc => a.bad # 0)
          /\ \/ /\ l = t /\ k \in {TRUE, a.checked}
                /\ c = 0 => /\ ~((a.pages + 1) * RecordUnits < Len(fx.file)) /\ k = TRUE
                            /\ a.kind \in Exports => a.got \o d = Units(ImageUnits)
             \/ /\ l = a.todo /\ k = a.checked
                /\ (a.pages + 1) * RecordUnits < Len(fx.file)
    <3> DEFINE b == [a EXCEPT !.pages = @ + 1, !.got = @ \o d]
    <3>1. Count(x) = b /\ b.todo = a.todo /\ b.rc = 0
      BY <1>6, <1>7 DEF Count, Operations
    <3>2. Next1(b) = [a EXCEPT !.pages = @ + 1, !.got = @ \o d, !.todo = t]
      BY <1>6, <1>7 DEF Next1, Operations
    <3>3. CASE HoldsBad(d)
      <4>1. u = [Next1(b) EXCEPT !.rc = BadEcc]
        BY <1>1, <1>6, <1>10, <3>1, <3>3
      <4>2. u = [a EXCEPT !.pages = @ + 1, !.got = @ \o d, !.todo = t, !.rc = BadEcc,
                       !.checked = a.checked]
        BY <1>7, <3>2, <4>1 DEF Operations
      <4>3. a.bad # 0
        BY <1>6, <3>3 DEF HoldsBad
      <4> QED BY <1>8, <4>2, <4>3
    <3>4. CASE ~HoldsBad(d) /\ (a.pages + 1) * RecordUnits < Len(fx.file)
      <4>1. u = b
        BY <1>1, <1>6, <1>10, <3>1, <3>4
      <4>2. u = [a EXCEPT !.pages = @ + 1, !.got = @ \o d, !.todo = a.todo, !.rc = 0,
                       !.checked = a.checked]
        BY <1>7, <4>1 DEF Operations
      <4> QED BY <1>8, <3>4, <4>2
    <3>5. CASE ~HoldsBad(d) /\ ~((a.pages + 1) * RecordUnits < Len(fx.file))
      <4> DEFINE c == IF op.kind \in {"export", "format"} /\ op.got \o x.out # Units(ImageUnits)
                      THEN Failed ELSE 0
      <4>1. u = [Next1(b) EXCEPT !.rc = c, !.checked = TRUE]
        BY <1>1, <1>6, <1>10, <3>1, <3>5
      <4>2. c \in {0, Failed} /\ (c = 0 /\ a.kind \in Exports => a.got \o d = Units(ImageUnits))
        BY <1>6, <1>8 DEF Exports
      <4> HIDE DEF c
      <4>3. u = [a EXCEPT !.pages = @ + 1, !.got = @ \o d, !.todo = t, !.rc = c,
                       !.checked = TRUE]
        BY <3>2, <4>1
      <4> QED BY <1>8, <3>5, <4>2, <4>3
    <3> QED BY <3>3, <3>4, <3>5
  <2>2. /\ u.kind = a.kind /\ u.bad = a.bad /\ u.sealed = a.sealed /\ u.formatted = a.formatted
        /\ u.got = a.got \o d /\ u.pages = a.pages + 1 /\ u.rc = c /\ u.todo = l
        /\ u.checked = k
    BY <1>7, <2>1 DEF Operations
  <2>3. u \in Operations
    <3>1. l \in Seq(Steps) /\ k \in BOOLEAN
      BY <1>7, <2>1
    <3> QED BY <1>7, <2>1, <3>1, CountParts
  <2>4. Taken(u) = (a.pages + 1) * RecordUnits
    BY <2>2 DEF Taken
  <2>5. \/ /\ u.todo = Tail(op.todo)
           /\ u.rc = 0 => /\ ~(Taken(u) < Len(fx.file)) /\ u.checked
                          /\ u.got = Units(ImageUnits) \/ ~op.checked
        \/ /\ u.todo = op.todo /\ u.checked = op.checked
           /\ u.rc = 0 => Taken(u) < Len(fx.file)
    BY <1>4, <1>6, <2>1, <2>2, <2>4
  <2>6. (u.rc = BadEcc => op.bad # 0) /\ (op.checked => u.checked)
    BY <1>6, <2>1, <2>2
  <2>7. x.rc >= 0
    BY <1>4, <1>8, <1>10
  <2> HIDE DEF Page
  <2> QED BY <1>1, <1>6, <1>10, <2>2, <2>3, <2>5, <2>6, <2>7, PassSafe
<1> QED BY <1>9, <1>10

LEMMA ProgramSafe == ASSUME StreamInv, Program PROVE Safe
<1> DEFINE Done(x) == [Next1(Count(x)) EXCEPT
                       !.rc = IF op.got \o x.out = Units(ImageUnits) THEN 0 ELSE Failed]
           Page(x) == IF x.rc < 0 THEN Result(x)
                   ELSE IF (op.pages + 1) * RecordUnits = ImageUnits THEN Done(x)
                   ELSE Count(x)
           Refused(x) == [Next1(op) EXCEPT !.rc = Failed]
<1>1. PICK x \in ReadExact(World) :
        /\ op.todo # <<>> /\ Head(op.todo) = "program" /\ op.rc = 0
        /\ fx' = x.fx /\ wb' = x.wb /\ ra' = x.ra /\ op' \in {Page(x), Refused(x)}
        /\ UNCHANGED <<build, log, done>>
  BY DEF Program, At, Stream, Becomes
<1>2. PICK p, r, q \in Phases : Advances(p, r, q)
  BY <1>1, Advance
<1>3. Tail(op.todo) \in Seq(Steps) /\ op.todo \in Seq(Steps) /\ op \in Operations
  BY <1>2 DEF Advances, Leads, StreamInv
<1>a. /\ StepOf("program", p, r) /\ Good(op, World, p) /\ p.ra \in Nat /\ p.at = "reading"
      /\ World.rc = 0 /\ World.out = <<>> /\ op.pages \in Nat /\ op.checked
  <2>1. StepOf("program", p, r) /\ Good(op, World, p) /\ p.ra \in Nat
    BY <1>1, <1>2 DEF Advances, Phases
  <2>2. p.image = "checked" /\ Image(op, World, p)
    BY <2>1 DEF StepOf, Good
  <2>3. op.checked
    BY <1>1, <2>2 DEF Image
  <2> QED BY <1>3, <2>1, <2>3, Now DEF StepOf, Operations
<1>b. World.fx.open # 0 /\ fx.file = Units(ImageUnits) /\ Taken(op) < ImageUnits
  <2>1. Place(op, World, p) /\ Reading(op, World, p) /\ World.fx = fx
    BY <1>a, Now DEF Good
  <2> QED BY <1>1, <1>a, <2>1 DEF Place, Reading
<1>4. x \in Worlds /\ x.rc \in {0, Failed}
  BY <1>a, <1>b, ReadCalm
<1>5. x.out \in Seq(Int)
  BY <1>4, WorldParts
<1>c. Len(fx.file) = ImageUnits
  BY <1>b, UnitsParts, FileXioAssumption
<1>d. (op.pages + 1) * RecordUnits <= ImageUnits /\ (op.pages + 1) * RecordUnits \in Nat
  <2>1. op.pages * RecordUnits < ImageUnits
    BY <1>b DEF Taken
  <2> QED BY <1>a, <2>1, NextRecord
<1>6. PICK a, t, d, u : a = op /\ t = Tail(op.todo) /\ d = x.out /\ u = op'
  OBVIOUS
<1>7. a \in Operations /\ t \in Seq(Steps) /\ d \in Seq(Int) /\ a.rc = 0 /\ a.todo \in Seq(Steps)
      /\ a.checked \in BOOLEAN
  BY <1>1, <1>3, <1>5, <1>6 DEF Operations
<1>8. Failed < 0 /\ BadEcc < 0 /\ Failed # BadEcc /\ Failed # 0 /\ BadEcc # 0 /\ ~(0 < 0)
  BY DEF Failed, BadEcc
<1>9. CASE x.rc < 0 \/ op' = Refused(x)
  <2>1. u = [a EXCEPT !.todo = t, !.rc = Failed]
    <3>1. \/ x.rc < 0 /\ u = [Next1(a) EXCEPT !.rc = IF a.rc < 0 THEN @ ELSE Lesser(x.rc, 0)]
          \/ u = [Next1(a) EXCEPT !.rc = Failed]
      BY <1>1, <1>6, <1>9 DEF Result
    <3>2. Next1(a) = [a EXCEPT !.todo = t]
      BY <1>6 DEF Next1
    <3>3. x.rc < 0 => Lesser(x.rc, 0) = Failed
      BY <1>4 DEF Lesser, Failed
    <3> QED BY <1>7, <1>8, <3>1, <3>2, <3>3
  <2>2. /\ u.kind = a.kind /\ u.bad = a.bad /\ u.sealed = a.sealed /\ u.formatted = a.formatted
        /\ u.got = a.got /\ u.pages = a.pages /\ u.rc = Failed /\ u.todo = t
        /\ u.checked = a.checked
    BY <1>7, <2>1 DEF Operations
  <2>3. u \in Operations
    BY <1>7, <2>1, CountParts
  <2> HIDE DEF Page, Done, Refused
  <2> QED BY <1>1, <1>4, <1>6, <1>8, <1>9, <2>2, <2>3, PassSafe
<1>10. CASE ~(x.rc < 0) /\ op' = Page(x)
  <2>1. PICK c, l : /\ u = [a EXCEPT !.pages = @ + 1, !.got = @ \o d, !.todo = l, !.rc = c,
                                      !.checked = a.checked]
                    /\ c \in {0, Failed}
                    /\ \/ /\ l = t /\ (a.pages + 1) * RecordUnits = ImageUnits
                          /\ c = 0 => a.got \o d = Units(ImageUnits)
                       \/ /\ l = a.todo /\ (a.pages + 1) * RecordUnits # ImageUnits
    <3> DEFINE b == [a EXCEPT !.pages = @ + 1, !.got = @ \o d]
    <3>1. Count(x) = b /\ b.todo = a.todo /\ b.rc = 0
      BY <1>6, <1>7 DEF Count, Operations
    <3>2. Next1(b) = [a EXCEPT !.pages = @ + 1, !.got = @ \o d, !.todo = t]
      BY <1>6, <1>7 DEF Next1, Operations
    <3>3. CASE (a.pages + 1) * RecordUnits = ImageUnits
      <4> DEFINE c == IF op.got \o x.out = Units(ImageUnits) THEN 0 ELSE Failed
      <4>1. u = [Next1(b) EXCEPT !.rc = c]
        BY <1>6, <1>10, <3>1, <3>3
      <4>2. c \in {0, Failed} /\ (c = 0 => a.got \o d = Units(ImageUnits))
        BY <1>6, <1>8
      <4> HIDE DEF c
      <4>3. u = [a EXCEPT !.pages = @ + 1, !.got = @ \o d, !.todo = t, !.rc = c,
                       !.checked = a.checked]
        BY <1>7, <3>2, <4>1 DEF Operations
      <4> QED BY <3>3, <4>2, <4>3
    <3>4. CASE (a.pages + 1) * RecordUnits # ImageUnits
      <4>1. u = b
        BY <1>6, <1>10, <3>1, <3>4
      <4>2. u = [a EXCEPT !.pages = @ + 1, !.got = @ \o d, !.todo = a.todo, !.rc = 0,
                       !.checked = a.checked]
        BY <1>7, <4>1 DEF Operations
      <4> QED BY <3>4, <4>2
    <3> QED BY <3>3, <3>4
  <2>2. /\ u.kind = a.kind /\ u.bad = a.bad /\ u.sealed = a.sealed /\ u.formatted = a.formatted
        /\ u.got = a.got \o d /\ u.pages = a.pages + 1 /\ u.rc = c /\ u.todo = l
        /\ u.checked = a.checked
    BY <1>7, <2>1 DEF Operations
  <2>3. u \in Operations
    <3>1. l \in Seq(Steps)
      BY <1>7, <2>1
    <3> QED BY <1>7, <2>1, <3>1, CountParts
  <2>4. Taken(u) = (a.pages + 1) * RecordUnits
    BY <2>2 DEF Taken
  <2>5. Taken(u) <= ImageUnits /\ Taken(u) \in Nat
    BY <1>6, <1>d, <2>4
  <2>6. \/ /\ u.todo = Tail(op.todo)
           /\ u.rc = 0 => /\ ~(Taken(u) < Len(fx.file)) /\ u.checked
                          /\ u.got = Units(ImageUnits) \/ ~op.checked
        \/ /\ u.todo = op.todo /\ u.checked = op.checked
           /\ u.rc = 0 => Taken(u) < Len(fx.file)
    <3> DEFINE n == Taken(u)
    <3> HIDE DEF n
    <3>1. n <= ImageUnits /\ n \in Nat /\ ImageUnits \in Nat
      BY <2>5, FileXioAssumption DEF n
    <3>2. CASE l = t /\ n = ImageUnits /\ (c = 0 => a.got \o d = Units(ImageUnits))
      <4>1. ~(n < n) /\ Len(fx.file) = n /\ u.checked
        BY <1>6, <1>a, <1>c, <2>2, <3>1, <3>2
      <4> QED BY <1>6, <2>2, <3>2, <4>1 DEF n
    <3>3. CASE l = a.todo /\ n # ImageUnits
      <4>1. n < ImageUnits
        BY <3>1, <3>3
      <4> QED BY <1>6, <1>c, <2>2, <4>1, <3>3 DEF n
    <3> QED BY <2>1, <2>4, <3>2, <3>3 DEF n
  <2>7. x.rc >= 0 /\ (u.rc = BadEcc => op.bad # 0) /\ (op.checked => u.checked)
    <3>1. ~(x.rc < 0)
      BY <1>10
    <3>2. x.rc >= 0
      BY <1>4, <3>1 DEF Failed
    <3>3. u.rc # BadEcc
      BY <2>1, <2>2 DEF Failed, BadEcc
    <3> QED BY <1>6, <2>2, <3>2, <3>3
  <2> HIDE DEF Page, Done, Refused
  <2> QED BY <1>1, <1>6, <2>2, <2>3, <2>6, <2>7, PassSafe
<1> QED BY <1>1, <1>9, <1>10

(* A record the locator looks at.                                          *)
LEMMA LocateSafe == ASSUME StreamInv, Locate PROVE Safe
<1> DEFINE Page(x) ==
            IF x.rc < 0 THEN Next1(op)
            ELSE IF HoldsBad(x.out) THEN [Next1(op) EXCEPT !.found = op.pages + 1]
            ELSE IF (op.pages + 1) * RecordUnits = ImageUnits THEN Next1(Count(x))
            ELSE Count(x)
<1>1. PICK x \in ReadExact(World) :
        /\ op.todo # <<>> /\ Head(op.todo) = "locate" /\ fx.open # 0
        /\ fx' = x.fx /\ wb' = x.wb /\ ra' = x.ra /\ op' = Page(x)
        /\ UNCHANGED <<build, log, done>>
  BY DEF Locate, At, Stream, Becomes
<1>2. PICK p, r, q \in Phases : Advances(p, r, q)
  BY <1>1, Advance
<1>3. Tail(op.todo) \in Seq(Steps) /\ op.todo \in Seq(Steps) /\ op \in Operations
  BY <1>2 DEF Advances, Leads, StreamInv
<1>4. /\ StepOf("locate", p, r) /\ Good(op, World, p) /\ p.ra \in Nat
      /\ World.rc = 0 /\ World.out = <<>> /\ World.fx.open # 0 /\ World.fx = fx
  BY <1>1, <1>2, Now DEF Advances, Phases
<1>5. p.at = "locating" /\ r = p
  BY <1>4 DEF StepOf
<1>6. x \in Worlds /\ x.rc \in {0, Failed}
  BY <1>4, <1>5, ReadCalm
<1>7. x.out \in Seq(Int)
  BY <1>6, WorldParts
<1>8. PICK a, t, d, u : a = op /\ t = Tail(op.todo) /\ d = x.out /\ u = op'
  OBVIOUS
<1>9. a \in Operations /\ t \in Seq(Steps) /\ d \in Seq(Int) /\ a.todo \in Seq(Steps)
  BY <1>3, <1>7, <1>8
<1>10. PICK l \in {t, a.todo}, n \in Nat : \/ u = [a EXCEPT !.todo = l, !.found = n]
              \/ u = [a EXCEPT !.pages = @ + 1, !.got = @ \o d, !.todo = l, !.rc = a.rc,
                        !.checked = a.checked]
  <2> DEFINE b == [a EXCEPT !.pages = @ + 1, !.got = @ \o d]
  <2>1. Next1(a) = [a EXCEPT !.todo = t] /\ a.found \in Nat /\ a.pages + 1 \in Nat
    BY <1>8, <1>9 DEF Next1, Operations
  <2>2. Count(x) = b
    BY <1>8, <1>9 DEF Count, Operations
  <2>3. Next1(b) = [a EXCEPT !.pages = @ + 1, !.got = @ \o d, !.todo = t, !.rc = a.rc,
                             !.checked = a.checked]
    BY <1>8, <1>9 DEF Next1, Operations
  <2>4. b = [a EXCEPT !.pages = @ + 1, !.got = @ \o d, !.todo = a.todo, !.rc = a.rc,
               !.checked = a.checked]
    BY <1>9 DEF Operations
  <2>5. Next1(a) = [a EXCEPT !.todo = t, !.found = a.found]
    BY <1>9, <2>1 DEF Operations
  <2>6. \/ u = Next1(a) \/ u = [Next1(a) EXCEPT !.found = a.pages + 1]
        \/ u = Next1(b) \/ u = b
    <3>1. Page(x) = op'
      BY <1>1
    <3> HIDE DEF b
    <3> QED BY <1>8, <2>2, <3>1
  <2>7. CASE u = Next1(a)
    BY <2>1, <2>5, <2>7
  <2>8. CASE u = [Next1(a) EXCEPT !.found = a.pages + 1]
    <3>1. u = [a EXCEPT !.todo = t, !.found = a.pages + 1]
      BY <2>1, <2>8
    <3> QED BY <2>1, <3>1
  <2>9. CASE u = Next1(b)
    BY <2>1, <2>3, <2>9
  <2>10. CASE u = b
    BY <2>1, <2>4, <2>10
  <2> QED BY <2>6, <2>7, <2>8, <2>9, <2>10
<1>11. /\ u.kind = a.kind /\ u.bad = a.bad /\ u.sealed = a.sealed /\ u.formatted = a.formatted
       /\ u.rc = a.rc /\ u.checked = a.checked /\ u.todo = l
  BY <1>9, <1>10 DEF Operations
<1>12. u \in Operations
  <2>1. l \in Seq(Steps) /\ a.rc \in {0, Failed, BadEcc}
    BY <1>9, <1>10 DEF Operations
  <2>2. a \in Operations /\ d \in Seq(Int) /\ n \in Nat
    BY <1>9, <1>10
  <2>3. CASE u = [a EXCEPT !.todo = l, !.found = n]
    <3>1. [a EXCEPT !.todo = l, !.found = n] \in Operations
      BY <2>1, <2>2, CountParts
    <3> QED BY <2>3, <3>1
  <2>4. CASE u = [a EXCEPT !.pages = @ + 1, !.got = @ \o d, !.todo = l, !.rc = a.rc,
                        !.checked = a.checked]
    <3> DEFINE c == a.rc
    <3>1. c \in {0, Failed, BadEcc}
      BY <2>1
    <3> HIDE DEF c
    <3>2. a.checked \in BOOLEAN
      BY <2>2 DEF Operations
    <3>3. [a EXCEPT !.pages = @ + 1, !.got = @ \o d, !.todo = l, !.rc = c,
                    !.checked = a.checked] \in Operations
      BY <2>1, <2>2, <3>1, <3>2, CountParts
    <3> QED BY <2>4, <3>3 DEF c
  <2> QED BY <1>10, <2>3, <2>4
<1>13. PICK v : v = World
  OBVIOUS
<1>14. Good(u, x, p) /\ Keeps(v, x)
  BY <1>4, <1>5, <1>8, <1>11, <1>13, LocateGood
<1>15. Alike
  <2>1. op.kind \notin Exports
    <3>1. p.image \in {"scanned", "searched"}
      <4>1. Place(op, World, p) /\ Image(op, World, p) /\ op.rc = BadEcc
        BY <1>4, <1>5 DEF Good, Place
      <4> QED BY <4>1 DEF Image
    <3> QED BY <1>4, <3>1 DEF Good, Image
  <2>2. fx'.file = fx.file
    BY <1>1, <1>4, <1>13, <1>14 DEF Keeps
  <2> QED BY <1>1, <1>8, <1>11, <2>1, <2>2 DEF Alike
<1>16. Mapped
  BY <1>15, AlikeMapped
<1>17. Leaves(World, x) /\ Tidy(log', log'.sequence)
  BY <1>1, <1>13, <1>14 DEF Keeps, StreamInv
<1>18. \/ p = r /\ u.todo = Tail(op.todo)
       \/ p = p /\ u.todo = op.todo
  BY <1>5, <1>8, <1>10, <1>11
<1> HIDE DEF Page
<1> QED BY <1>1, <1>2, <1>8, <1>12, <1>14, <1>16, <1>17, <1>18, CallStep

(* The batch is never behind the file.                                     *)
LEMMA FedSize ==
  ASSUME NEW w, Sound(w), NEW a, Fed(w, a)
  PROVE  /\ w.fx.file = Units(Size(w)) /\ Size(w) \in Nat /\ a \in Nat
         /\ Size(w) <= a /\ a <= ImageUnits
<1> DEFINE n == w.wb.len[w.wb.fill]
           b == Base(w)
           z == Size(w)
<1>1. Pending(w) /\ b \in Nat /\ n \in Nat /\ a \in Nat /\ a = b + n /\ a <= ImageUnits
  BY FedParts
<1>2. z \in Nat /\ z <= b
  BY <1>1, PendingParts
<1>3. w.fx.file = Units(Size(w))
  BY <1>1 DEF Pending
<1> HIDE DEF n, b
<1>4. z <= a
  <2> HIDE DEF z
  <2> QED BY <1>1, <1>2
<1> QED BY <1>1, <1>2, <1>3, <1>4

(* What the abstract stream sees of a record, and of the IOP's writes: the *)
(* file is a beginning of the image that has become longer.                *)
LEMMA StreamGrows ==
  ASSUME Exporting, Exporting', ~op.sealed,
         NEW n \in Nat, NEW m \in Nat, NEW k \in Nat, n <= m, m <= k, k <= ImageUnits,
         fx.file = Units(n), fx'.file = Units(m)
  PROVE  Promise!Grows(k)
<1>1. Promise!IsPrefix(Units(n), Units(m)) /\ Promise!IsPrefix(Units(m), Units(k))
  BY UnitsPrefix
<1>2. SubSeq(Units(ImageUnits), 1, k) = Units(k)
  BY FileXioAssumption, UnitsPrefix
<1>3. Promise!StreamUpto(k) = Units(k)
  BY <1>2 DEF Promise!StreamUpto, Promise!Whole, Units
<1>4. Promise!IsPrefix(fx.file, fx'.file) /\ Promise!IsPrefix(fx'.file, Promise!StreamUpto(k))
  BY <1>1, <1>3
<1> QED BY <1>4, Zenon DEF Promise!Grows

LEMMA RecordMapped ==
  ASSUME op.todo # <<>>, op.kind \in Exports, ~op.sealed, ~(op.rc < 0), fx.open # 0,
         op'.kind = op.kind, op'.sealed = op.sealed, ~(op'.rc < 0), fx'.open # 0,
         op.pages \in Nat, op'.pages = op.pages + 1,
         NEW n \in Nat, NEW m \in Nat, n <= m, m <= Taken(op)', Taken(op)' <= ImageUnits,
         fx.file = Units(n), fx'.file = Units(m)
  PROVE  Mapped
<1>1. CASE ~Exporting'
  BY <1>1, EndMapped
<1>2. CASE Exporting'
  <2> DEFINE k == op'.pages * RecordUnits
             j == op.pages * RecordUnits
  <2>1. k = j + RecordUnits /\ k \in Nat
    BY FileXioAssumption
  <2>2. Taken(op)' = k
    BY DEF Taken
  <2>3. Exporting
    BY DEF Exporting
  <2> HIDE DEF k
  <2>4. Promise!Grows(k)
    BY <1>2, <2>1, <2>2, <2>3, StreamGrows
  <2>5. op'.pages * RecordUnits = op.pages * RecordUnits + RecordUnits
    BY <2>1 DEF k
  <2>6. Promise!Accept
    BY <1>2, <2>3, <2>4, <2>5, Zenon DEF Promise!Accept, k
  <2> QED BY <2>6 DEF Mapped, Promise!StreamNext
<1> QED BY <1>1, <1>2

(* The result of a record is a number, whatever it says.                   *)
LEMMA RecordRc ==
  ASSUME NEW o, o.pages \in Nat, NEW w, NEW p, Good(o, w, p), NEW r, StepOf("record", p, r),
         o.rc = 0, NEW y \in Reserve(w, w.fx.open),
         NEW x, \/ y.rc < 0 /\ x = y
                \/ x \in Commit(y, y.fx.open, Record(Taken(o)))
                \/ x \in {Fault(y) : n \in 1..y.fx.faults}
  PROVE  x.rc \in Int
<1>1. PICK c, n, q : /\ c = (IF x.rc < 0 THEN x.rc ELSE 0)
                     /\ n = (IF x.rc < 0 THEN o.pages ELSE o.pages + 1)
                     /\ q = IF x.rc < 0 \/ n * RecordUnits = ImageUnits THEN r ELSE p
  OBVIOUS
<1>2. PICK u : u = [kind |-> o.kind, bad |-> o.bad, got |-> o.got, sealed |-> o.sealed,
                    checked |-> o.checked, formatted |-> o.formatted, rc |-> c, pages |-> n]
  OBVIOUS
<1>3. /\ u.kind = o.kind /\ u.bad = o.bad /\ u.got = o.got /\ u.sealed = o.sealed
      /\ u.checked = o.checked /\ u.formatted = o.formatted /\ u.rc = c /\ u.pages = n
  BY <1>2
<1>4. q = IF x.rc < 0 \/ Taken(u) = ImageUnits THEN r ELSE p
  BY <1>1, <1>3 DEF Taken
<1>5. x.rc \in {0, Failed}
  BY <1>1, <1>3, <1>4, RecordGood
<1> QED BY <1>5 DEF Failed

LEMMA ExportRecordSafe == ASSUME StreamInv, ExportRecord PROVE Safe
<1> DEFINE record == [i \in 1..RecordUnits |-> op.pages * RecordUnits + i]
           Page(x) == Commit(x, x.fx.open, record) \cup {Fault(x) : n \in 1..x.fx.faults}
           More(x) == IF x.rc < 0 THEN Result(x)
                      ELSE LET o == [op EXCEPT !.pages = @ + 1] IN
                           IF o.pages * RecordUnits = ImageUnits THEN Next1(o) ELSE o
<1>1. PICK x \in Then(Reserve(World, fx.open), Page) :
        /\ op.todo # <<>> /\ Head(op.todo) = "record" /\ op.rc = 0
        /\ fx' = x.fx /\ wb' = x.wb /\ ra' = x.ra /\ op' = More(x)
        /\ UNCHANGED <<build, log, done>>
  BY DEF ExportRecord, At, Stream, Becomes
<1>2. PICK p, r, q \in Phases : Advances(p, r, q)
  BY <1>1, Advance
<1>3. Tail(op.todo) \in Seq(Steps) /\ op.todo \in Seq(Steps) /\ op \in Operations
  BY <1>2 DEF Advances, Leads, StreamInv
<1>4. StepOf("record", p, r) /\ Good(op, World, p)
  BY <1>1, <1>2 DEF Advances
<1>5. PICK y \in Reserve(World, fx.open) : x \in IF y.rc < 0 THEN {y} ELSE Page(y)
  BY <1>1 DEF Then
<1>6. record = Record(Taken(op))
  BY DEF Record, Taken
<1>7. \/ y.rc < 0 /\ x = y
      \/ x \in Commit(y, y.fx.open, Record(Taken(op)))
      \/ x \in {Fault(y) : n \in 1..y.fx.faults}
  <2> HIDE DEF record
  <2> QED BY <1>5, <1>6
<1>8. More(x) = IF x.rc < 0 THEN Result(x)
                ELSE IF [op EXCEPT !.pages = @ + 1].pages * RecordUnits = ImageUnits
                THEN Next1([op EXCEPT !.pages = @ + 1]) ELSE [op EXCEPT !.pages = @ + 1]
  OBVIOUS
<1> HIDE DEF More, Page, record
<1>9. PICK a, v, u, t : a = op /\ v = World /\ u = op' /\ t = Tail(op.todo)
  OBVIOUS
<1>10. /\ a \in Operations /\ a.rc = 0 /\ t \in Seq(Steps) /\ a.todo \in Seq(Steps)
       /\ a.pages \in Nat /\ Good(a, v, p) /\ v.fx = fx /\ t = Tail(a.todo)
  BY <1>1, <1>3, <1>4, <1>9, Now DEF Operations
<1>c. x.rc \in Int
  <2>1. a.pages \in Nat /\ Good(a, v, p) /\ StepOf("record", p, r) /\ y \in Reserve(v, v.fx.open)
    BY <1>4, <1>5, <1>9, <1>10
  <2>2. \/ y.rc < 0 /\ x = y
        \/ x \in Commit(y, y.fx.open, Record(Taken(a)))
        \/ x \in {Fault(y) : n \in 1..y.fx.faults}
    BY <1>7, <1>9
  <2> QED BY <1>10, <2>1, <2>2, RecordRc
<1>11. PICK l : /\ u = IF x.rc < 0 THEN [a EXCEPT !.todo = l, !.rc = x.rc]
                       ELSE [a EXCEPT !.pages = @ + 1, !.todo = l]
                /\ l = IF x.rc < 0 \/ (a.pages + 1) * RecordUnits = ImageUnits
                       THEN t ELSE a.todo
  <2> DEFINE b == [a EXCEPT !.pages = @ + 1]
  <2>1. b.pages = a.pages + 1 /\ b.todo = a.todo
    BY <1>10 DEF Operations
  <2>2. CASE x.rc < 0
    <3>1. u = [Next1(a) EXCEPT !.rc = IF a.rc < 0 THEN @ ELSE Lesser(x.rc, 0)]
      BY <1>1, <1>8, <1>9, <2>2 DEF Result
    <3>2. Next1(a) = [a EXCEPT !.todo = t]
      BY <1>10 DEF Next1
    <3>3. u = [a EXCEPT !.todo = t, !.rc = Lesser(x.rc, 0)]
      BY <1>10, <3>1, <3>2
    <3>4. Lesser(x.rc, 0) = x.rc
      BY <1>c, <2>2 DEF Lesser
    <3> QED BY <2>2, <3>3, <3>4
  <2>3. CASE ~(x.rc < 0) /\ (a.pages + 1) * RecordUnits = ImageUnits
    <3>1. u = Next1(b)
      BY <1>1, <1>8, <1>9, <2>1, <2>3
    <3>2. u = [a EXCEPT !.pages = @ + 1, !.todo = t]
      BY <1>10, <2>1, <3>1 DEF Next1
    <3> QED BY <2>3, <3>2
  <2>4. CASE ~(x.rc < 0) /\ (a.pages + 1) * RecordUnits # ImageUnits
    <3>1. u = b
      BY <1>1, <1>8, <1>9, <2>1, <2>4
    <3>2. u = [a EXCEPT !.pages = @ + 1, !.todo = a.todo]
      BY <1>10, <3>1 DEF Operations
    <3> QED BY <2>4, <3>2
  <2> QED BY <2>2, <2>3, <2>4
<1>12. l \in Seq(Steps)
  BY <1>10, <1>11
<1>13. /\ u.kind = a.kind /\ u.bad = a.bad /\ u.got = a.got /\ u.sealed = a.sealed
       /\ u.formatted = a.formatted /\ u.checked = a.checked /\ u.todo = l
       /\ u.rc = (IF x.rc < 0 THEN x.rc ELSE 0)
       /\ u.pages = (IF x.rc < 0 THEN a.pages ELSE a.pages + 1)
  <2>1. CASE x.rc < 0
    <3>1. u = [a EXCEPT !.todo = l, !.rc = x.rc]
      BY <1>11, <2>1
    <3> QED BY <1>10, <2>1, <3>1 DEF Operations
  <2>2. CASE ~(x.rc < 0)
    <3>1. u = [a EXCEPT !.pages = @ + 1, !.todo = l]
      BY <1>11, <2>2
    <3> QED BY <1>10, <2>2, <3>1 DEF Operations
  <2> QED BY <2>1, <2>2
<1>14. PICK s : s = IF x.rc < 0 \/ Taken(u) = ImageUnits THEN r ELSE p
  OBVIOUS
<1>15. y \in Reserve(v, v.fx.open)
  BY <1>5, <1>9, <1>10
<1>16. /\ Good(u, x, s) /\ Leaves(v, x) /\ x \in Worlds /\ Size(v) <= Size(x)
       /\ x.fx.open = v.fx.open /\ v.fx.open # 0 /\ x.rc \in {0, Failed}
  <2>1. StepOf("record", p, r) /\ a.pages \in Nat /\ Good(a, v, p) /\ a.rc = 0
    BY <1>4, <1>10
  <2>2. \/ y.rc < 0 /\ x = y
        \/ x \in Commit(y, y.fx.open, Record(Taken(a)))
        \/ x \in {Fault(y) : n \in 1..y.fx.faults}
    BY <1>7, <1>9
  <2> QED BY <1>13, <1>14, <1>15, <2>1, <2>2, RecordGood
<1>17. u \in Operations
  <2>1. x.rc \in {0, Failed, BadEcc} /\ a.pages + 1 \in Nat
    BY <1>10, <1>16
  <2>2. CASE x.rc < 0
    <3>1. u = [a EXCEPT !.todo = l, !.rc = x.rc]
      BY <1>11, <2>2
    <3>2. ASSUME NEW c \in {0, Failed, BadEcc} PROVE [a EXCEPT !.todo = l, !.rc = c] \in Operations
      BY <1>10, <1>12 DEF Operations
    <3> QED BY <2>1, <3>1, <3>2
  <2>3. CASE ~(x.rc < 0)
    <3>1. u = [a EXCEPT !.pages = @ + 1, !.todo = l]
      BY <1>11, <2>3
    <3> QED BY <1>10, <1>12, <2>1, <3>1 DEF Operations
  <2> QED BY <2>2, <2>3
<1>18. s.pause = p.pause
  <2>1. r.pause = p.pause
    BY <1>4, StepPause
  <2> QED BY <1>14, <2>1
<1>19. p.at = "making" /\ p.image = "no" /\ a.kind \in Exports /\ ~a.sealed
  <2>1. p.at = "making"
    BY <1>4 DEF StepOf
  <2>2. Making(a, v, p) /\ Image(a, v, p)
    BY <1>10 DEF Good
  <2>3. p.image = "no"
    BY <2>1, <2>2 DEF Making
  <2> QED BY <2>1, <2>2, <2>3 DEF Image
<1>20. /\ v.fx.file = Units(Size(v)) /\ x.fx.file = Units(Size(x))
       /\ Size(v) \in Nat /\ Size(x) \in Nat /\ Size(x) <= ImageUnits
  <2>1. Sound(v) /\ Pending(v) /\ Sound(x) /\ Pending(x)
    BY <1>10, <1>16 DEF Good, Calm
  <2> QED BY <2>1, PendingParts
<1>21. Mapped
  <2>1. op.todo # <<>> /\ ~op.sealed /\ ~(op.rc < 0) /\ op'.kind = op.kind /\ ~op'.sealed
        /\ op.kind \in Exports /\ fx.open # 0 /\ fx'.open # 0
    BY <1>1, <1>9, <1>10, <1>13, <1>16, <1>19 DEF Failed
  <2>2. CASE x.rc < 0
    <3>1. op'.rc < 0 /\ fx'.file = Units(Size(x))
      BY <1>1, <1>9, <1>13, <1>20, <2>2
    <3> QED BY <1>20, <2>1, <3>1, AbortMapped
  <2>3. CASE ~(x.rc < 0)
    <3>1. u.rc = 0 /\ u.pages = a.pages + 1
      BY <1>13, <2>3
    <3>2. Size(x) <= Taken(u) /\ Taken(u) <= ImageUnits
      <4>1. s.at \in {"making", "filled"}
        <5>1. r.at = "filled"
          BY <1>4, <1>19, PhaseParts DEF StepOf
        <5> QED BY <1>14, <1>19, <5>1
      <4>2. Sound(x) /\ Making(u, x, s)
        BY <1>16 DEF Good, Calm
      <4>3. Fed(x, Taken(u))
        BY <3>1, <4>1, <4>2 DEF Making
      <4> QED BY <4>2, <4>3, FedSize
    <3> DEFINE n == Size(v)
               m == Size(x)
    <3>3. /\ op.pages \in Nat /\ op'.pages = op.pages + 1 /\ op'.sealed = op.sealed
          /\ ~(op'.rc < 0) /\ Taken(op)' = Taken(u)
      BY <1>9, <1>10, <1>13, <3>1 DEF Taken
    <3>4. n \in Nat /\ m \in Nat /\ n <= m /\ m <= Taken(u)
      BY <1>16, <1>20, <3>2
    <3>5. fx.file = Units(n) /\ fx'.file = Units(m)
      BY <1>1, <1>10, <1>20
    <3> HIDE DEF n, m
    <3> QED BY <2>1, <3>2, <3>3, <3>4, <3>5, RecordMapped
  <2> QED BY <2>2, <2>3
<1>22. \/ s = r /\ u.todo = Tail(op.todo)
       \/ s = p /\ u.todo = op.todo
  <2>1. ~(x.rc < 0) => Taken(u) = (a.pages + 1) * RecordUnits
    BY <1>13 DEF Taken
  <2> QED BY <1>9, <1>11, <1>13, <1>14, <2>1
<1>23. Leaves(World, x) /\ Tidy(log', log'.sequence)
  BY <1>1, <1>9, <1>16 DEF StreamInv
<1> QED BY <1>1, <1>2, <1>9, <1>16, <1>17, <1>18, <1>21, <1>22, <1>23, CallStep

(* The image is closed, and the part of one removed.                       *)
LEMMA FinishSafe == ASSUME StreamInv, Finish PROVE Safe
<1> DEFINE Removed(x) == {IF op.rc < 0 THEN [x EXCEPT !.fx.file = <<>>] ELSE x}
           Sealed(x) == [Result(x) EXCEPT !.sealed = op.rc = 0 /\ x.rc = 0]
<1>1. PICK x \in After(WrapClose(World), Removed) :
        /\ op.todo # <<>> /\ Head(op.todo) = "finish" /\ fx.open # 0
        /\ fx' = x.fx /\ wb' = x.wb /\ ra' = x.ra /\ op' = Sealed(x)
        /\ UNCHANGED <<build, log, done>>
  BY DEF Finish, At, Stream, Becomes
<1>2. PICK y \in WrapClose(World) : x = IF op.rc < 0 THEN PutFile(y, <<>>) ELSE y
  BY <1>1 DEF After, PutFile
<1>3. op' = [Result(x) EXCEPT !.sealed = op.rc = 0 /\ x.rc = 0]
  BY <1>1
<1> HIDE DEF Removed, Sealed
<1>4. PICK p, r, q \in Phases : Advances(p, r, q)
  BY <1>1, Advance
<1>5. StepOf("finish", p, r) /\ Good(op, World, p) /\ Tail(op.todo) \in Seq(Steps)
  BY <1>1, <1>4 DEF Advances, Leads
<1>6. PICK u, a, v, t, c : u = op' /\ a = op /\ v = World /\ t = Tail(op.todo)
                           /\ c = IF op.rc < 0 THEN op.rc ELSE Lesser(x.rc, 0)
  OBVIOUS
<1>7. a \in Operations /\ t \in Seq(Steps) /\ a.rc \in {0, Failed, BadEcc} /\ v.fx = fx
  BY <1>5, <1>6, Now DEF StreamInv, Operations
<1>8. PICK g \in BOOLEAN : u = [a EXCEPT !.todo = t, !.rc = c, !.sealed = g]
                           /\ g = (a.rc = 0 /\ x.rc = 0)
  <2> DEFINE g == a.rc = 0 /\ x.rc = 0
  <2>1. u = [[Next1(a) EXCEPT !.rc = IF a.rc < 0 THEN @ ELSE Lesser(x.rc, 0)] EXCEPT !.sealed = g]
    BY <1>3, <1>6 DEF Result
  <2>2. Next1(a) = [a EXCEPT !.todo = t]
    BY <1>6 DEF Next1
  <2>3. c = IF a.rc < 0 THEN a.rc ELSE Lesser(x.rc, 0)
    BY <1>6
  <2> HIDE DEF g
  <2>4. u = [a EXCEPT !.todo = t, !.rc = c, !.sealed = g]
    <3>1. [Next1(a) EXCEPT !.rc = IF a.rc < 0 THEN @ ELSE Lesser(x.rc, 0)]
            = [a EXCEPT !.todo = t, !.rc = c]
      BY <1>7, <2>2, <2>3 DEF Operations
    <3> QED BY <2>1, <3>1
  <2>5. g \in BOOLEAN /\ g = (a.rc = 0 /\ x.rc = 0)
    BY DEF g
  <2> QED BY <2>4, <2>5
<1>9. /\ u.kind = a.kind /\ u.rc = c /\ u.bad = a.bad /\ u.pages = a.pages
      /\ u.got = a.got /\ u.sealed = g /\ u.checked = a.checked
      /\ u.formatted = a.formatted /\ u.todo = t
  BY <1>7, <1>8 DEF Operations
<1>10. /\ Good(u, x, r) /\ Leaves(v, x) /\ x \in Worlds /\ x.fx.open = 0
       /\ a.kind \in Exports /\ ~a.sealed /\ x.rc \in {0, Failed} /\ a.rc \in {0, Failed}
       /\ a.rc < 0 => x.fx.file = <<>>
       /\ a.rc = 0 => Size(v) <= Size(x) /\ Taken(a) = ImageUnits
       /\ a.rc = 0 /\ x.rc = 0 => x.fx.file = Units(ImageUnits)
  <2>1. Good(a, v, p) /\ v.fx.open # 0 /\ y \in WrapClose(v)
    BY <1>1, <1>2, <1>5, <1>6, <1>7
  <2>2. x = IF a.rc < 0 THEN PutFile(y, <<>>) ELSE y
    BY <1>2, <1>6
  <2>3. u.rc = (IF a.rc < 0 THEN a.rc ELSE Lesser(x.rc, 0)) /\ u.sealed = (a.rc = 0 /\ x.rc = 0)
    BY <1>6, <1>8, <1>9
  <2> QED BY <1>5, <1>7, <1>9, <2>1, <2>2, <2>3, FinishGood
<1>11. u \in Operations /\ (a.rc = 0 => u.rc = x.rc)
  <2>0. Lesser(0, 0) = 0 /\ Lesser(Failed, 0) = Failed
    BY DEF Lesser, Failed
  <2>1. c \in {0, Failed, BadEcc} /\ (a.rc = 0 => c = x.rc)
    BY <1>6, <1>7, <1>10, <2>0 DEF Failed
  <2> QED BY <1>7, <1>8, <1>9, <2>1 DEF Operations
<1>12. Mapped
  <2>0. Failed < 0 /\ ~(0 < 0) /\ Failed # 0
    BY DEF Failed
  <2>1. CASE ~Exporting'
    BY <2>1, EndMapped
  <2>2. CASE Exporting' /\ a.rc < 0
    <3>1. ~op'.sealed /\ op'.rc < 0 /\ fx'.file = <<>>
      BY <1>1, <1>6, <1>8, <1>9, <1>10, <2>0, <2>2
    <3>2. Promise!Discard
      BY <2>2, <3>1 DEF Promise!Discard
    <3> QED BY <3>2 DEF Mapped, Promise!StreamNext
  <2>3. CASE a.rc = 0 /\ x.rc # 0
    <3>1. ~op'.sealed /\ op'.rc < 0 /\ op'.kind = op.kind /\ ~op.sealed /\ ~(op.rc < 0)
      BY <1>6, <1>8, <1>9, <1>10, <1>11, <2>0, <2>3
    <3>2. fx'.file = Units(Size(x)) /\ Size(x) \in Nat /\ Size(x) <= ImageUnits
      <4>1. Sound(x) /\ Pending(x)
        BY <1>10 DEF Good, Calm
      <4> QED BY <1>1, <4>1, PendingParts
    <3> QED BY <1>1, <3>1, <3>2, AbortMapped
  <2>4. CASE Exporting' /\ a.rc = 0 /\ x.rc = 0
    <3>1. /\ Exporting /\ ~op.sealed /\ ~(op.rc < 0) /\ fx.open # 0
          /\ op.pages * RecordUnits = ImageUnits
          /\ op'.sealed /\ fx'.file = Units(ImageUnits)
      BY <1>1, <1>6, <1>8, <1>9, <1>10, <2>0, <2>4 DEF Exporting, Taken
    <3>2. Promise!Whole = Units(ImageUnits)
      BY DEF Promise!Whole, Units
    <3>3. Promise!Seal
      BY <2>4, <3>1, <3>2, Zenon DEF Promise!Seal
    <3> QED BY <3>3 DEF Mapped, Promise!StreamNext
  <2> QED BY <1>10, <2>0, <2>1, <2>2, <2>3, <2>4
<1>13. r.pause = p.pause
  BY <1>5, StepPause
<1>14. Leaves(World, x) /\ Tidy(log', log'.sequence) /\ u.todo = Tail(op.todo)
  BY <1>1, <1>6, <1>9, <1>10 DEF StreamInv
<1> QED BY <1>1, <1>4, <1>6, <1>10, <1>11, <1>12, <1>13, <1>14, CallStep

(* A line of the log from inside an operation only reaches the ring.       *)
LEMMA LogInsideSafe == ASSUME StreamInv, LogInside PROVE Safe
<1>1. /\ op.todo # <<>> /\ Head(op.todo) \in {"record", "verify"} /\ log' \in Printf(log)
      /\ op' = [op EXCEPT !.asides = @ + 1] /\ UNCHANGED <<fx, wb, ra, build, done>>
  BY DEF LogInside, At
<1>2. PICK p, r, q \in Phases : Advances(p, r, q)
  BY <1>1, Advance
<1>3. StepOf(Head(op.todo), p, r) /\ Good(op, World, p) /\ log.pause = p.pause
  BY <1>2 DEF Advances
<1>4. p.at \in {"making", "reading"}
  BY <1>1, <1>3 DEF StepOf
<1>5. log.pause # 0
  <2>1. InScope(p)
    BY <1>3, <1>4 DEF Good, Place
  <2> QED BY <1>3, <2>1 DEF InScope
<1>6. /\ Tidy(log', log'.sequence) /\ log'.pause = log.pause
      /\ log'.file = log.file /\ log'.path = log.path
  BY <1>1, <1>5, PrintfTidy DEF StreamInv
<1>7. PICK u, a, v : u = op' /\ a = op /\ v = World
  OBVIOUS
<1>8. /\ u \in Operations /\ u.kind = a.kind /\ u.rc = a.rc /\ u.bad = a.bad
      /\ u.pages = a.pages /\ u.got = a.got /\ u.sealed = a.sealed
      /\ u.checked = a.checked /\ u.formatted = a.formatted /\ u.todo = a.todo
  <2>1. a \in Operations /\ u = [a EXCEPT !.asides = @ + 1]
    BY <1>1, <1>7 DEF StreamInv
  <2>2. u \in Operations
    <3>1. PICK n : n = a.asides + 1
      OBVIOUS
    <3>2. n \in Nat
      BY <2>1, <3>1 DEF Operations
    <3>3. u = [a EXCEPT !.asides = n]
      BY <2>1, <3>1
    <3> QED BY <2>1, <3>2, <3>3 DEF Operations
  <2>3. /\ u.kind = a.kind /\ u.rc = a.rc /\ u.bad = a.bad
        /\ u.pages = a.pages /\ u.got = a.got /\ u.todo = a.todo
    BY <2>1 DEF Operations
  <2>4. u.sealed = a.sealed /\ u.checked = a.checked /\ u.formatted = a.formatted
    BY <2>1 DEF Operations
  <2> QED BY <2>2, <2>3, <2>4
<1>9. Good(u, v, p)
  BY <1>3, <1>7, <1>8, GoodCall
<1>10. fx' = v.fx /\ wb' = v.wb /\ ra' = v.ra
  BY <1>1, <1>7, Now
<1>11. Mapped
  <2>1. Alike
    BY <1>1, <1>7, <1>8 DEF Alike
  <2> QED BY <2>1, AlikeMapped
<1>12. Leaves(World, v) /\ u.todo = op.todo
  BY <1>7, <1>8 DEF Leaves
<1> QED BY <1>1, <1>2, <1>6, <1>7, <1>8, <1>9, <1>10, <1>11, <1>12, CallStep

(* The IOP serves a request while the EE does something else.              *)
LEMMA ServeMapped ==
  ASSUME op.todo # <<>>, op' = op, op.rc \in {0, Failed, BadEcc}, op.kind \in Exports, ~op.sealed,
         fx.open # 0, fx'.open = fx.open,
         NEW n \in Nat, NEW m \in Nat, n <= m, m <= ImageUnits,
         fx.file = Units(n), fx'.file = Units(m),
         op.rc = 0 => Taken(op) \in Nat /\ m <= Taken(op) /\ Taken(op) <= ImageUnits
  PROVE  Mapped
<1>0. Failed < 0 /\ BadEcc < 0 /\ ~(0 < 0)
  BY DEF Failed, BadEcc
<1>1. Exporting /\ Exporting'
  BY DEF Exporting
<1>2. CASE op.rc # 0
  <2>1. op.rc < 0
    BY <1>0, <1>2
  <2> DEFINE k == ImageUnits
  <2>2. k \in Nat /\ k <= ImageUnits
    BY FileXioAssumption
  <2> HIDE DEF k
  <2>3. Promise!Grows(k)
    <3>1. m <= k
      BY DEF k
    <3> QED BY <1>1, <2>2, <3>1, StreamGrows
  <2>4. Promise!Store
    BY <1>1, <2>1, <2>3, Zenon DEF Promise!Store, k
  <2> QED BY <2>4 DEF Mapped, Promise!StreamNext
<1>3. CASE op.rc = 0
  <2> DEFINE k == op.pages * RecordUnits
  <2>1. k \in Nat /\ m <= k /\ k <= ImageUnits
    BY <1>3 DEF Taken
  <2> HIDE DEF k
  <2>2. Promise!Grows(k)
    BY <1>1, <2>1, StreamGrows
  <2>3. ~(op.rc < 0)
    BY <1>0, <1>3
  <2>4. Promise!Store
    BY <1>1, <2>2, <2>3, Zenon DEF Promise!Store, k
  <2> QED BY <2>4 DEF Mapped, Promise!StreamNext
<1> QED BY <1>2, <1>3

LEMMA IopServeSafe == ASSUME StreamInv, IopServe PROVE Safe
<1>1. PICK x \in ServeRequest(World) :
        /\ fx.rpc.st = "queued" /\ fx' = x.fx /\ wb' = x.wb /\ ra' = x.ra
        /\ UNCHANGED <<build, log, op, done>>
  BY DEF IopServe, Becomes
<1>2. op.todo # <<>>
  <2> SUFFICES ASSUME op.todo = <<>> PROVE FALSE
    OBVIOUS
  <2>1. Calm(World) /\ World.fx.open = 0 /\ World.fx = fx
    BY Now DEF StreamInv, Quiet
  <2>2. World.fx.rpc.st = "none"
    BY <2>1, Idles
  <2> QED BY <1>1, <2>1, <2>2
<1>3. PICK p, r, q \in Phases : Advances(p, r, q)
  BY <1>2, Advance
<1>4. PICK a, v : a = op /\ v = World
  OBVIOUS
<1>5. /\ Good(a, v, p) /\ a \in Operations /\ a.pages \in Nat /\ a.rc \in {0, Failed, BadEcc}
      /\ v.fx = fx /\ v.wb = wb /\ Busy(v)
      /\ x \in ServeRequest(v) /\ p.at \in Places
  BY <1>1, <1>3, <1>4, Now DEF Advances, StreamInv, Operations, Phases, Busy
<1>6. /\ Good(a, x, p) /\ x.wb = v.wb /\ x.fx.rpc # v.fx.rpc /\ Size(v) <= Size(x)
      /\ v.fx.open # 0 /\ x.fx.open = v.fx.open
  BY <1>5, ServeGood
<1>7. /\ v.fx.file = Units(Size(v)) /\ x.fx.file = Units(Size(x)) /\ Sound(x)
      /\ Size(v) \in Nat /\ Size(x) \in Nat /\ Size(x) <= ImageUnits
  <2>1. Sound(v) /\ Pending(v) /\ Sound(x) /\ Pending(x)
    BY <1>5, <1>6 DEF Good, Calm
  <2> QED BY <2>1, PendingParts
<1>8. Mapped
  <2>1. CASE op.kind \notin Exports
    <3>1. ~Exporting'
      BY <1>1, <2>1 DEF Exporting
    <3> QED BY <3>1, EndMapped
  <2>2. CASE op.kind \in Exports /\ op.sealed
    <3>1. v.fx.file = Units(ImageUnits) /\ x.fx.file = Units(ImageUnits)
      BY <1>4, <1>5, <1>6, <2>2 DEF Good, Told
    <3>2. Alike
      BY <1>1, <1>2, <1>5, <2>2, <3>1 DEF Alike
    <3> QED BY <3>2, AlikeMapped
  <2>3. CASE op.kind \in Exports /\ ~op.sealed
    <3>1. a.rc = 0 => Taken(a) \in Nat /\ Size(x) <= Taken(a) /\ Taken(a) <= ImageUnits
      <4> SUFFICES ASSUME a.rc = 0
                   PROVE  Taken(a) \in Nat /\ Size(x) <= Taken(a) /\ Taken(a) <= ImageUnits
        OBVIOUS
      <4>1. Place(a, v, p) /\ Image(a, v, p) /\ Making(a, x, p) /\ p.image \in Images
        BY <1>5, <1>6 DEF Good, Phases
      <4>2. p.image = "no"
        BY <1>4, <2>3, <4>1 DEF Image, Images
      <4>3. p.at \in {"making", "filled"}
        BY <1>5, <1>6, <4>1, <4>2 DEF Place, Places
      <4>4. Fed(x, Taken(a))
        BY <4>1, <4>3 DEF Making
      <4> QED BY <1>7, <4>4, FedSize
    <3> DEFINE n == Size(v)
               m == Size(x)
    <3>2. /\ n \in Nat /\ m \in Nat /\ n <= m /\ m <= ImageUnits
          /\ fx.file = Units(n) /\ fx'.file = Units(m)
      BY <1>1, <1>5, <1>6, <1>7
    <3>3. op.rc = 0 => Taken(op) \in Nat /\ m <= Taken(op) /\ Taken(op) <= ImageUnits
      BY <1>4, <3>1
    <3>4. op' = op /\ op.rc \in {0, Failed, BadEcc} /\ fx.open # 0 /\ fx'.open = fx.open
      BY <1>1, <1>4, <1>5, <1>6
    <3> HIDE DEF n, m
    <3> QED BY <1>2, <2>3, <3>2, <3>3, <3>4, ServeMapped
  <2> QED BY <2>1, <2>2, <2>3
<1>9. Leaves(World, x) /\ Tidy(log', log'.sequence)
  BY <1>1, <1>4, <1>6 DEF Leaves, StreamInv
<1>10. op' = a /\ a.todo = op.todo
  BY <1>1, <1>4
<1> QED BY <1>1, <1>2, <1>3, <1>5, <1>6, <1>8, <1>9, <1>10, CallStep

(* An operation starts.                                                    *)
LEMMA BeginGood ==
  ASSUME NEW w, Calm(w), w.fx.open = 0, w.ra.depth = 0, w.wb.depth = 0,
         NEW c \in {"no", "given", "scanned"}, NEW f, f = IF c = "no" THEN <<>> ELSE Units(ImageUnits),
         NEW x, x = PutFile(w, f), NEW p, p = Phase(0, 0, 0, "none", c),
         NEW o, o.rc = 0, o.pages = 0, o.got = <<>>, ~o.sealed, ~o.checked, ~o.formatted,
         c = "no" <=> o.kind \in Exports, o.bad # 0 => c = "scanned"
  PROVE  Good(o, x, p)
<1>1. /\ w \in Worlds /\ w.fx.rpc = NoRequest /\ w.fx.mode = "WAIT" /\ w.wb.async = NoSlot
      /\ w.fx.rpc.st = "none" /\ Shape(w.ra) /\ w.fx.pos <= ImageUnits /\ Fetch(w)
  BY Idles DEF Calm
<1>2. f \in Seq(Int) /\ f = Units(Len(f)) /\ Len(f) <= ImageUnits
  <2>1. CASE c = "no"
    <3>1. f = <<>> /\ Len(f) = 0 /\ ImageUnits \in Nat
      BY <2>1, FileXioAssumption
    <3>2. Units(0) = <<>> /\ <<>> \in Seq(Int)
      BY DEF Units
    <3>3. f \in Seq(Int) /\ f = Units(Len(f))
      BY <3>1, <3>2
    <3> HIDE DEF Units
    <3> QED BY <3>1, <3>3
  <2>2. CASE c # "no"
    <3> DEFINE k == ImageUnits
    <3>1. f = Units(k) /\ k \in Nat
      BY <2>2, FileXioAssumption
    <3> HIDE DEF k
    <3>2. f \in Seq(Int) /\ Len(f) = k /\ k <= k
      BY <3>1, UnitsParts
    <3> QED BY <3>1, <3>2 DEF k
  <2> QED BY <2>1, <2>2
<1>3. /\ x \in Worlds /\ x.wb = w.wb /\ x.ra = w.ra /\ x.fx.file = f /\ x.fx.open = 0
      /\ x.fx.pos = w.fx.pos /\ x.fx.mode = "WAIT" /\ x.fx.rpc = NoRequest
      /\ x.fx.rpc.st = "none"
  BY <1>1, <1>2, FileParts
<1>4. ~Queued(x, "write") /\ ~Queued(x, "read")
  BY <1>3 DEF Queued
<1>5. Calm(x)
  <2>1. Sound(x)
    BY <1>1, <1>3, SoundQuiet
  <2>2. Pending(x)
    <3>1. Size(x) = Len(f)
      BY <1>3 DEF Size
    <3> QED BY <1>1, <1>2, <1>3, <1>4, <3>1, PendingQuiet
  <2>3. Fetch(x)
    BY <1>1, <1>3 DEF Fetch
  <2> QED BY <1>1, <1>3, <2>1, <2>2, <2>3 DEF Calm
<1>6. p.pause = 0 /\ p.ra = 0 /\ p.wb = 0 /\ p.at = "none" /\ p.image = c
  BY PhaseParts
<1>7. Told(o, x)
  BY <1>3, ToldNone
<1>8. Place(o, x, p)
  BY <1>1, <1>3, <1>4, <1>6 DEF Place
<1>9. Making(o, x, p)
  BY <1>6 DEF Making
<1>10. Image(o, x, p)
  <2>1. 0 # BadEcc /\ p.image # "made" /\ p.wb # 1
    BY <1>6 DEF BadEcc
  <2> QED BY <1>3, <1>6, <2>1 DEF Image
<1>11. Reading(o, x, p)
  BY <1>3, <1>6 DEF Reading
<1> QED BY <1>1, <1>3, <1>5, <1>6, <1>7, <1>8, <1>9, <1>10, <1>11 DEF Good

LEMMA BeginSafe ==
  ASSUME StreamInv, NEW kind \in Kinds, NEW bad \in 0..(ImageUnits \div RecordUnits),
         Begin(kind, bad)
  PROVE  Safe
<1> DEFINE f == IF kind \in {"restore", "scan"} THEN Units(ImageUnits) ELSE <<>>
           x == PutFile(World, f)
<1>1. /\ op.todo = <<>> /\ done < MaxOps /\ (kind = "scan" \/ bad = 0)
      /\ op' = [NoOp EXCEPT !.kind = kind, !.todo = Script(kind), !.bad = bad]
      /\ done' = done + 1 /\ fx' = [fx EXCEPT !.file = f]
      /\ UNCHANGED <<wb, ra, build, log>>
  BY DEF Begin
<1>2. /\ Calm(World) /\ log.pause = 0 /\ World.fx = fx /\ World.wb = wb /\ World.ra = ra
      /\ ra.depth = 0 /\ wb.depth = 0 /\ fx.open = 0
      /\ build \in Builds /\ done \in 0..MaxOps /\ Tidy(log, log.sequence)
  BY <1>1, Now DEF StreamInv, Quiet
<1>3. fx' = x.fx /\ wb' = x.wb /\ ra' = x.ra
  BY <1>1, <1>2 DEF PutFile, World
<1>4. kind \in {"export", "format", "restore", "scan"} /\ bad \in Nat
  BY ImageStreamAssumption, FileXioAssumption
<1>5. PICK c \in {"no", "given", "scanned"}, d \in Images :
        /\ Leads(Script(kind), Phase(0, 0, 0, "none", c), Phase(0, 0, 0, "none", d))
        /\ c = "no" <=> kind \in Exports
        /\ f = IF c = "no" THEN <<>> ELSE Units(ImageUnits)
        /\ bad # 0 => c = "scanned"
  <2>1. CASE kind \in Exports
    <3>1. Leads(Script(kind), Phase(0, 0, 0, "none", "no"), Phase(0, 0, 0, "none", "made"))
      BY <2>1, ScriptLeads
    <3> QED BY <1>1, <2>1, <3>1 DEF Exports, Images
  <2>2. CASE kind = "restore"
    BY <1>1, <2>2, ScriptLeads DEF Exports, Images
  <2>3. CASE kind = "scan"
    BY <1>1, <2>3, ScriptLeads DEF Exports, Images
  <2> QED BY <1>4, <2>1, <2>2, <2>3 DEF Exports
<1>6. PICK u, p, q, t : /\ u = op' /\ p = Phase(0, 0, 0, "none", c) /\ t = Script(kind)
                        /\ q = Phase(0, 0, 0, "none", d)
  OBVIOUS
<1>7. /\ u.kind = kind /\ u.todo = t /\ u.rc = 0 /\ u.bad = bad /\ u.pages = 0 /\ u.got = <<>>
      /\ ~u.sealed /\ ~u.checked /\ ~u.formatted
  BY <1>1, <1>6 DEF NoOp
<1>8. u \in Operations
  <2>1. t \in Seq(Steps)
    BY <1>5, <1>6 DEF Leads
  <2>2. u = [kind |-> kind, todo |-> t, rc |-> 0, bad |-> bad, pages |-> 0, asides |-> 0,
             got |-> <<>>, found |-> 0, sealed |-> FALSE, checked |-> FALSE,
             formatted |-> FALSE]
    BY <1>1, <1>6 DEF NoOp
  <2>3. <<>> \in Seq(Int)
    OBVIOUS
  <2> QED BY <1>4, <2>1, <2>2, <2>3 DEF Operations
<1>9. p \in Phases /\ q \in Phases /\ p.pause = 0 /\ Balanced(q)
  BY <1>5, <1>6 DEF Phase, Phases, Images, Places, Balanced
<1>10. Good(u, x, p)
  <2>1. c = "no" <=> u.kind \in Exports
    BY <1>5, <1>7
  <2>2. u.bad # 0 => c = "scanned"
    BY <1>5, <1>7
  <2>3. f = IF c = "no" THEN <<>> ELSE Units(ImageUnits)
    BY <1>5
  <2> HIDE DEF f
  <2> QED BY <1>2, <1>6, <1>7, <2>1, <2>2, <2>3, BeginGood
<1>11. StreamInv'
  <2>1. done' \in 0..MaxOps
    BY <1>1, <1>2, ImageStreamAssumption
  <2>2. Tidy(log', log'.sequence) /\ log'.pause = p.pause /\ build' = build /\ op' = u
    BY <1>1, <1>2, <1>6, <1>9
  <2>3. Leads(u.todo, p, q)
    BY <1>5, <1>6, <1>7
  <2> HIDE DEF x
  <2> QED BY <1>2, <1>3, <1>8, <1>9, <1>10, <2>1, <2>2, <2>3, Arrive
<1>12. Owned
  <2>1. World.fx.rpc.st = "none"
    BY <1>2, Idles
  <2> QED BY <1>2, <2>1 DEF Owned, InFlight
<1>13. Alone
  BY <1>1 DEF Alone
<1>14. Mapped
  <2>1. CASE ~Exporting'
    BY <2>1, EndMapped
  <2>2. CASE Exporting'
    <3>1. /\ ~op'.sealed /\ ~(op'.rc < 0) /\ fx'.open = 0 /\ fx'.file = <<>>
          /\ op'.pages = 0
      <4>1. kind \in Exports
        BY <1>6, <1>7, <2>2 DEF Exporting
      <4>2. f = <<>>
        BY <4>1 DEF Exports
      <4>3. x.fx.open = 0 /\ x.fx.file = f
        <5> DEFINE w == World
                   g == <<>>
        <5>1. w \in Worlds /\ g \in Seq(Int) /\ w.fx.open = 0
          BY <1>2, Idles
        <5> HIDE DEF w, g
        <5>2. PutFile(w, g).fx.open = 0 /\ PutFile(w, g).fx.file = g
          BY <5>1, FileParts
        <5> QED BY <4>2, <5>2 DEF w, g
      <4> QED BY <1>3, <1>6, <1>7, <4>2, <4>3
    <3>2. op'.pages * RecordUnits = 0
      BY <3>1, FileXioAssumption
    <3>3. Promise!Discard
      BY <2>2, <3>1, <3>2, Zenon DEF Promise!Discard
    <3> QED BY <3>3 DEF Mapped, Promise!StreamNext
  <2> QED BY <2>1, <2>2
<1> QED BY <1>11, <1>12, <1>13, <1>14 DEF Safe

(* The log of a new start holds one line.                                  *)
LEMMA LogInitTidy ==
  ASSUME NEW m \in 0..LogFaults
  PROVE  Tidy(LogInit(m), LogInit(m).sequence)
<1> DEFINE L == LogInit(m)
<1>1. L \in Logs
  BY DEF LogInit, Logs
<1>2. L.sequence = 1 /\ L.ring = <<1>> /\ L.file = <<>> /\ Len(L.ring) = 1 /\ Len(L.file) = 0
  BY DEF LogInit
<1>3. L.ring[1] = 1 /\ 1 <= RingLines
  BY <1>2, DiagLogAssumption
<1> HIDE DEF L
<1>4. \A i \in 1..Len(L.ring) : i = 1
  BY <1>2
<1>5. \A i \in 1..Len(L.ring) : L.ring[i] = 1
  BY <1>3, <1>4
<1>6. 1..Len(L.file) = {}
  BY <1>2
<1>7. L.sequence \in Nat /\ L.sequence <= L.sequence /\ Len(L.ring) <= RingLines
  BY <1>2, <1>3, DiagLogAssumption
<1>8. PICK M, n : M = L /\ n = L.sequence
  OBVIOUS
<1>9. /\ M \in Logs /\ n \in Nat /\ n <= M.sequence /\ Len(M.ring) <= RingLines
      /\ n = 1 /\ \A i \in 1..Len(M.ring) : M.ring[i] = 1
      /\ 1..Len(M.file) = {}
  BY <1>1, <1>2, <1>5, <1>6, <1>7, <1>8
<1>10. Tidy(M, n)
  BY <1>9 DEF Tidy
<1> QED BY <1>8, <1>10 DEF L

(* The first state.                                                        *)
LEMMA FirstState == ASSUME Init PROVE StreamInv /\ Promise!StreamInit
<1>1. PICK n \in 0..MaxFaults, m \in 0..LogFaults :
        /\ fx = FxInit(n) /\ log = LogInit(m) /\ build \in Builds
        /\ wb = WbInit /\ ra = RaInit /\ op = NoOp /\ done = 0
  BY DEF Init
<1> DEFINE w == World
<1>2. /\ fx.mode = "WAIT" /\ fx.rpc = NoRequest /\ fx.open = 0 /\ fx.pos = 0 /\ fx.file = <<>>
      /\ wb.depth = 0 /\ wb.async = NoSlot /\ ra.depth = 0 /\ ra.cur = NoSlot
      /\ ra.async = NoSlot /\ ra.ready = NoSlot /\ \A s \in Slots : ra.slot[s] = EmptySlot
      /\ log.pause = 0 /\ op.todo = <<>> /\ op.rc = 0 /\ op.got = <<>> /\ ~op.sealed
      /\ ~op.formatted
  BY <1>1 DEF FxInit, WbInit, RaInit, LogInit, NoOp
<1>3. fx \in Clients
  BY <1>1, FileXioAssumption DEF FxInit, Clients, Requests, NoRequest
<1>4. wb \in Batches
  <2>1. EmptyBuffer \in [1..BatchUnits -> Int]
    BY DEF EmptyBuffer
  <2> QED BY <1>1, <2>1, FileXioAssumption DEF WbInit, Batches, Slots, NoSlot
<1>5. ra \in Caches
  <2>1. EmptySlot \in Buffers
    BY DEF EmptySlot, Buffers
  <2> QED BY <1>1, <2>1 DEF RaInit, Caches
<1>6. w \in Worlds /\ w.fx = fx /\ w.wb = wb /\ w.ra = ra
  <2>1. <<>> \in Seq(Int) /\ 0 \in Int
    OBVIOUS
  <2> QED BY <1>3, <1>4, <1>5, <2>1 DEF Worlds, World
<1> HIDE DEF w
<1>7. w.fx.rpc.st = "none" /\ ~Queued(w, "write") /\ ~Queued(w, "read")
  BY <1>2, <1>6 DEF NoRequest, Queued
<1>8. Calm(w)
  <2>1. Shape(w.ra)
    BY <1>2, <1>6, EmptyCache
  <2>2. Sound(w)
    BY <1>2, <1>6, <1>7, <2>1, SoundQuiet
  <2>3. Pending(w)
    <3>1. Size(w) = 0 /\ Units(0) = <<>> /\ ImageUnits \in Nat
      BY <1>2, <1>6, FileXioAssumption DEF Size, Units
    <3> QED BY <1>2, <1>6, <1>7, <3>1, PendingQuiet
  <2>4. Fetch(w)
    BY <1>2, <1>6 DEF Fetch
  <2> QED BY <1>2, <1>6, <2>2, <2>3, <2>4, FileXioAssumption DEF Calm
<1>9. Told(op, w)
  BY <1>2, <1>6, ToldNone
<1>10. Quiet
  BY <1>2, <1>8, <1>9 DEF Quiet, w
<1>11. op \in Operations
  <2>1. <<>> \in Seq(Int) /\ <<>> \in Seq(Steps)
    OBVIOUS
  <2> QED BY <1>1, <2>1 DEF NoOp, Operations
<1>12. Tidy(log, log.sequence)
  BY <1>1, LogInitTidy
<1>13. Promise!StreamInit
  BY <1>2 DEF Promise!StreamInit, Exporting
<1> QED BY <1>1, <1>2, <1>10, <1>11, <1>12, <1>13, ImageStreamAssumption DEF StreamInv

(* Nothing happens.                                                        *)
LEMMA StutterSafe == ASSUME StreamInv, UNCHANGED vars PROVE Safe
<1>1. UNCHANGED <<fx, wb, ra, build, log, op, done>>
  BY DEF vars
<1>2. PICK v, a : v = World /\ a = op
  OBVIOUS
<1>3. /\ fx' = v.fx /\ wb' = v.wb /\ ra' = v.ra /\ op' = a /\ build' = build
      /\ a \in Operations /\ build \in Builds /\ done' \in 0..MaxOps
      /\ Tidy(log', log'.sequence)
  BY <1>1, <1>2, Now DEF StreamInv
<1>4. StreamInv'
  <2>1. CASE op.todo = <<>>
    <3>1. /\ Calm(v) /\ Told(a, v) /\ log.pause = 0 /\ ra.depth = 0 /\ wb.depth = 0
          /\ fx.open = 0 /\ wb.async = NoSlot
      BY <1>2, <2>1 DEF StreamInv, Quiet
    <3>2. Calm(World)' /\ Told(op, World)'
      BY <1>3, <3>1, CarryCalm, CarryTold
    <3>3. Quiet'
      BY <1>1, <3>1, <3>2 DEF Quiet
    <3>4. op'.todo = <<>>
      BY <1>1, <2>1
    <3>5. build' \in Builds /\ op' \in Operations
      BY <1>3
    <3> QED BY <1>3, <3>3, <3>4, <3>5 DEF StreamInv
  <2>2. CASE op.todo # <<>>
    <3>1. PICK p, q \in Phases : /\ log.pause = p.pause /\ Good(op, World, p)
                                 /\ Balanced(q) /\ Leads(op.todo, p, q)
      BY <2>2 DEF StreamInv, Running
    <3>2. Good(a, v, p) /\ Leads(a.todo, p, q) /\ log'.pause = p.pause
      BY <1>1, <1>2, <3>1
    <3> QED BY <1>3, <3>1, <3>2, Arrive
  <2> QED BY <2>1, <2>2
<1>5. Owned
  BY <1>1 DEF Owned
<1>6. Alone
  BY <1>1 DEF Alone
<1>7. Mapped
  BY <1>1 DEF Mapped, Promise!recordVars, Exporting
<1> QED BY <1>4, <1>5, <1>6, <1>7 DEF Safe

(* What every step keeps.                                                  *)
LEMMA StepSafe == ASSUME StreamInv, [Next]_vars PROVE Safe
<1>1. CASE UNCHANGED vars
  BY <1>1, StutterSafe
<1>2. CASE \E kind \in Kinds, bad \in 0..(ImageUnits \div RecordUnits) : Begin(kind, bad)
  BY <1>2, BeginSafe
<1>3. CASE \/ LogLine \/ LogPause \/ LogResume \/ LogDetach \/ LogAttach
           \/ Reboot \/ StartRaw \/ MassInit
  BY <1>3, LogLineSafe, LogPauseSafe, LogResumeSafe, LogDetachSafe, LogAttachSafe, RebootSafe,
     StartRawSafe, MassInitSafe
<1>4. CASE \/ ReadScopeOn \/ WriteScopeOn \/ ReadScopeOff \/ WriteScopeOff \/ SkipStep
           \/ Create \/ ExportRecord \/ Finish
  BY <1>4, ReadScopeOnSafe, WriteScopeOnSafe, ReadScopeOffSafe, WriteScopeOffSafe, SkipStepSafe,
     CreateSafe, ExportRecordSafe, FinishSafe
<1>5. CASE \/ OpenImage \/ OpenLocate \/ Close \/ Verify \/ Program \/ Locate \/ Sidecar
           \/ McFormat
  BY <1>5, OpenImageSafe, OpenLocateSafe, CloseSafe, VerifySafe, ProgramSafe, LocateSafe,
     SidecarSafe, McFormatSafe
<1>6. CASE LogInside \/ IopServe
  BY <1>6, LogInsideSafe, IopServeSafe
<1> QED BY <1>1, <1>2, <1>3, <1>4, <1>5, <1>6 DEF Next, Step

(* What the invariant says of one state.                                   *)
LEMMA StreamFacts ==
  ASSUME StreamInv
  PROVE  /\ Calm(World) /\ Told(op, World) /\ World.fx = fx /\ World.wb = wb /\ World.ra = ra
         /\ op.rc \in {0, Failed, BadEcc}
         /\ log.pause \in 0..2 /\ ra.depth \in 0..2 /\ wb.depth \in 0..1
<1>1. CASE op.todo = <<>>
  BY <1>1, Now DEF StreamInv, Quiet, Operations
<1>2. CASE op.todo # <<>>
  <2>1. PICK p \in Phases : log.pause = p.pause /\ Good(op, World, p)
    BY <1>2 DEF StreamInv, Running
  <2>2. p.pause \in 0..2 /\ p.ra \in 0..2 /\ p.wb \in 0..1
    BY DEF Phases
  <2> QED BY <2>1, <2>2, Now DEF Good, StreamInv, Operations
<1> QED BY <1>1, <1>2

LEMMA InvariantHolds == Spec => []StreamInv
<1>1. Init => StreamInv
  BY FirstState
<1>2. StreamInv /\ [Next]_vars => StreamInv'
  BY StepSafe DEF Safe
<1> QED BY <1>1, <1>2, PTL DEF Spec

(* Every part of the state is within its range: the wrappers nest as deep  *)
(* as the scripts of diag_wrap.c do and no deeper, no batch or refill is   *)
(* longer than its buffer and the file position is inside an image.        *)
THEOREM StreamsTyped == Spec => []StreamTypeOK
<1>1. ASSUME StreamInv PROVE StreamTypeOK
  <2>1. /\ Calm(World) /\ World.fx = fx /\ World.wb = wb /\ World.ra = ra
        /\ log.pause \in 0..2 /\ ra.depth \in 0..2 /\ wb.depth \in 0..1
    BY <1>1, StreamFacts
  <2>2. /\ fx \in Clients /\ wb \in Batches /\ ra \in Caches /\ fx.pos <= ImageUnits
        /\ Shape(ra)
    BY <2>1 DEF Calm, Sound, Worlds
  <2>3. /\ fx.mode \in {"WAIT", "NOWAIT"} /\ fx.open \in Fds \cup {0}
        /\ fx.last \in Fds \cup {0, Failed} /\ fx.pos \in 0..ImageUnits /\ fx.faults \in 0..MaxFaults
        /\ fx.shorts \in 0..MaxShorts
    BY <2>2, FileXioAssumption DEF Clients
  <2>4. fx.rpc.st \in {"none", "queued", "done"}
    <3>1. fx.rpc \in Requests
      BY <2>2 DEF Clients
    <3> QED BY <3>1 DEF Requests
  <2>5. wb.fill \in Slots /\ wb.async \in Slots \cup {NoSlot} /\ \A s \in Slots : wb.len[s] \in 0..BatchUnits
    BY <2>2 DEF Batches
  <2>6. ra.cur \in Slots \cup {NoSlot} /\ \A s \in Slots : ra.slot[s].off \in 0..Len(ra.slot[s].data)
    <3>1. ra.cur \in Slots \cup {NoSlot} /\ ra.slot \in [Slots -> Buffers]
      BY <2>2 DEF Caches
    <3>2. ASSUME NEW s \in Slots PROVE ra.slot[s].off \in 0..Len(ra.slot[s].data)
      <4>1. ra.slot[s].off \in Nat /\ ra.slot[s].data \in Seq(Int)
        BY <3>1 DEF Buffers
      <4>2. ra.slot[s].off <= Len(ra.slot[s].data)
        BY <2>2 DEF Shape
      <4> QED BY <4>1, <4>2
    <3> QED BY <3>1, <3>2
  <2>7. Len(log.ring) <= RingLines /\ log.faults \in 0..LogFaults
    BY <1>1 DEF StreamInv, Tidy, Logs
  <2> QED BY <1>1, <2>1, <2>3, <2>4, <2>5, <2>6, <2>7 DEF StreamInv, StreamTypeOK
<1> QED BY <1>1, InvariantHolds, PTL

(* Whenever no image is open the client waits and has nothing outstanding. *)
THEOREM WaitsBetween == Spec => []WaitBetweenImages
<1>1. ASSUME StreamInv PROVE WaitBetweenImages
  <2>1. Calm(World) /\ World.fx = fx
    BY <1>1, StreamFacts
  <2> QED BY <2>1 DEF Calm, NoRequest, WaitBetweenImages
<1> QED BY <1>1, InvariantHolds, PTL

(* Units read in order from the first on are a beginning of the file.      *)
LEMMA PrefixRead ==
  ASSUME NEW g \in Seq(Int), NEW f \in Seq(Int), Run(g, 0), Len(g) <= Len(f), f = Units(Len(f))
  PROVE  g = SubSeq(f, 1, Len(g))
<1>1. Len(g) \in Nat /\ Len(f) \in Nat
  OBVIOUS
<1>2. SubSeq(f, 1, Len(g)) = Units(Len(g))
  <2> DEFINE n == Len(g)
             m == Len(f)
  <2>1. n \in Nat /\ m \in Nat /\ n <= m
    BY <1>1
  <2> HIDE DEF n, m
  <2>2. SubSeq(Units(m), 1, n) = Units(n)
    BY <2>1, UnitsPrefix
  <2> QED BY <2>2 DEF n, m
<1>3. g = Units(Len(g))
  <2>1. PICK h, n : h = Units(Len(g)) /\ n = Len(g)
    OBVIOUS
  <2>2. h \in Seq(Int) /\ Len(h) = n /\ \A i \in 1..n : h[i] = i
    BY <1>1, <2>1, UnitsParts
  <2>3. g \in Seq(Int) /\ Len(g) = n /\ \A i \in 1..n : g[i] = i
    BY <2>1 DEF Run
  <2>4. g = h
    <3>1. n \in Nat
      BY <1>1, <2>1
    <3>2. DOMAIN g = 1..n /\ DOMAIN h = 1..n
      BY <2>2, <2>3, <3>1
    <3> QED BY <2>2, <2>3, <3>1, <3>2
  <2> QED BY <2>1, <2>4
<1> QED BY <1>2, <1>3

(* After b stale units the units read are those of the file, b later.      *)
LEMMA LateRead ==
  ASSUME NEW g \in Seq(Int), NEW f \in Seq(Int), NEW b \in Fds, Run(g, 0 - b),
         Len(g) <= Len(f), f = Units(Len(f)), NEW i \in DOMAIN g, i > b
  PROVE  g[i] = f[i - b]
<1>1. b \in Nat /\ i \in 1..Len(g) /\ Len(g) \in Nat /\ Len(f) \in Nat
  BY FileXioAssumption
<1>2. PICK k : k = i - b
  OBVIOUS
<1>3. k \in 1..Len(f)
  BY <1>1, <1>2
<1>4. g[i] = k
  BY <1>1, <1>2 DEF Run
<1>5. PICK n : n = Len(f)
  OBVIOUS
<1>6. \A j \in 1..n : Units(n)[j] = j
  BY <1>1, <1>5, UnitsParts
<1>7. f[k] = k
  BY <1>3, <1>5, <1>6
<1> QED BY <1>2, <1>4, <1>7

(* A verification or a restore reads the records of the file, in order,    *)
(* or, in a restore of the build that prefetches reads, as many stale      *)
(* units as the number of a descriptor and then the records of the file.   *)
THEOREM ReadsFaithfully == Spec => []ReadFaithful
<1>1. ASSUME StreamInv PROVE ReadFaithful
  <2> SUFFICES ASSUME op.rc # BadEcc
               PROVE  \/ op.got = SubSeq(fx.file, 1, Len(op.got))
                      \/ /\ op.checked /\ build = "asyncread"
                         /\ \E fd \in Fds : \A i \in DOMAIN op.got :
                               i > fd => op.got[i] = fx.file[i - fd]
    BY DEF ReadFaithful
  <2>1. Calm(World) /\ Told(op, World) /\ World.fx = fx
    BY <1>1, StreamFacts
  <2>2. PICK g, f : g = op.got /\ f = fx.file
    OBVIOUS
  <2>3. PICK b \in Shifts(op) : Run(g, 0 - b)
    BY <2>1, <2>2 DEF Told
  <2>4. Len(g) <= Len(f) /\ f = Units(Len(f))
    <3>1. Pending(World)
      BY <2>1 DEF Calm
    <3> QED BY <2>1, <2>2, <3>1 DEF Told, Pending, Size
  <2>5. g \in Seq(Int) /\ f \in Seq(Int)
    <3>1. World \in Worlds
      BY <2>1 DEF Calm, Sound
    <3>2. World.fx \in Clients
      BY <3>1 DEF Worlds
    <3> QED BY <1>1, <2>1, <2>2, <3>2 DEF StreamInv, Operations, Clients
  <2>6. b = 0 \/ (b \in Fds /\ op.checked /\ build = "asyncread")
    BY DEF Shifts
  <2>7. CASE b = 0
    <3>1. Run(g, 0)
      BY <2>3, <2>7
    <3>2. g = SubSeq(f, 1, Len(g))
      BY <2>4, <2>5, <3>1, PrefixRead
    <3> QED BY <2>2, <3>2
  <2>8. CASE b \in Fds /\ op.checked /\ build = "asyncread"
    <3>1. \A i \in DOMAIN g : i > b => g[i] = f[i - b]
      BY <2>3, <2>4, <2>5, <2>8, LateRead
    <3> QED BY <2>2, <2>8, <3>1
  <2> QED BY <2>6, <2>7, <2>8
<1> QED BY <1>1, InvariantHolds, PTL

(* The card is formatted only with a complete image of it on the stick.    *)
THEOREM FormatsWithImage == Spec => []FormatOnlyWithImage
<1>1. ASSUME StreamInv PROVE FormatOnlyWithImage
  <2>1. Told(op, World) /\ World.fx = fx
    BY <1>1, StreamFacts
  <2> QED BY <2>1 DEF Told, FormatOnlyWithImage
<1> QED BY <1>1, InvariantHolds, PTL

(* The whole lines of the log file are in the order they were formatted.   *)
THEOREM LogStaysInOrder == Spec => []LogInOrder
<1>1. ASSUME StreamInv PROVE LogInOrder
  <2>1. Tidy(log, log.sequence)
    BY <1>1 DEF StreamInv
  <2>2. log.file \in Seq(Lines)
    BY <2>1 DEF Tidy, Logs
  <2>3. DOMAIN log.file = 1..Len(log.file) /\ \A i \in 1..Len(log.file) : log.file[i].dropped \in Nat
    <3> DEFINE f == log.file
    <3>1. f \in Seq(Lines)
      BY <2>2
    <3> HIDE DEF f
    <3>2. DOMAIN f = 1..Len(f) /\ \A i \in 1..Len(f) : f[i] \in Lines
      BY <3>1
    <3> QED BY <3>2 DEF f, Lines
  <2>4. ASSUME NEW i \in WholeIn(log.file) \ Notices PROVE i \in 1..Len(log.file) /\ Plain(log.file[i])
    <3>1. i \in 1..Len(log.file) /\ log.file[i].whole /\ ~(log.file[i].dropped > 0)
      BY <2>3 DEF WholeIn, Notices
    <3> QED BY <2>3, <3>1 DEF Plain
  <2>5. ASSUME NEW i \in WholeIn(log.file) \ Notices, NEW j \in WholeIn(log.file) \ Notices, i < j
        PROVE  log.file[i].n <= log.file[j].n
    <3>1. i \in 1..Len(log.file) /\ Plain(log.file[i]) /\ j \in 1..Len(log.file) /\ Plain(log.file[j])
      BY <2>4
    <3> QED BY <2>1, <2>5, <3>1 DEF Tidy
  <2> QED BY <2>5 DEF LogInOrder
<1> QED BY <1>1, InvariantHolds, PTL

(* The log touches the stick only while no image file is open there.       *)
THEOREM LogTouchesAlone == Spec => LogAlone
<1>1. StreamInv /\ [Next]_vars => Alone
  BY StepSafe DEF Safe
<1>2. Alone => [log'.file # log.file \/ (log'.path /\ ~log.path)
                  => fx.open = 0 /\ fx.rpc.st # "queued"]_vars
  BY DEF Alone
<1> QED BY <1>1, <1>2, InvariantHolds, PTL DEF Spec, LogAlone

(* The buffer with the IOP is not the one that is filled or consumed.      *)
THEOREM BufferIsOwned == Spec => AsyncOwnsItsBuffer
<1>1. StreamInv /\ [Next]_vars => Owned
  BY StepSafe DEF Safe
<1>2. StreamInv => (InFlight("read") => ra.cur # fx.rpc.slot)
  <2> SUFFICES ASSUME StreamInv, InFlight("read") PROVE ra.cur # fx.rpc.slot
    OBVIOUS
  <2>1. Sound(World) /\ World.fx = fx /\ World.ra = ra
    BY StreamFacts DEF Calm
  <2>2. Queued(World, "read")
    BY <2>1 DEF InFlight, Queued
  <2> QED BY <2>1, <2>2 DEF Sound
<1>3. StreamInv /\ Owned =>
        [/\ InFlight("write") /\ fx'.rpc = fx.rpc => wb'.buf[fx.rpc.slot] = wb.buf[fx.rpc.slot]
         /\ InFlight("read") => ra.cur # fx.rpc.slot]_vars
  BY <1>2 DEF Owned
<1> QED BY <1>1, <1>3, InvariantHolds, PTL DEF Spec, AsyncOwnsItsBuffer

(* The batch below the export implements a plain stream of writes.         *)
THEOREM BatchImplementsStream == Spec => StreamImplements
<1>1. Init => Promise!StreamInit
  BY FirstState
<1>2. StreamInv /\ [Next]_vars => [Promise!StreamNext]_(Promise!recordVars)
  BY StepSafe DEF Safe, Mapped
<1> QED BY <1>1, <1>2, InvariantHolds, PTL DEF Spec, StreamImplements, Promise!StreamSpec

-----------------------------------------------------------------------------
(* The losses of the log: each is one the log admits.                      *)
LEMMA InClaims ==
  ASSUME NEW f, NEW p
  PROVE  p \in Claims(f) <=> \E i \in WholeIn(f) : p \in {i} \X (1..f[i].dropped)
BY DEF Claims

LEMMA Wholes ==
  ASSUME NEW f \in Seq(Lines)
  PROVE  /\ Len(f) \in Nat /\ WholeIn(f) \subseteq 1..Len(f)
         /\ \A i \in WholeIn(f) : f[i] \in Lines /\ f[i].dropped \in Nat /\ f[i].n \in Nat
<1>1. Len(f) \in Nat /\ DOMAIN f = 1..Len(f)
  OBVIOUS
<1>2. WholeIn(f) \subseteq 1..Len(f)
  BY <1>1 DEF WholeIn
<1>3. \A i \in 1..Len(f) : f[i] \in Lines
  BY ElementOfSeq
<1> QED BY <1>1, <1>2, <1>3 DEF Lines

LEMMA RowFinite ==
  ASSUME NEW i, NEW d \in Nat
  PROVE  IsFiniteSet({i} \X (1..d)) /\ Cardinality({i} \X (1..d)) = d
<1> DEFINE S == {i}
           T == 1..d
<1>1. IsFiniteSet(S) /\ Cardinality(S) = 1
  BY FS_Singleton
<1>2. IsFiniteSet(T) /\ Cardinality(T) = d
  <2>1. IsFiniteSet(T) /\ Cardinality(T) = IF 1 > d THEN 0 ELSE d - 1 + 1
    BY FS_Interval
  <2> QED BY <2>1
<1> HIDE DEF S, T
<1>3. IsFiniteSet(S \X T) /\ Cardinality(S \X T) = Cardinality(S) * Cardinality(T)
  BY <1>1, <1>2, FS_Product
<1>4. Cardinality(S) * Cardinality(T) = d
  BY <1>1, <1>2
<1> QED BY <1>3, <1>4 DEF S, T

LEMMA ClaimsFinite ==
  ASSUME NEW f \in Seq(Lines)
  PROVE  IsFiniteSet(Claims(f)) /\ Cardinality(Claims(f)) \in Nat
<1> DEFINE W == WholeIn(f)
           T == {{i} \X (1..f[i].dropped) : i \in W}
           g == [i \in W |-> {i} \X (1..f[i].dropped)]
<1>1. IsFiniteSet(W)
  <2> DEFINE I == 1..Len(f)
  <2>1. IsFiniteSet(I)
    <3>1. 1 \in Int /\ Len(f) \in Int
      BY Wholes
    <3> QED BY <3>1, FS_Interval
  <2>2. W \in SUBSET I
    BY Wholes
  <2> HIDE DEF I, W
  <2> QED BY <2>1, <2>2, FS_Subset
<1>2. g \in Surjection(W, T)
  BY DEF Surjection
<1>3. \A i \in W : IsFiniteSet({i} \X (1..f[i].dropped))
  <2> SUFFICES ASSUME NEW i \in W PROVE IsFiniteSet({i} \X (1..f[i].dropped))
    OBVIOUS
  <2>1. f[i].dropped \in Nat
    BY Wholes
  <2> QED BY <2>1, RowFinite
<1>4. \A t \in T : IsFiniteSet(t)
  BY <1>3
<1> HIDE DEF g
<1>5. Claims(f) = UNION T
  BY DEF Claims
<1> HIDE DEF T, W
<1>6. IsFiniteSet(T)
  BY <1>1, <1>2, FS_Surjection
<1>7. IsFiniteSet(Claims(f))
  BY <1>4, <1>5, <1>6, FS_UNION
<1> QED BY <1>7, FS_CardinalityType

(* A longer file claims as much, and what a new whole line speaks of.      *)
LEMMA ClaimsGrow ==
  ASSUME NEW f \in Seq(Lines), NEW g \in Seq(Lines), Len(f) <= Len(g),
         \A i \in 1..Len(f) : g[i] = f[i]
  PROVE  Claims(f) \subseteq Claims(g) /\ Cardinality(Claims(f)) <= Cardinality(Claims(g))
<1>1. WholeIn(f) \subseteq WholeIn(g) /\ \A i \in WholeIn(f) : g[i] = f[i]
  <2>1. DOMAIN f = 1..Len(f) /\ DOMAIN g = 1..Len(g) /\ Len(f) \in Nat /\ Len(g) \in Nat
    OBVIOUS
  <2> QED BY <2>1 DEF WholeIn
<1>2. Claims(f) \subseteq Claims(g)
  BY <1>1, InClaims
<1>3. IsFiniteSet(Claims(g))
  BY ClaimsFinite
<1> QED BY <1>2, <1>3, FS_Subset

LEMMA ClaimsNotice ==
  ASSUME NEW f \in Seq(Lines), NEW g \in Seq(Lines), Len(f) <= Len(g),
         \A i \in 1..Len(f) : g[i] = f[i],
         NEW j \in 1..Len(g), j > Len(f), g[j].whole
  PROVE  Cardinality(Claims(f)) + g[j].dropped <= Cardinality(Claims(g))
<1> DEFINE d == g[j].dropped
           N == {j} \X (1..d)
           A == Claims(f)
           B == Claims(g)
<1>1. j \in WholeIn(g) /\ j \notin WholeIn(f)
  <2>1. DOMAIN f = 1..Len(f) /\ DOMAIN g = 1..Len(g)
    OBVIOUS
  <2> QED BY <2>1 DEF WholeIn
<1>2. d \in Nat
  BY <1>1, Wholes
<1>3. N \subseteq B
  BY <1>1, InClaims
<1>4. A \subseteq B
  BY ClaimsGrow
<1>5. A \cap N = {}
  <2> SUFFICES ASSUME NEW p \in A, p \in N PROVE FALSE
    OBVIOUS
  <2>1. PICK i \in WholeIn(f) : p \in {i} \X (1..f[i].dropped)
    BY InClaims
  <2>2. p[1] = i /\ p[1] = j
    BY <2>1
  <2> QED BY <1>1, <2>1, <2>2
<1>6. IsFiniteSet(A) /\ IsFiniteSet(B) /\ Cardinality(A) \in Nat /\ Cardinality(B) \in Nat
  BY ClaimsFinite
<1> HIDE DEF A, B, d
<1>7. IsFiniteSet(N) /\ Cardinality(N) = d
  BY <1>2, RowFinite
<1> HIDE DEF N
<1>8. /\ IsFiniteSet(A \cup N)
      /\ Cardinality(A \cup N) = Cardinality(A) + Cardinality(N) - Cardinality(A \cap N)
  BY <1>6, <1>7, FS_Union
<1>9. Cardinality(A \cap N) = 0
  BY <1>5, FS_EmptySet
<1>10. Cardinality(A \cup N) <= Cardinality(B)
  <2>1. A \cup N \in SUBSET B
    BY <1>3, <1>4
  <2> QED BY <2>1, <1>6, FS_Subset
<1>11. Cardinality(A) + d <= Cardinality(B)
  BY <1>2, <1>6, <1>7, <1>8, <1>9, <1>10
<1> QED BY <1>11 DEF A, B, d

(* Sets of numbers lost.                                                   *)
LEMMA LostFinite ==
  ASSUME NEW L \in Logs, NEW b
  PROVE  /\ IsFiniteSet(Lost(L, b)) /\ Cardinality(Lost(L, b)) \in Nat
         /\ Admits(L) \in Nat
<1>1. L.sequence \in Nat /\ L.dropped \in Nat /\ L.file \in Seq(Lines)
  BY LogParts
<1> DEFINE I == 1..L.sequence
           S == Lost(L, b)
           f == L.file
<1>2. IsFiniteSet(I)
  <2>1. 1 \in Int /\ L.sequence \in Int
    BY <1>1
  <2> QED BY <2>1, FS_Interval
<1>3. S \in SUBSET I
  BY DEF Lost
<1> HIDE DEF I, S
<1>4. IsFiniteSet(S) /\ Cardinality(S) \in Nat
  BY <1>2, <1>3, FS_Subset, FS_CardinalityType
<1>5. Cardinality(Claims(f)) \in Nat
  <2>1. f \in Seq(Lines)
    BY <1>1
  <2> HIDE DEF f
  <2> QED BY <2>1, ClaimsFinite
<1>6. Admits(L) \in Nat
  BY <1>1, <1>5 DEF Admits
<1> QED BY <1>4, <1>6 DEF S

LEMMA OwesFrom ==
  ASSUME NEW L \in Logs, NEW M \in Logs, NEW b, NEW c, Owes(L, b),
         Lost(M, c) \subseteq Lost(L, b), Admits(L) <= Admits(M)
  PROVE  Owes(M, c)
<1> DEFINE S == Lost(L, b)
           T == Lost(M, c)
<1>1. IsFiniteSet(S) /\ Cardinality(S) \in Nat /\ Admits(L) \in Nat
  BY LostFinite
<1>2. Cardinality(T) \in Nat /\ Admits(M) \in Nat
  BY LostFinite
<1>3. T \in SUBSET S /\ Cardinality(S) <= Admits(L)
  BY DEF Owes
<1> HIDE DEF S, T
<1>4. Cardinality(T) <= Cardinality(S)
  BY <1>1, <1>3, FS_Subset
<1>5. Cardinality(T) <= Admits(M)
  BY <1>1, <1>2, <1>3, <1>4
<1> QED BY <1>5 DEF Owes, T

LEMMA OwesMore ==
  ASSUME NEW L \in Logs, NEW M \in Logs, NEW b, NEW c, Owes(L, b), NEW x,
         Lost(M, c) \subseteq Lost(L, b) \cup {x}, Admits(L) + 1 <= Admits(M)
  PROVE  Owes(M, c)
<1> DEFINE S == Lost(L, b)
           T == Lost(M, c)
           U == S \cup {x}
<1>1. IsFiniteSet(S) /\ Cardinality(S) \in Nat /\ Admits(L) \in Nat
  BY LostFinite
<1>2. Cardinality(T) \in Nat /\ Admits(M) \in Nat
  BY LostFinite
<1>3. T \in SUBSET U /\ Cardinality(S) <= Admits(L)
  BY DEF Owes
<1> HIDE DEF S, T
<1>4. /\ IsFiniteSet(U) /\ Cardinality(U) \in Nat
      /\ Cardinality(U) = (IF x \in S THEN Cardinality(S) ELSE Cardinality(S) + 1)
  BY <1>1, FS_AddElement, FS_CardinalityType
<1> HIDE DEF U
<1>5. Cardinality(T) <= Cardinality(U)
  BY <1>3, <1>4, FS_Subset
<1>6. Cardinality(T) <= Admits(M)
  BY <1>1, <1>2, <1>3, <1>4, <1>5
<1> QED BY <1>6 DEF Owes, T
(* Only the ring, the file and the numbers matter for the account.         *)
LEMMA OwesSame ==
  ASSUME NEW L, NEW M, NEW b, Owes(L, b), M.ring = L.ring, M.file = L.file,
         M.sequence = L.sequence, M.dropped = L.dropped, M.notices = L.notices
  PROVE  Owes(M, b)
BY DEF Owes, Lost, Shown, Admits

LEMMA IsShown ==
  ASSUME NEW L \in Logs, NEW n
  PROVE  n \in Shown(L) <=> \/ n \in L.notices
                            \/ \E i \in 1..Len(L.ring) : n = L.ring[i]
                            \/ \E i \in 1..Len(L.file) : L.file[i].whole /\ n = L.file[i].n
<1>1. L.ring \in Seq(Nat) /\ L.file \in Seq(Lines)
  BY LogParts
<1>2. DOMAIN L.ring = 1..Len(L.ring) /\ DOMAIN L.file = 1..Len(L.file)
  BY <1>1
<1>3. n \in ToSet(L.ring) <=> \E i \in 1..Len(L.ring) : n = L.ring[i]
  BY <1>2 DEF ToSet
<1>4. n \in {L.file[i].n : i \in WholeIn(L.file)}
        <=> \E i \in 1..Len(L.file) : L.file[i].whole /\ n = L.file[i].n
  BY <1>2 DEF WholeIn
<1> QED BY <1>3, <1>4 DEF Shown

LEMMA NoticeParts ==
  ASSUME NEW L \in Logs
  PROVE  /\ L.dropped = 0 => Len(Notice(L)) = 0
         /\ Len(Notice(L)) = 0 => L.dropped = 0 /\ Numbers(Notice(L)) = {}
         /\ Len(Notice(L)) = 1 =>
               /\ Numbers(Notice(L)) = {L.sequence + 1}
               /\ Batch(L)[1].whole /\ Batch(L)[1].dropped = L.dropped
<1> DEFINE first == [n |-> L.sequence + 1, dropped |-> L.dropped, whole |-> TRUE]
           lines == [i \in DOMAIN L.ring |-> Line(L.ring[i])]
<1>1. L.ring \in Seq(Nat) /\ L.dropped \in Nat /\ L.sequence \in Nat
  BY LogParts
<1>2. CASE L.dropped = 0
  <2>1. Notice(L) = <<>>
    BY <1>2 DEF Notice
  <2> QED BY <1>2, <2>1 DEF Numbers
<1>3. CASE L.dropped # 0
  <2>1. Notice(L) = <<first>>
    BY <1>3 DEF Notice
  <2>2. first \in Lines /\ first.n = L.sequence + 1 /\ first.whole /\ first.dropped = L.dropped
    BY <1>1 DEF Lines
  <2>3. lines \in Seq(Lines)
    <3>1. \A i \in 1..Len(L.ring) : Line(L.ring[i]) \in Lines
      BY LogParts DEF Lines, Line
    <3>2. lines \in [1..Len(L.ring) -> Lines] /\ Len(L.ring) \in Nat
      BY <1>1, <3>1
    <3> QED BY <3>2, IsASeq
  <2> HIDE DEF first
  <2> DEFINE t == <<first>>
  <2>4. t \in Seq(Lines) /\ Len(t) = 1 /\ t[1] = first /\ DOMAIN t = {1}
    <3>1. t \in Seq(Lines) /\ Len(t) = 1 /\ t[1] = first
      BY <2>2, Singleton, Zenon
    <3> HIDE DEF t
    <3> QED BY <3>1
  <2> HIDE DEF t, lines
  <2>5. Numbers(t) = {first.n}
    BY <2>4 DEF Numbers
  <2>6. (t \o lines)[1] = t[1]
    <3>1. \A i \in 1..Len(t) : (t \o lines)[i] = t[i]
      BY <2>3, <2>4, Joined
    <3> QED BY <2>4, <3>1
  <2>7. Notice(L) = t /\ Batch(L) = t \o lines
    BY <2>1 DEF Batch, t, lines
  <2>8. Len(Notice(L)) = 1 /\ Numbers(Notice(L)) = {L.sequence + 1} /\ Batch(L)[1] = first
    BY <2>2, <2>4, <2>5, <2>6, <2>7, Zenon
  <2> QED BY <1>3, <2>2, <2>8
<1> QED BY <1>2, <1>3

LEMMA FlushedOwes ==
  ASSUME NEW L \in Logs, NEW b, Owes(L, b), NEW torn \in BOOLEAN,
         NEW k \in 0..Len(Batch(L)), torn => k < Len(Batch(L))
  PROVE  Owes(Flushed(L, k, torn), b)
<1> DEFINE c == Len(Notice(L))
           m == Len(L.ring)
           f == Len(L.file)
           e == IF k >= c THEN k - c ELSE 0
           M == Flushed(L, k, torn)
<1>0. m = Len(L.ring) /\ f = Len(L.file) /\ c = Len(Notice(L)) /\ e = IF k >= c THEN k - c ELSE 0
  OBVIOUS
<1>1. /\ L.ring \in Seq(Nat) /\ L.file \in Seq(Lines) /\ L.sequence \in Nat /\ L.dropped \in Nat
      /\ m \in Nat /\ f \in Nat
  <2> DEFINE ring == L.ring
             file == L.file
  <2>1. ring \in Seq(Nat) /\ file \in Seq(Lines) /\ L.sequence \in Nat /\ L.dropped \in Nat
    BY LogParts
  <2>2. Len(ring) \in Nat /\ Len(file) \in Nat
    BY <2>1
  <2> QED BY <2>1, <2>2
<1>2. /\ c \in {0, 1} /\ Len(Batch(L)) = c + m /\ k \in Nat /\ k <= c + m
      /\ \A i \in 1..m : Batch(L)[c + i] = Line(L.ring[i])
  BY BatchLines
<1>3. /\ c = 0 => L.dropped = 0 /\ Numbers(Notice(L)) = {}
      /\ c = 1 => /\ Numbers(Notice(L)) = {L.sequence + 1}
                  /\ Batch(L)[1].whole /\ Batch(L)[1].dropped = L.dropped
  BY NoticeParts
<1>9. FlushedTo(L, k, M, c, m, f, e)
  BY FlushedParts
<1> HIDE DEF M, c, m, f, e
<1>4. /\ M \in Logs /\ M.sequence = L.sequence + c
      /\ M.notices = L.notices \cup Numbers(Notice(L))
      /\ M.dropped = (IF k >= c THEN 0 ELSE L.dropped)
      /\ M.pause = L.pause /\ M.io = L.io /\ M.path = L.path /\ M.faults = L.faults
      /\ e \in Nat /\ e <= m /\ (k >= c => e = k - c) /\ Len(M.ring) = m - e
      /\ \A i \in 1..Len(M.ring) : M.ring[i] = L.ring[i + e]
      /\ Len(M.file) \in Nat /\ Len(M.file) >= f + k
      /\ \A i \in 1..f : M.file[i] = L.file[i]
      /\ \A i \in 1..k : M.file[f + i] = Batch(L)[i]
      /\ \A i \in 1..Len(M.file) : i > f + k => ~M.file[i].whole
  BY <1>9 DEF FlushedTo
<1>5. \A n \in Shown(L) : n \in Shown(M)
  <2> SUFFICES ASSUME NEW n \in Shown(L) PROVE n \in Shown(M)
    OBVIOUS
  <2>1. CASE n \in L.notices
    BY <2>1, <1>4, IsShown
  <2>2. ASSUME NEW i \in 1..m, n = L.ring[i] PROVE n \in Shown(M)
    <3>1. CASE i <= e
      <4>1. k >= c /\ c + i \in 1..k
        BY <3>1, <1>0, <1>1, <1>2, <1>4
      <4>2. M.file[f + (c + i)] = Line(L.ring[i])
        BY <4>1, <1>2, <1>4
      <4>3. f + (c + i) \in 1..Len(M.file)
        BY <4>1, <1>1, <1>2, <1>4
      <4>4. M.file[f + (c + i)].whole /\ M.file[f + (c + i)].n = n
        BY <4>2, <2>2 DEF Line
      <4> QED BY <4>3, <4>4, <1>4, IsShown
    <3>2. CASE i > e
      <4>1. i - e \in 1..Len(M.ring) /\ (i - e) + e = i
        BY <3>2, <1>1, <1>4
      <4>2. M.ring[i - e] = n
        BY <4>1, <2>2, <1>4
      <4> QED BY <4>1, <4>2, <1>4, IsShown
    <3> QED BY <3>1, <3>2, <1>4
  <2>3. ASSUME NEW i \in 1..f, L.file[i].whole, n = L.file[i].n PROVE n \in Shown(M)
    <3>1. i \in 1..Len(M.file) /\ M.file[i] = L.file[i]
      BY <1>1, <1>2, <1>4
    <3> QED BY <2>3, <3>1, <1>4, IsShown
  <2>4. \/ n \in L.notices
        \/ \E i \in 1..m : n = L.ring[i]
        \/ \E i \in 1..f : L.file[i].whole /\ n = L.file[i].n
    BY IsShown, Zenon DEF m, f
  <2> QED BY <2>1, <2>2, <2>3, <2>4
<1>6. Lost(M, b) \subseteq Lost(L, b)
  <2> SUFFICES ASSUME NEW n \in Lost(M, b) PROVE n \in Lost(L, b)
    OBVIOUS
  <2>1. n \in 1..M.sequence /\ n \notin Shown(M) /\ n \notin b
    BY DEF Lost
  <2>2. n \notin Shown(L) /\ n \notin Numbers(Notice(L))
    <3>1. Numbers(Notice(L)) \subseteq Shown(M)
      BY <1>4 DEF Shown
    <3> QED BY <2>1, <3>1, <1>5
  <2>3. n \in 1..L.sequence
    <3>1. CASE c = 0
      BY <2>1, <3>1, <1>1, <1>4
    <3>2. CASE c = 1
      <4>1. n # L.sequence + 1
        BY <2>2, <3>2, <1>3
      <4>2. L.sequence \in Nat /\ M.sequence = L.sequence + 1
        BY <3>2, <1>1, <1>4
      <4>3. n \in 1..(L.sequence + 1)
        BY <4>2, <2>1
      <4> QED BY <4>1, <4>2, <4>3
    <3> QED BY <3>1, <3>2, <1>2
  <2> QED BY <2>1, <2>2, <2>3 DEF Lost
<1>7. Admits(L) <= Admits(M)
  <2> DEFINE old == L.file
             new == M.file
             A == Cardinality(Claims(old))
             B == Cardinality(Claims(new))
  <2>1. /\ old \in Seq(Lines) /\ new \in Seq(Lines) /\ Len(old) = f
        /\ Len(old) <= Len(new) /\ \A i \in 1..Len(old) : new[i] = old[i]
    <3>1. M.file \in Seq(Lines)
      BY <1>4, LogParts
    <3>2. f <= Len(M.file)
      BY <1>1, <1>2, <1>4
    <3> QED BY <3>1, <3>2, <1>0, <1>1, <1>4
  <2>2. /\ \A i \in 1..k : new[f + i] = Batch(L)[i]
        /\ Len(new) \in Nat /\ Len(new) >= f + k
    BY <1>4
  <2> HIDE DEF old, new
  <2>3. A <= B /\ A \in Nat /\ B \in Nat
    BY <2>1, ClaimsGrow, ClaimsFinite
  <2>4. CASE k < c
    <3>1. M.dropped = L.dropped
      BY <2>4, <1>2, <1>4
    <3> HIDE DEF A, B
    <3>2. L.dropped + A <= M.dropped + B
      BY <2>3, <3>1, <1>1
    <3> QED BY <3>2 DEF Admits, A, B, old, new
  <2>5. CASE c = 0
    <3>1. M.dropped = 0 /\ L.dropped = 0
      BY <2>5, <1>2, <1>3, <1>4
    <3> HIDE DEF A, B
    <3>2. L.dropped + A <= M.dropped + B
      BY <2>3, <3>1, <1>1
    <3> QED BY <3>2 DEF Admits, A, B, old, new
  <2>6. CASE c = 1 /\ k >= 1
    <3>1. M.dropped = 0
      BY <2>6, <1>4
    <3>2. 1 \in 1..k /\ f + 1 \in 1..Len(new) /\ f + 1 > Len(old)
      BY <2>6, <2>1, <2>2, <1>1, <1>2
    <3>3. new[f + 1].whole /\ new[f + 1].dropped = L.dropped
      BY <2>6, <3>2, <2>2, <1>3
    <3> DEFINE j == f + 1
    <3>4. j \in 1..Len(new) /\ j > Len(old) /\ new[j].whole /\ new[j].dropped = L.dropped
      BY <3>2, <3>3
    <3> HIDE DEF j
    <3>5. A + new[j].dropped <= B
      BY <2>1, <3>4, ClaimsNotice
    <3> HIDE DEF A, B
    <3>6. L.dropped + A <= M.dropped + B
      BY <2>3, <3>1, <3>4, <3>5, <1>1
    <3> QED BY <3>6 DEF Admits, A, B, old, new
  <2> QED BY <2>4, <2>5, <2>6, <1>2
<1>8. Owes(M, b)
  BY <1>4, <1>6, <1>7, OwesFrom
<1> QED BY <1>8 DEF M

(* A line in hand goes to the ring; a full ring gives up its oldest line.  *)
LEMMA QueueOwes ==
  ASSUME NEW L, NEW b, Tidy(L, b), NEW n \in Nat, b <= n, n <= L.sequence,
         NEW h, Owes(L, h), h \subseteq {n}
  PROVE  Owes(QueueLine(L, n), {})
<1> DEFINE M == QueueLine(L, n)
           ring == L.ring
           kept == IF Len(ring) < RingLines THEN ring ELSE Tail(ring)
           e == IF Len(ring) < RingLines THEN 0 ELSE 1
           m == Len(ring)
<1>1. /\ L \in Logs /\ ring \in Seq(Nat) /\ m \in Nat /\ L.dropped \in Nat
      /\ RingLines \in Nat \ {0} /\ m = Len(ring)
  BY DiagLogAssumption DEF Tidy, Logs
<1>2. M \in Logs
  BY QueueTidy DEF Tidy
<1>3. /\ M.ring = Append(kept, n) /\ M.dropped = L.dropped + e /\ M.file = L.file
      /\ M.sequence = L.sequence /\ M.notices = L.notices
  <2>1. CASE m < RingLines
    BY <2>1, <1>1 DEF QueueLine, Logs
  <2>2. CASE ~(m < RingLines)
    BY <2>2, <1>1 DEF QueueLine, Logs
  <2> QED BY <2>1, <2>2
<1>4. /\ kept \in Seq(Nat) /\ Len(kept) = m - e /\ e \in {0, 1} /\ e <= m
      /\ \A i \in 1..(m - e) : kept[i] = ring[i + e]
  <2>1. CASE m < RingLines
    <3>1. kept = ring /\ e = 0
      BY <2>1
    <3> QED BY <3>1, <1>1
  <2>2. CASE ~(m < RingLines)
    <3>1. kept = Tail(ring) /\ e = 1 /\ ring # <<>> /\ 1 <= m
      BY <2>2, <1>1
    <3> HIDE DEF kept, e, ring
    <3>2. Tail(ring) \in Seq(Nat) /\ Len(Tail(ring)) = m - 1
          /\ \A i \in 1..(m - 1) : Tail(ring)[i] = ring[i + 1]
      BY <1>1, <3>1, HeadTailProperties
    <3> QED BY <3>1, <3>2, <1>1
  <2> QED BY <2>1, <2>2
<1> HIDE DEF M, kept, e, m
<1>13. /\ Len(Append(kept, n)) = Len(kept) + 1 /\ Append(kept, n)[Len(kept) + 1] = n
       /\ \A j \in 1..Len(kept) : Append(kept, n)[j] = kept[j]
  <2>1. kept \in Seq(Nat)
    BY <1>4
  <2> QED BY <2>1, AppendProperties
<1> DEFINE x == ring[1]
<1>5. \A i \in 1..m : ring[i] = x \/ \E j \in 1..Len(M.ring) : M.ring[j] = ring[i]
  <2> SUFFICES ASSUME NEW i \in 1..m, i # 1
               PROVE  \E j \in 1..Len(M.ring) : M.ring[j] = ring[i]
    OBVIOUS
  <2> HIDE DEF ring
  <2>1. /\ Len(Append(kept, n)) = Len(kept) + 1
        /\ \A j \in 1..Len(kept) : Append(kept, n)[j] = kept[j]
    BY <1>13
  <2> DEFINE j == i - e
  <2>2. j \in 1..(m - e) /\ j + e = i /\ j \in 1..Len(M.ring)
    BY <1>1, <1>3, <1>4, <2>1
  <2> HIDE DEF j
  <2>3. M.ring[j] = ring[i]
    BY <2>1, <2>2, <1>3, <1>4
  <2> QED BY <2>2, <2>3
<1>6. n \in Shown(M)
  <2> HIDE DEF ring
  <2>1. Len(M.ring) = Len(kept) + 1 /\ M.ring[Len(kept) + 1] = n /\ Len(kept) + 1 \in 1..Len(M.ring)
    BY <1>3, <1>4, <1>13, <1>1
  <2> QED BY <2>1, <1>2, IsShown
<1>7. \A l \in Shown(L) : l \in Shown(M) \/ (l = x /\ e = 1)
  <2> SUFFICES ASSUME NEW l \in Shown(L) PROVE l \in Shown(M) \/ (l = x /\ e = 1)
    OBVIOUS
  <2>1. CASE \/ l \in L.notices
             \/ \E i \in 1..Len(L.file) : L.file[i].whole /\ l = L.file[i].n
    BY <2>1, <1>2, <1>3, IsShown
  <2>2. ASSUME NEW i \in 1..m, l = ring[i] PROVE l \in Shown(M) \/ (l = x /\ e = 1)
    <3>1. CASE e = 1
      BY <3>1, <2>2, <1>2, <1>5, IsShown
    <3>2. CASE e = 0
      <4> HIDE DEF ring
      <4>1. /\ Len(Append(kept, n)) = Len(kept) + 1
            /\ \A j \in 1..Len(kept) : Append(kept, n)[j] = kept[j]
        BY <1>13
      <4>2. i \in 1..(m - e) /\ i + e = i /\ i \in 1..Len(M.ring)
        BY <3>2, <1>1, <1>3, <1>4, <4>1
      <4>3. M.ring[i] = l
        BY <2>2, <4>1, <4>2, <1>3, <1>4
      <4> QED BY <4>2, <4>3, <1>2, IsShown
    <3> QED BY <3>1, <3>2, <1>4
  <2>3. \/ l \in L.notices
        \/ \E i \in 1..m : l = ring[i]
        \/ \E i \in 1..Len(L.file) : L.file[i].whole /\ l = L.file[i].n
    BY <1>1, IsShown DEF m, ring
  <2> QED BY <2>1, <2>2, <2>3
<1>8. \A l \in Lost(M, {}) : l \in Lost(L, h) \/ (l = x /\ e = 1)
  BY <1>3, <1>6, <1>7 DEF Lost
<1> HIDE DEF x, ring
<1>9. Admits(M) = Admits(L) + e
  <2> DEFINE A == Cardinality(Claims(L.file))
  <2>1. A \in Nat
    <3>1. L.file \in Seq(Lines)
      BY <1>1, LogParts
    <3> QED BY <3>1, ClaimsFinite
  <2>2. Admits(L) = L.dropped + A /\ Admits(M) = (L.dropped + e) + A
    BY <1>3 DEF Admits
  <2> HIDE DEF A
  <2> QED BY <2>1, <2>2, <1>1, <1>4
<1>10. Admits(L) \in Nat
  BY <1>1, LostFinite
<1>11. CASE e = 0
  <2>1. Lost(M, {}) \subseteq Lost(L, h) /\ Admits(L) <= Admits(M)
    BY <1>8, <1>9, <1>10, <1>11
  <2> QED BY <2>1, <1>1, <1>2, OwesFrom DEF M
<1>12. CASE e = 1
  <2>1. Lost(M, {}) \subseteq Lost(L, h) \cup {x} /\ Admits(L) + 1 <= Admits(M)
    BY <1>8, <1>9, <1>10, <1>12
  <2> QED BY <2>1, <1>1, <1>2, OwesMore DEF M
<1> QED BY <1>11, <1>12, <1>4

(* A line goes to the end of the file; a whole one is no longer in hand.   *)
LEMMA PutOwes ==
  ASSUME NEW L \in Logs, NEW l \in Lines, NEW h, Owes(L, h)
  PROVE  LET M == [L EXCEPT !.file = Append(@, l)] IN
         M \in Logs /\ Owes(M, h) /\ (l.whole /\ h \subseteq {l.n} => Owes(M, {}))
<1> DEFINE file == L.file
           f == Len(file)
           new == Append(file, l)
           M == [L EXCEPT !.file = new]
<1>1. file \in Seq(Lines) /\ f \in Nat
  <2>1. L.file \in Seq(Lines)
    BY LogParts
  <2> HIDE DEF file
  <2>2. file \in Seq(Lines)
    BY <2>1 DEF file
  <2> QED BY <2>2
<1>2. /\ new \in Seq(Lines) /\ Len(new) = f + 1 /\ new[f + 1] = l
      /\ \A i \in 1..f : new[i] = file[i]
  <2> HIDE DEF file
  <2> QED BY <1>1, AppendProperties
<1> HIDE DEF new
<1>3. M \in Logs
  BY <1>2 DEF Logs
<1>4. /\ M.file = new /\ M.ring = L.ring /\ M.sequence = L.sequence /\ M.dropped = L.dropped
      /\ M.notices = L.notices
  BY DEF Logs
<1>0. file = L.file /\ f = Len(file)
  OBVIOUS
<1> HIDE DEF M, file, f
<1>5. \A n \in Shown(L) : n \in Shown(M)
  <2> SUFFICES ASSUME NEW n \in Shown(L) PROVE n \in Shown(M)
    OBVIOUS
  <2>1. CASE n \in L.notices \/ \E i \in 1..Len(L.ring) : n = L.ring[i]
    BY <2>1, <1>3, <1>4, IsShown
  <2>2. CASE \E i \in 1..f : file[i].whole /\ n = file[i].n
    <3>1. PICK i \in 1..f : file[i].whole /\ n = file[i].n
      BY <2>2
    <3>2. i \in 1..Len(M.file) /\ M.file[i] = file[i]
      BY <1>1, <1>2, <1>4
    <3> QED BY <3>1, <3>2, <1>3, IsShown
  <2> QED BY <2>1, <2>2, <1>0, IsShown
<1>6. l.whole => l.n \in Shown(M)
  <2>1. f + 1 \in 1..Len(M.file) /\ M.file[f + 1] = l
    BY <1>1, <1>2, <1>4
  <2> QED BY <2>1, <1>3, IsShown
<1>7. Admits(L) <= Admits(M)
  <2> DEFINE A == Cardinality(Claims(file))
             B == Cardinality(Claims(new))
  <2>1. Len(file) <= Len(new) /\ \A i \in 1..Len(file) : new[i] = file[i]
    BY <1>0, <1>1, <1>2
  <2>2. A <= B /\ A \in Nat /\ B \in Nat
    BY <1>1, <1>2, <2>1, ClaimsGrow, ClaimsFinite
  <2> HIDE DEF A, B
  <2>3. L.dropped \in Nat
    BY LogParts
  <2>4. L.dropped + A <= L.dropped + B
    BY <2>2, <2>3
  <2> QED BY <2>4, <1>0, <1>4 DEF Admits, A, B
<1>8. Lost(M, h) \subseteq Lost(L, h)
  BY <1>4, <1>5 DEF Lost
<1>9. Owes(M, h)
  BY <1>3, <1>7, <1>8, OwesFrom
<1>10. ASSUME l.whole, h \subseteq {l.n} PROVE Owes(M, {})
  <2>1. Lost(M, {}) \subseteq Lost(L, h)
    BY <1>4, <1>5, <1>6, <1>10 DEF Lost
  <2> QED BY <1>3, <1>7, <2>1, OwesFrom
<1> QED BY <1>3, <1>9, <1>10 DEF M, new, file

LEMMA DropOwes ==
  ASSUME NEW L \in Logs, NEW h, Owes(L, h)
  PROVE  Owes(Detached(LogFault(L)), h)
<1> DEFINE M == Detached(LogFault(L))
<1>1. /\ M.ring = L.ring /\ M.file = L.file /\ M.sequence = L.sequence
      /\ M.dropped = L.dropped /\ M.notices = L.notices
  BY DEF Detached, LogFault, Logs
<1> HIDE DEF M
<1>2. Owes(M, h)
  BY <1>1, OwesSame
<1> QED BY <1>2 DEF M

LEMMA FoundOwes ==
  ASSUME NEW L \in Logs, NEW h, Owes(L, h), NEW p \in EnsurePath(L)
  PROVE  Owes(p.log, h)
<1> DEFINE K == p.log
           F == LogFault(L)
           G == [L EXCEPT !.path = TRUE]
<1>1. /\ F.ring = L.ring /\ F.file = L.file /\ F.sequence = L.sequence
      /\ F.dropped = L.dropped /\ F.notices = L.notices
  BY DEF LogFault, Logs
<1>2. /\ G.ring = L.ring /\ G.file = L.file /\ G.sequence = L.sequence
      /\ G.dropped = L.dropped /\ G.notices = L.notices
  BY DEF Logs
<1>3. K = F \/ K = G
  <2> HIDE DEF F, G
  <2>1. p = [ok |-> TRUE, log |-> G] \/ p = [ok |-> FALSE, log |-> F]
    BY DEF EnsurePath, F, G
  <2> QED BY <2>1
<1> HIDE DEF K, F, G
<1>4. Owes(K, h)
  BY <1>1, <1>2, <1>3, OwesSame
<1> QED BY <1>4 DEF K

LEMMA FlushOwes ==
  ASSUME NEW L, NEW b, Tidy(L, b), NEW h, Owes(L, h), NEW M \in FlushPending(L)
  PROVE  Owes(M, h)
<1>1. CASE M = L
  BY <1>1
<1>2. ASSUME NEW p \in EnsurePath(L), Ended(p.log, M, Len(Batch(L)))
      PROVE  Owes(M, h)
  <2> DEFINE size == Len(Batch(L))
             K == p.log
  <2>1. Tidy(K, b) /\ size = Len(Batch(K)) /\ K \in Logs /\ L \in Logs
    BY FoundTidy DEF Tidy, size
  <2>2. Owes(K, h)
    BY <2>1, FoundOwes
  <2>3. size \in Nat /\ size \in 0..Len(Batch(K)) /\ FALSE \in BOOLEAN
    <3>1. Batch(K) \in Seq(Lines)
      BY <2>1, BatchLines
    <3> HIDE DEF size, K
    <3> QED BY <3>1, <2>1
  <2> HIDE DEF size, K
  <2>4. CASE M = [K EXCEPT !.io = FALSE]
    <3>1. /\ M.ring = K.ring /\ M.file = K.file /\ M.sequence = K.sequence
          /\ M.dropped = K.dropped /\ M.notices = K.notices
      BY <2>1, <2>4 DEF Logs
    <3> QED BY <2>2, <3>1, OwesSame
  <2>5. Owes(Flushed(K, size, FALSE), h) /\ Flushed(K, size, FALSE) \in Logs
    <3>1. Tidy(Flushed(K, size, FALSE), b)
      BY <2>1, <2>3, FlushedTidy
    <3> QED BY <2>1, <2>2, <2>3, <3>1, FlushedOwes DEF Tidy
  <2>6. CASE M = Flushed(K, size, FALSE)
    BY <2>5, <2>6
  <2>7. CASE M = Detached(LogFault(K))
    BY <2>1, <2>2, <2>7, DropOwes
  <2>8. ASSUME NEW k \in {m \in 0..(size - 1) : K.faults > 0}, NEW torn \in BOOLEAN,
               M = Detached(LogFault(Flushed(K, k, torn)))
        PROVE  Owes(M, h)
    <3> DEFINE F == Flushed(K, k, torn)
    <3>1. k \in 0..Len(Batch(K)) /\ k < Len(Batch(K))
      BY <2>1, <2>3
    <3>2. Tidy(F, b)
      BY <3>1, <2>1, FlushedTidy
    <3>3. Owes(F, h)
      BY <3>1, <2>1, <2>2, FlushedOwes
    <3> HIDE DEF F
    <3>4. F \in Logs
      BY <3>2 DEF Tidy
    <3>5. M = Detached(LogFault(F))
      BY <2>8 DEF F
    <3> QED BY <3>3, <3>4, <3>5, DropOwes
  <2>9. CASE M = Detached(LogFault(Flushed(K, size, FALSE)))
    BY <2>5, <2>9, DropOwes
  <2>10. \/ M = [K EXCEPT !.io = FALSE]
         \/ M = Flushed(K, size, FALSE)
         \/ \E n \in Faulty(K) : M = Detached(LogFault(K))
         \/ \E k \in {m \in 0..(size - 1) : K.faults > 0}, torn \in BOOLEAN :
               M = Detached(LogFault(Flushed(K, k, torn)))
         \/ \E n \in Faulty(K) : M = Detached(LogFault(Flushed(K, size, FALSE)))
    BY <1>2, Zenon DEF Ended, K, size
  <2> QED BY <2>4, <2>6, <2>7, <2>8, <2>9, <2>10
<1> QED BY <1>1, <1>2, FlushCases

LEMMA WriteOwes ==
  ASSUME NEW L, NEW n \in Nat, Tidy(L, n), L.ring = <<>>, Owes(L, {n}), NEW M \in WriteLine(L, n)
  PROVE  Owes(M, {})
<1> DEFINE Queue(K) == QueueLine(Detached(LogFault(K)), n)
           P(l) == [L EXCEPT !.file = Append(@, l)]
<1>1. \/ M = P(Line(n))
      \/ \E m \in Faulty(L) : M = Queue(L)
      \/ \E m \in Faulty(L) : M = Queue(P(Torn(Line(n))))
      \/ \E m \in Faulty(L) : M = Queue(P(Line(n)))
  BY DEF WriteLine
<1>2. /\ Line(n) \in Lines /\ Line(n).n = n /\ Line(n).whole
      /\ Torn(Line(n)) \in Lines /\ Torn(Line(n)).n = n
  BY DEF Line, Torn, Lines
<1>3. n <= n /\ n <= L.sequence /\ L \in Logs
  BY DEF Tidy
<1>4. ASSUME NEW l \in Lines, l.n = n
      PROVE  /\ Tidy(P(l), n) /\ P(l).sequence = L.sequence /\ P(l).faults = L.faults
             /\ P(l) \in Logs /\ Owes(P(l), {n}) /\ (l.whole => Owes(P(l), {}))
  <2>1. /\ Tidy(P(l), n) /\ P(l).sequence = L.sequence /\ P(l).faults = L.faults
    BY <1>3, <1>4, PutTidy
  <2>2. P(l) \in Logs /\ Owes(P(l), {n}) /\ (l.whole /\ {n} \subseteq {l.n} => Owes(P(l), {}))
    BY <1>3, PutOwes
  <2> QED BY <1>4, <2>1, <2>2
<1>5. ASSUME NEW K, Tidy(K, n), K.sequence = L.sequence, NEW m \in Faulty(K), Owes(K, {n})
      PROVE  Owes(Queue(K), {})
  <2> DEFINE D == Detached(LogFault(K))
  <2>1. Tidy(D, n) /\ D.sequence = L.sequence
    BY <1>5, DropTidy
  <2>2. Owes(D, {n})
    BY <1>5, DropOwes DEF Tidy
  <2> HIDE DEF D
  <2>3. Owes(QueueLine(D, n), {})
    BY <2>1, <2>2, <1>3, QueueOwes
  <2> QED BY <2>3 DEF D
<1> HIDE DEF P, Queue
<1>6. CASE M = P(Line(n))
  BY <1>6, <1>2, <1>4
<1>7. ASSUME NEW m \in Faulty(L), M = Queue(L) PROVE Owes(M, {})
  BY <1>7, <1>5
<1>8. ASSUME NEW m \in Faulty(L), NEW l \in Lines, l.n = n, M = Queue(P(l))
      PROVE  Owes(M, {})
  <2>1. Tidy(P(l), n) /\ P(l).sequence = L.sequence /\ m \in Faulty(P(l)) /\ Owes(P(l), {n})
    BY <1>8, <1>4 DEF Faulty
  <2> QED BY <2>1, <1>8, <1>5
<1> QED BY <1>1, <1>2, <1>6, <1>7, <1>8

(* ------------------------- the calls of the log ----------------------- *)
LEMMA FormatOwes ==
  ASSUME NEW L, Tidy(L, L.sequence), Owes(L, {})
  PROVE  Owes(FormatLine(L), {FormatLine(L).sequence})
<1> DEFINE K == FormatLine(L)
<1>1. L \in Logs /\ L.sequence \in Nat /\ L.sequence + 1 \in Nat
  BY DEF Tidy, Logs
<1>2. /\ K \in Logs /\ K.sequence = L.sequence + 1 /\ K.ring = L.ring /\ K.file = L.file
      /\ K.dropped = L.dropped /\ K.notices = L.notices
  BY <1>1 DEF FormatLine, Logs
<1> HIDE DEF K
<1>3. Admits(K) = Admits(L) /\ Shown(K) = Shown(L)
  BY <1>2 DEF Admits, Shown
<1>4. Lost(K, {K.sequence}) \subseteq Lost(L, {})
  BY <1>1, <1>2, <1>3 DEF Lost
<1>5. Admits(L) <= Admits(K)
  BY <1>1, <1>3, LostFinite
<1>6. Owes(K, {K.sequence})
  BY <1>1, <1>2, <1>4, <1>5, OwesFrom
<1> QED BY <1>6 DEF K

LEMMA QueueLastOwes ==
  ASSUME NEW L, NEW n \in Nat, Tidy(L, n), Owes(L, {n})
  PROVE  Owes(QueueLine(L, n), {})
<1>1. n <= n /\ n <= L.sequence
  BY DEF Tidy
<1> QED BY <1>1, QueueOwes

LEMMA TraceOwes ==
  ASSUME NEW L, Tidy(L, L.sequence), Owes(L, {}), NEW M \in Trace(L)
  PROVE  Owes(M, {})
<1> DEFINE K == FormatLine(L)
           n == K.sequence
<1>1. Tidy(K, n) /\ n = L.sequence + 1 /\ n \in Nat
  BY FormatTidy
<1>2. Owes(K, {n})
  BY FormatOwes
<1>3. M = QueueLine(K, n)
  BY <1>1 DEF Trace
<1> HIDE DEF K, n
<1> QED BY <1>1, <1>2, <1>3, QueueLastOwes

LEMMA PrintfOwes ==
  ASSUME NEW L, Tidy(L, L.sequence), Owes(L, {}), NEW M \in Printf(L)
  PROVE  Owes(M, {})
<1> DEFINE K == FormatLine(L)
           n == K.sequence
           Direct(F) == IF F.io THEN WriteLine([F EXCEPT !.path = TRUE], n)
                        ELSE {QueueLine(F, n)}
           direct == UNION {Direct(F) : F \in FlushPending(K)}
<1>0. Printf(L) = IF K.io /\ K.pause = 0 THEN direct ELSE {QueueLine(K, n)}
  BY DEF Printf
<1>1. Tidy(K, n) /\ n \in Nat /\ K.pause = L.pause
  BY FormatTidy
<1>2. Owes(K, {n})
  BY FormatOwes
<1> HIDE DEF K, n
<1>3. CASE ~(K.io /\ K.pause = 0)
  <2>1. M = QueueLine(K, n)
    <3> HIDE DEF direct
    <3> QED BY <1>0, <1>3
  <2> QED BY <1>1, <1>2, <2>1, QueueLastOwes
<1>4. CASE K.io /\ K.pause = 0
  <2>1. M \in direct
    <3> HIDE DEF direct
    <3> QED BY <1>0, <1>4
  <2>2. PICK F \in FlushPending(K) : M \in Direct(F)
    <3> HIDE DEF Direct
    <3> QED BY <2>1
  <2>3. Tidy(F, n) /\ F.pause = K.pause /\ (F.io => F.ring = <<>>)
    BY <1>1, <1>4, FlushTidy
  <2>4. Owes(F, {n})
    BY <1>1, <1>2, FlushOwes
  <2>5. CASE ~F.io
    <3>1. M = QueueLine(F, n)
      BY <2>2, <2>5
    <3> QED BY <1>1, <2>3, <2>4, <3>1, QueueLastOwes
  <2>6. CASE F.io
    <3> DEFINE G == [F EXCEPT !.path = TRUE]
    <3>1. M \in WriteLine(G, n)
      BY <2>2, <2>6
    <3>2. F \in Logs /\ n <= F.sequence /\ n <= n
      BY <2>3 DEF Tidy
    <3>3. /\ G \in Logs /\ G.ring = F.ring /\ G.file = F.file /\ G.sequence = F.sequence
          /\ G.dropped = F.dropped /\ G.notices = F.notices
      BY <3>2 DEF Logs
    <3> HIDE DEF G
    <3>4. Tidy(G, n) /\ G.ring = <<>>
      BY <1>1, <2>3, <2>6, <3>2, <3>3, TidyFrom
    <3>5. Owes(G, {n})
      BY <2>4, <3>3, OwesSame
    <3> QED BY <1>1, <3>1, <3>4, <3>5, WriteOwes
  <2> QED BY <2>5, <2>6
<1> QED BY <1>3, <1>4

LEMMA PauseOwes ==
  ASSUME NEW L, Tidy(L, L.sequence), Owes(L, {}), NEW M \in Pause(L)
  PROVE  Owes(M, {})
<1> DEFINE K == [L EXCEPT !.pause = 1]
           n == L.pause + 1
           D == [L EXCEPT !.pause = n]
<1>1. L \in Logs /\ L.sequence \in Nat /\ L.sequence <= L.sequence
  BY DEF Tidy, Logs
<1>2. /\ K \in Logs /\ K.sequence = L.sequence /\ K.ring = L.ring /\ K.file = L.file
      /\ K.dropped = L.dropped /\ K.notices = L.notices
  BY <1>1 DEF Logs
<1>3. /\ D.sequence = L.sequence /\ D.ring = L.ring /\ D.file = L.file
      /\ D.dropped = L.dropped /\ D.notices = L.notices
  <2> HIDE DEF n
  <2> QED BY <1>1 DEF Logs
<1>4. CASE L.pause = 0
  <2>1. M \in Trace(K)
    BY <1>4 DEF Pause
  <2> HIDE DEF K
  <2>2. Tidy(K, L.sequence) /\ Owes(K, {})
    BY <1>1, <1>2, TidyFrom, OwesSame
  <2> QED BY <1>2, <2>1, <2>2, TraceOwes
<1>5. CASE L.pause # 0
  <2>1. M = D
    BY <1>5 DEF Pause
  <2> HIDE DEF D
  <2> QED BY <1>3, <2>1, OwesSame
<1> QED BY <1>4, <1>5

LEMMA ResumeOwes ==
  ASSUME NEW L, Tidy(L, L.sequence), Owes(L, {}), NEW M \in Resume(L)
  PROVE  Owes(M, {})
<1> DEFINE K == [L EXCEPT !.pause = 0]
           D == [L EXCEPT !.pause = @ - 1]
           flushed == UNION {FlushPending(F) : F \in Trace(K)}
<1>0. Resume(L) = IF L.pause = 0 THEN {L} ELSE IF L.pause > 1 THEN {D} ELSE flushed
  BY DEF Resume
<1>1. L \in Logs /\ L.sequence \in Nat /\ L.sequence <= L.sequence
  BY DEF Tidy, Logs
<1>2. /\ K \in Logs /\ K.sequence = L.sequence /\ K.ring = L.ring /\ K.file = L.file
      /\ K.dropped = L.dropped /\ K.notices = L.notices
  BY <1>1 DEF Logs
<1>3. /\ D.sequence = L.sequence /\ D.ring = L.ring /\ D.file = L.file
      /\ D.dropped = L.dropped /\ D.notices = L.notices
  BY <1>1 DEF Logs
<1> HIDE DEF D, K
<1>4. M = L \/ M = D \/ M \in flushed
  <2> HIDE DEF flushed
  <2> QED BY <1>0
<1>5. CASE M = D
  BY <1>3, <1>5, OwesSame
<1>6. CASE M \in flushed
  <2>1. PICK F \in Trace(K) : M \in FlushPending(F)
    BY <1>6
  <2>2. Tidy(K, L.sequence) /\ Owes(K, {})
    BY <1>1, <1>2, TidyFrom, OwesSame
  <2>3. Tidy(F, F.sequence) /\ Owes(F, {})
    BY <1>2, <2>1, <2>2, TraceTidy, TraceOwes
  <2> DEFINE b == F.sequence
  <2>4. Tidy(F, b)
    BY <2>3
  <2> HIDE DEF b
  <2> QED BY <2>1, <2>3, <2>4, FlushOwes
<1> QED BY <1>4, <1>5, <1>6

LEMMA DetachOwes ==
  ASSUME NEW L, Tidy(L, L.sequence), Owes(L, {}), NEW M \in Detach(L)
  PROVE  Owes(M, {})
<1> DEFINE K == Detached(L)
<1>1. L \in Logs /\ L.sequence \in Nat /\ L.sequence <= L.sequence
  BY DEF Tidy, Logs
<1>2. /\ K \in Logs /\ K.sequence = L.sequence /\ K.ring = L.ring /\ K.file = L.file
      /\ K.dropped = L.dropped /\ K.notices = L.notices
  BY <1>1 DEF Detached, Logs
<1>3. M \in Printf(K)
  BY DEF Detach
<1> HIDE DEF K
<1>4. Tidy(K, L.sequence) /\ Owes(K, {})
  BY <1>1, <1>2, TidyFrom, OwesSame
<1> QED BY <1>2, <1>3, <1>4, PrintfOwes

LEMMA AttachOwes ==
  ASSUME NEW L, Tidy(L, L.sequence), Owes(L, {}), NEW M \in Attach(L)
  PROVE  Owes(M, {})
<1> DEFINE K == [L EXCEPT !.io = TRUE, !.path = FALSE]
           Then1(F) == IF F.io THEN Printf(F) ELSE {F}
           Flush(p) == IF ~p.ok THEN {Detached(p.log)}
                       ELSE UNION {Then1(F) : F \in FlushPending(p.log)}
           found == UNION {Flush(p) : p \in EnsurePath(K)}
<1>0. Attach(L) = IF L.io /\ L.path THEN {L} ELSE IF L.pause # 0 THEN Trace(K) ELSE found
  BY DEF Attach
<1>1. L \in Logs /\ L.sequence \in Nat /\ L.sequence <= L.sequence
  BY DEF Tidy, Logs
<1>2. /\ K \in Logs /\ K.sequence = L.sequence /\ K.ring = L.ring /\ K.file = L.file
      /\ K.dropped = L.dropped /\ K.notices = L.notices
  BY <1>1 DEF Logs
<1> DEFINE b == L.sequence
<1> HIDE DEF K, found, b
<1>3. Tidy(K, b) /\ b = L.sequence /\ Owes(K, {})
  BY <1>1, <1>2, TidyFrom, OwesSame DEF b
<1>4. M = L \/ M \in Trace(K) \/ M \in found
  BY <1>0
<1>5. CASE M \in Trace(K)
  BY <1>2, <1>3, <1>5, TraceOwes
<1>6. CASE M \in found
  <2>1. PICK p \in EnsurePath(K) : M \in Flush(p)
    <3> HIDE DEF Flush
    <3> QED BY <1>6 DEF found
  <2> DEFINE P == p.log
             flush == UNION {Then1(F) : F \in FlushPending(p.log)}
  <2>2. Tidy(P, b) /\ Owes(P, {})
    BY <1>2, <1>3, FoundTidy, FoundOwes
  <2>3. M = Detached(P) \/ M \in flush
    <3>1. M \in IF ~p.ok THEN {Detached(P)} ELSE flush
      BY <2>1
    <3> HIDE DEF flush, P
    <3> QED BY <3>1
  <2>4. CASE M = Detached(P)
    <3>1. P \in Logs
      BY <2>2 DEF Tidy
    <3> HIDE DEF P
    <3>2. /\ M.ring = P.ring /\ M.file = P.file /\ M.sequence = P.sequence
          /\ M.dropped = P.dropped /\ M.notices = P.notices
      BY <2>4, <3>1 DEF Detached, Logs
    <3> QED BY <2>2, <3>2, OwesSame
  <2>5. CASE M \in flush
    <3>1. PICK F \in FlushPending(P) : M \in Then1(F)
      <4> HIDE DEF Then1
      <4> QED BY <2>5
    <3> HIDE DEF P
    <3>2. Tidy(F, b) /\ Owes(F, {})
      BY <2>2, <3>1, FlushTidy, FlushOwes
    <3>3. F \in Logs /\ F.sequence \in Nat /\ b <= F.sequence /\ F.sequence <= F.sequence
      BY <3>2 DEF Tidy, Logs
    <3>4. Tidy(F, F.sequence)
      BY <3>2, <3>3, TidyFrom
    <3> QED BY <3>1, <3>2, <3>4, PrintfOwes
  <2> QED BY <2>3, <2>4, <2>5
<1> QED BY <1>4, <1>5, <1>6

LEMMA StepMoves == ASSUME Step PROVE Moved(log, log')
<1>1. CASE LogLine \/ LogPause \/ LogResume \/ LogDetach \/ LogAttach
  BY <1>1 DEF LogLine, LogPause, LogResume, LogDetach, LogAttach, LogCall, Moved
<1>2. CASE MassInit
  BY <1>2 DEF MassInit, Moved
<1>3. CASE ReadScopeOff \/ WriteScopeOff
  <2>1. log' \in Trace(log) \/ log' = log
    BY <1>3 DEF ReadScopeOff, WriteScopeOff, Leave
  <2> QED BY <2>1 DEF Moved
<1>4. CASE \/ ReadScopeOn \/ WriteScopeOn \/ Create \/ ExportRecord \/ Finish \/ OpenImage
           \/ OpenLocate \/ Close \/ Verify \/ Program \/ Locate \/ Sidecar
  <2>1. log' = log
    BY <1>4 DEF ReadScopeOn, WriteScopeOn, Scope, Create, ExportRecord, Finish, OpenImage,
       OpenLocate, Reopen, Close, Verify, Program, Locate, Sidecar, Stream
  <2> QED BY <2>1 DEF Moved
<1>5. CASE Reboot \/ StartRaw \/ SkipStep \/ McFormat
  <2>1. log' = log
    BY <1>5 DEF Reboot, StartRaw, SkipStep, Skip, McFormat
  <2> QED BY <2>1 DEF Moved
<1> QED BY <1>1, <1>2, <1>3, <1>4, <1>5 DEF Step

LEMMA LogMoves == ASSUME [Next]_vars PROVE Moved(log, log')
<1>1. CASE UNCHANGED vars
  BY <1>1 DEF vars, Moved
<1>2. CASE \E kind \in Kinds, bad \in 0..(ImageUnits \div RecordUnits) : Begin(kind, bad)
  BY <1>2 DEF Begin, Moved
<1>3. CASE LogInside
  BY <1>3 DEF LogInside, Moved
<1>4. CASE IopServe
  BY <1>4 DEF IopServe, Moved
<1> QED BY <1>1, <1>2, <1>3, <1>4, StepMoves DEF Next

LEMMA MovedOwes ==
  ASSUME NEW L, Tidy(L, L.sequence), Owes(L, {}), NEW M, Moved(L, M)
  PROVE  Owes(M, {})
<1>1. CASE \/ M \in Printf(L) \/ M \in Trace(L) \/ M \in Pause(L) \/ M \in Resume(L)
           \/ M \in Detach(L) \/ M \in Attach(L)
  BY <1>1, PrintfOwes, TraceOwes, PauseOwes, ResumeOwes, DetachOwes, AttachOwes
<1>2. CASE M \in UNION {Printf(K) : K \in Attach(L)}
  <2>1. PICK K \in Attach(L) : M \in Printf(K)
    BY <1>2
  <2>2. Tidy(K, K.sequence) /\ Owes(K, {})
    BY AttachTidy, AttachOwes
  <2> QED BY <2>1, <2>2, PrintfOwes
<1> QED BY <1>1, <1>2 DEF Moved

(* A new start has lost nothing.                                           *)
LEMMA InitOwes ==
  ASSUME NEW m \in 0..LogFaults
  PROVE  Owes(LogInit(m), {})
<1> DEFINE L == LogInit(m)
           lost == Lost(L, {})
           claims == Claims(L.file)
<1>1. L.sequence = 1 /\ L.ring = <<1>> /\ L.file = <<>> /\ L.dropped = 0
  BY DEF LogInit
<1> HIDE DEF L
<1>2. lost = {}
  <2>1. 1 \in ToSet(L.ring)
    <3>1. 1 \in DOMAIN L.ring /\ L.ring[1] = 1
      BY <1>1
    <3> QED BY <3>1 DEF ToSet
  <2>2. 1..L.sequence = {1}
    BY <1>1
  <2> QED BY <2>1, <2>2 DEF Lost, Shown
<1>3. Cardinality(lost) = 0
  BY <1>2, FS_EmptySet
<1>4. Cardinality(claims) \in Nat
  <2>1. L.file \in Seq(Lines)
    BY <1>1
  <2> QED BY <2>1, ClaimsFinite
<1> HIDE DEF lost, claims
<1>5. Cardinality(lost) <= L.dropped + Cardinality(claims)
  BY <1>1, <1>3, <1>4
<1> QED BY <1>5 DEF Owes, Admits, lost, claims, L

LEMMA AccountHolds == Spec => []Owes(log, {})
<1>1. Init => Owes(log, {})
  BY InitOwes DEF Init
<1>2. StreamInv /\ Owes(log, {}) /\ [Next]_vars => Owes(log, {})'
  <2> SUFFICES ASSUME StreamInv, Owes(log, {}), [Next]_vars PROVE Owes(log', {})
    BY DEF Owes, Lost, Shown, Admits, Claims, WholeIn
  <2>1. Tidy(log, log.sequence)
    BY DEF StreamInv
  <2>2. Moved(log, log')
    BY LogMoves
  <2>3. PICK L, M : L = log /\ M = log'
    OBVIOUS
  <2>4. Tidy(L, L.sequence) /\ Owes(L, {}) /\ Moved(L, M)
    BY <2>1, <2>2, <2>3
  <2>5. Owes(M, {})
    BY <2>4, MovedOwes
  <2> QED BY <2>3, <2>5
<1> QED BY <1>1, <1>2, InvariantHolds, PTL DEF Spec

(* Every line that was formatted is in the file, in the ring, or one of    *)
(* the lines the log has said, or has yet to say, that it dropped, however *)
(* long it runs and whatever fails on the way (diag_log.c, the ring and    *)
(* the notice in front of a batch).                                        *)
THEOREM LossIsAdmitted == Spec => []NoSilentLoss
<1>1. Owes(log, {}) => NoSilentLoss
  BY DEF Owes, Lost, Shown, Admits, NoSilentLoss, Admitted
<1> QED BY <1>1, AccountHolds, PTL
=============================================================================
