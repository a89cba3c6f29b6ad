------------------------- MODULE StreamPhaseProofs --------------------------
(***************************************************************************)
(* What a call of an operation does to the streams, for every image size   *)
(* and number of faults.  The calls that are left to make lead from the    *)
(* phase the operation is in to one where every scope is closed again      *)
(* (Leads), which fixes at each call how deep the scopes are and whether   *)
(* an image is being made or read.  In each phase the streams are as the   *)
(* operation claims (Good), and each call leads to the next phase; so does *)
(* an answer of the IOP between two calls.                                 *)
(***************************************************************************)
EXTENDS StreamReadProofs

(* ------------------------------ phases -------------------------------- *)
(* How deep the scopes are, what is being done to the image file, and      *)
(* whether there is an image: none yet, the one this operation made or the *)
(* one it was given, to be restored or only scanned, and whether a pass    *)
(* over a given one is behind.                                             *)
Images == {"no", "made", "given", "checked", "scanned", "searched"}
Seen(image) == IF image = "given" THEN "checked"
               ELSE IF image = "scanned" THEN "searched" ELSE image
Places == {"none", "making", "filled", "reading", "read", "locating"}
Phases == [pause : 0..2, ra : 0..2, wb : 0..1, at : Places, image : Images]
Phase(pause, n, m, at, image) ==
    [pause |-> pause, ra |-> n, wb |-> m, at |-> at, image |-> image]
Steps == {"printf", "detach", "attach", "reboot", "startRaw", "massInit", "pause", "resume",
          "raOn", "raOff", "wbOn", "wbOff", "create", "record", "finish", "open",
          "openLocate", "verify", "program", "locate", "close", "sidecar", "mcFormat"}
Balanced(p) == p.at = "none" /\ p.pause = 0 /\ p.ra = 0 /\ p.wb = 0
InScope(p) == p.pause > 0 /\ p.ra > 0
(* Call s leads from phase p to phase q.                                   *)
StepOf(s, p, q) ==
    \/ s \in {"printf", "detach", "attach"} /\ p.at = "none" /\ q = p
    \/ s \in {"reboot", "massInit"} /\ Balanced(p) /\ q = p
    \/ s = "startRaw" /\ Balanced(p) /\ p.image \notin {"scanned", "searched"} /\ q = p
    \/ s = "pause" /\ p.at = "none" /\ q = Phase(p.pause + 1, p.ra, p.wb, "none", p.image)
    \/ /\ s = "resume" /\ p.at = "none" /\ p.pause > 0
       /\ q = Phase(p.pause - 1, p.ra, p.wb, "none", p.image)
    \/ s = "raOn" /\ p.at = "none" /\ q = Phase(p.pause, p.ra + 1, p.wb, "none", p.image)
    \/ /\ s = "raOff" /\ p.at = "none" /\ p.ra > 0
       /\ q = Phase(p.pause, p.ra - 1, p.wb, "none", p.image)
    \/ s = "wbOn" /\ p.at = "none" /\ p.wb = 0 /\ q = Phase(p.pause, p.ra, 1, "none", p.image)
    \/ s = "wbOff" /\ p.at = "none" /\ p.wb = 1 /\ q = Phase(p.pause, p.ra, 0, "none", p.image)
    \/ /\ s = "create" /\ p.at = "none" /\ InScope(p) /\ p.wb = 1 /\ p.image = "no"
       /\ q = Phase(p.pause, p.ra, p.wb, "making", p.image)
    \/ s = "record" /\ p.at = "making" /\ q = Phase(p.pause, p.ra, p.wb, "filled", p.image)
    \/ s = "finish" /\ p.at = "filled" /\ q = Phase(p.pause, p.ra, p.wb, "none", "made")
    \/ /\ s = "open" /\ p.at = "none" /\ InScope(p) /\ p.image # "no"
       /\ q = Phase(p.pause, p.ra, p.wb, "reading", p.image)
    \/ /\ s \in {"verify", "program"} /\ p.at = "reading"
       /\ IF s = "program" THEN p.image = "checked" ELSE p.image \notin {"checked", "searched"}
       /\ q = Phase(p.pause, p.ra, p.wb, "read", Seen(p.image))
    \/ /\ s = "openLocate" /\ p.at = "none" /\ InScope(p) /\ p.image = "searched"
       /\ q = Phase(p.pause, p.ra, p.wb, "locating", p.image)
    \/ s = "locate" /\ p.at = "locating" /\ q = p
    \/ /\ s = "close" /\ p.at \in {"read", "locating"}
       /\ q = Phase(p.pause, p.ra, p.wb, "none", p.image)
    \/ s \in {"sidecar", "mcFormat"} /\ p.at = "none" /\ InScope(p) /\ p.image = "made" /\ q = p

(* The calls of todo, from phase p on, lead to phase q.                    *)
Leads(todo, p, q) ==
    /\ todo \in Seq(Steps)
    /\ \E path \in [1..(Len(todo) + 1) -> Phases] :
          /\ path[1] = p /\ path[Len(todo) + 1] = q
          /\ \A i \in 1..Len(todo) : StepOf(todo[i], path[i], path[i + 1])

(* ----------------------------- the state ------------------------------ *)
Operations ==
    [kind : Kinds \cup {"none"}, todo : Seq(Steps), rc : {0, Failed, BadEcc}, bad : Nat,
     pages : Nat, asides : Nat, got : Seq(Int), found : Nat, sealed : BOOLEAN,
     checked : BOOLEAN, formatted : BOOLEAN]
Taken(o) == o.pages * RecordUnits
(* The streams between two calls.                                          *)
Calm(w) ==
    /\ Sound(w) /\ Pending(w) /\ Fetch(w)
    /\ w.fx.open = 0 => w.fx.mode = "WAIT" /\ w.fx.rpc = NoRequest
    /\ w.fx.pos <= ImageUnits

(* By how many stale units what operation o reads may be late: none, but   *)
(* in a second pass over an image in the build that prefetches reads.      *)
Shifts(o) == IF o.checked /\ build = "asyncread" THEN Fds \cup {0} ELSE {0}
(* What was read so far, and what is read next.                            *)
Tracks(o, w) == \E b \in Shifts(o) : Run(o.got, 0 - b) /\ Positioned(w, Taken(o) - b)
(* Nothing of an earlier pass is left to be served, but for a prefetch at  *)
(* the end of the file.                                                    *)
Spent(o, w) == Emptied(w) /\ (w.ra.async # NoSlot => o.checked)

(* What operation o claims of the image.                                   *)
Told(o, w) ==
    /\ o.sealed => w.fx.file = Units(ImageUnits)
    /\ o.formatted => o.sealed
    /\ o.rc # BadEcc => /\ \E b \in Shifts(o) : Run(o.got, 0 - b)
                        /\ Len(o.got) <= Len(w.fx.file)

(* Where the descriptor and the batch are in phase p.                      *)
Place(o, w, p) ==
    /\ p.at # "none" => InScope(p)
    /\ p.at = "none" => w.fx.open = 0
    /\ p.at \in {"making", "filled", "reading", "read"} /\ o.rc = 0 => w.fx.open # 0
    /\ p.at \notin {"making", "filled"} => w.wb.async = NoSlot /\ ~Queued(w, "write")
    /\ p.at \in {"reading", "read", "locating"} => p.image # "no"
    /\ p.at = "locating" /\ w.fx.open # 0 => o.rc = BadEcc
Making(o, w, p) ==
    /\ p.at \in {"making", "filled"} =>
          /\ p.wb = 1 /\ p.image = "no" /\ w.wb.fd \in {0, w.fx.open} /\ ~Queued(w, "read")
    /\ p.at \in {"making", "filled"} /\ o.rc = 0 => Fed(w, Taken(o))
    /\ p.at = "making" /\ o.rc = 0 => Taken(o) < ImageUnits
    /\ p.at = "filled" /\ o.rc = 0 => Taken(o) = ImageUnits
Image(o, w, p) ==
    /\ p.image = "no" => o.kind \in Exports /\ ~o.sealed /\ ~o.formatted
    /\ p.image = "no" /\ p.at = "none" =>
          /\ w.fx.file = <<>> /\ o.pages = 0
          /\ p.wb = 1 => w.wb.fd = 0 /\ w.wb.len[w.wb.fill] = 0
    /\ p.image = "made" => o.kind \in Exports /\ (o.rc = 0 => o.sealed)
    /\ p.image \in {"given", "checked", "scanned", "searched"} =>
          o.kind \notin Exports /\ ~o.sealed /\ ~o.formatted
    /\ p.image \in {"given", "scanned"} => ~o.checked
    /\ p.image = "checked" /\ o.rc = 0 => o.checked
    /\ o.bad # 0 => p.image \in {"scanned", "searched"}
    /\ o.rc = BadEcc => o.bad # 0
Reading(o, w, p) ==
    /\ p.image = "no" => o.got = <<>>
    /\ p.image # "no" /\ o.rc = 0 => w.fx.file = Units(ImageUnits)
    /\ p.at \in {"reading", "read"} /\ o.rc = 0 =>
          /\ Len(o.got) = Taken(o)
          /\ o.pages > 0 => w.ra.fd = w.fx.open
    /\ p.at = "reading" /\ o.rc = 0 => Taken(o) < ImageUnits /\ Tracks(o, w)
    /\ p.at = "read" /\ o.rc = 0 =>
          Taken(o) = ImageUnits /\ Positioned(w, ImageUnits) /\ o.checked
    /\ p.at \notin {"reading", "read"} /\ o.rc = 0 /\ p.ra > 0 => Spent(o, w)
Good(o, w, p) ==
    /\ Calm(w) /\ Told(o, w) /\ w.ra.depth = p.ra /\ w.wb.depth = p.wb
    /\ Place(o, w, p) /\ Making(o, w, p) /\ Image(o, w, p) /\ Reading(o, w, p)

(* Between two operations, and in the middle of one.                       *)
Quiet ==
    /\ Calm(World) /\ Told(op, World)
    /\ log.pause = 0 /\ ra.depth = 0 /\ wb.depth = 0 /\ fx.open = 0 /\ wb.async = NoSlot
Running ==
    \E p, q \in Phases : /\ log.pause = p.pause /\ Good(op, World, p)
                         /\ Balanced(q) /\ Leads(op.todo, p, q)
StreamInv ==
    /\ build \in Builds /\ done \in 0..MaxOps /\ op \in Operations
    /\ Tidy(log, log.sequence)
    /\ IF op.todo = <<>> THEN Quiet ELSE Running

(* A step leaves alone the buffer that is with the IOP, and the file.      *)
Leaves(w, x) ==
    Queued(w, "write") /\ x.fx.rpc = w.fx.rpc
        => x.wb.buf[w.fx.rpc.slot] = w.wb.buf[w.fx.rpc.slot]
Keeps(w, x) == Leaves(w, x) /\ x.fx.file = w.fx.file

-----------------------------------------------------------------------------
(* Scripts.                                                                *)

LEMMA LeadsNext ==
  ASSUME NEW todo, NEW p, NEW q, Leads(todo, p, q), todo # <<>>
  PROVE  /\ p \in Phases /\ q \in Phases /\ Tail(todo) \in Seq(Steps)
         /\ \E r \in Phases : StepOf(Head(todo), p, r) /\ Leads(Tail(todo), r, q)
<1>1. PICK path \in [1..(Len(todo) + 1) -> Phases] :
        /\ path[1] = p /\ path[Len(todo) + 1] = q
        /\ \A i \in 1..Len(todo) : StepOf(todo[i], path[i], path[i + 1])
  BY DEF Leads
<1>2. todo \in Seq(Steps) /\ Len(todo) \in Nat /\ Len(todo) > 0
  BY DEF Leads
<1> DEFINE rest == [i \in 1..Len(todo) |-> path[i + 1]]
<1>3. Tail(todo) \in Seq(Steps) /\ Len(Tail(todo)) = Len(todo) - 1
  BY <1>2
<1>4. rest \in [1..(Len(Tail(todo)) + 1) -> Phases]
  BY <1>1, <1>2, <1>3
<1>5. rest[1] = path[2] /\ rest[Len(Tail(todo)) + 1] = q /\ path[2] \in Phases
  BY <1>1, <1>2, <1>3
<1>6. ASSUME NEW i \in 1..Len(Tail(todo))
      PROVE  StepOf(Tail(todo)[i], rest[i], rest[i + 1])
  <2>1. Tail(todo)[i] = todo[i + 1] /\ i + 1 \in 1..Len(todo) /\ i \in 1..Len(todo)
    BY <1>2, <1>3
  <2> QED BY <2>1, <1>1
<1>7. StepOf(Head(todo), p, path[2])
  BY <1>1, <1>2
<1>8. Leads(Tail(todo), path[2], q)
  <2> HIDE DEF rest
  <2> QED BY <1>3, <1>4, <1>5, <1>6 DEF Leads
<1>9. p \in Phases /\ q \in Phases
  BY <1>1, <1>2
<1> QED BY <1>3, <1>5, <1>7, <1>8, <1>9

LEMMA LeadsJoin ==
  ASSUME NEW s, NEW t, NEW p, NEW q, NEW r, Leads(s, p, q), Leads(t, q, r)
  PROVE  Leads(s \o t, p, r)
<1>1. PICK one \in [1..(Len(s) + 1) -> Phases] :
        /\ one[1] = p /\ one[Len(s) + 1] = q
        /\ \A i \in 1..Len(s) : StepOf(s[i], one[i], one[i + 1])
  BY DEF Leads
<1>2. PICK two \in [1..(Len(t) + 1) -> Phases] :
        /\ two[1] = q /\ two[Len(t) + 1] = r
        /\ \A i \in 1..Len(t) : StepOf(t[i], two[i], two[i + 1])
  BY DEF Leads
<1> DEFINE m == Len(s)
           n == Len(t)
           path == [i \in 1..(m + n + 1) |-> IF i <= m THEN one[i] ELSE two[i - m]]
<1>3. s \in Seq(Steps) /\ t \in Seq(Steps) /\ m \in Nat /\ n \in Nat
  BY DEF Leads
<1>4. s \o t \in Seq(Steps) /\ Len(s \o t) = m + n
  BY <1>3
<1>5. path \in [1..(m + n + 1) -> Phases]
  BY <1>1, <1>2, <1>3
<1>6. path[1] = p /\ path[m + n + 1] = r
  BY <1>1, <1>2, <1>3
<1>7. ASSUME NEW i \in 1..(m + n)
      PROVE  StepOf((s \o t)[i], path[i], path[i + 1])
  <2>1. CASE i <= m
    <3>1. (s \o t)[i] = s[i] /\ path[i] = one[i] /\ i \in 1..m
      BY <2>1, <1>3
    <3>2. path[i + 1] = one[i + 1]
      BY <2>1, <1>1, <1>2, <1>3
    <3> HIDE DEF path
    <3> QED BY <3>1, <3>2, <1>1
  <2>2. CASE i > m
    <3>1. (s \o t)[i] = t[i - m] /\ i - m \in 1..n
      BY <2>2, <1>3
    <3>2. path[i] = two[i - m] /\ path[i + 1] = two[i - m + 1]
      BY <2>2, <1>3
    <3> HIDE DEF path
    <3> QED BY <3>1, <3>2, <1>2
  <2> QED BY <2>1, <2>2, <1>3
<1> HIDE DEF path, m, n
<1> QED BY <1>4, <1>5, <1>6, <1>7 DEF Leads

(* A script whose calls all stay in a phase.                               *)
LEMMA LeadsStay ==
  ASSUME NEW s \in Seq(Steps), NEW p \in Phases,
         \A i \in 1..Len(s) : StepOf(s[i], p, p)
  PROVE  Leads(s, p, p)
<1> DEFINE path == [i \in 1..(Len(s) + 1) |-> p]
<1>1. Len(s) \in Nat
  OBVIOUS
<1>2. path \in [1..(Len(s) + 1) -> Phases] /\ path[1] = p /\ path[Len(s) + 1] = p
  BY <1>1
<1>3. \A i \in 1..Len(s) : path[i] = p /\ path[i + 1] = p
  BY <1>1
<1> HIDE DEF path
<1> QED BY <1>2, <1>3 DEF Leads

LEMMA Pair ==
  ASSUME NEW S, NEW s \in S, NEW t \in S
  PROVE  <<s, t>> = <<s>> \o <<t>> /\ <<s, t>> \in Seq(S)
<1> DEFINE a == <<s>>
           b == <<s, t>>
<1>1. b = Append(a, t)
  OBVIOUS
<1>2. a \in Seq(S)
  BY Singleton, Zenon
<1> HIDE DEF a, b
<1>3. b = a \o <<t>> /\ b \in Seq(S)
  BY <1>1, <1>2, AppendProperties, AppendIsConcat
<1> QED BY <1>3 DEF a, b

LEMMA Triple ==
  ASSUME NEW S, NEW s \in S, NEW t \in S, NEW u \in S
  PROVE  <<s, t, u>> = <<s, t>> \o <<u>>
<1> DEFINE a == <<s, t>>
           b == <<s, t, u>>
<1>1. b = Append(a, u)
  OBVIOUS
<1>2. a \in Seq(S)
  BY Pair, Zenon
<1> HIDE DEF a, b
<1>3. b = a \o <<u>>
  BY <1>1, <1>2, AppendIsConcat
<1> QED BY <1>3 DEF a, b

LEMMA LeadsOne ==
  ASSUME NEW s \in Steps, NEW p \in Phases, NEW q \in Phases, StepOf(s, p, q)
  PROVE  Leads(<<s>>, p, q)
<1> DEFINE path == [i \in 1..2 |-> IF i = 1 THEN p ELSE q]
           t == <<s>>
<1>1. t \in Seq(Steps) /\ Len(t) = 1 /\ t[1] = s
  BY Singleton, Zenon
<1>2. path \in [1..2 -> Phases] /\ path[1] = p /\ path[2] = q
  OBVIOUS
<1> HIDE DEF path, t
<1>3. \A i \in 1..Len(t) : StepOf(t[i], path[i], path[i + 1])
  <2> SUFFICES ASSUME NEW i \in 1..Len(t) PROVE StepOf(t[i], path[i], path[i + 1])
    OBVIOUS
  <2>1. i = 1 /\ i + 1 = 2
    BY <1>1
  <2> QED BY <2>1, <1>1, <1>2
<1>4. 1..(Len(t) + 1) = 1..2 /\ Len(t) + 1 = 2
  BY <1>1
<1>5. Leads(t, p, q)
  BY <1>1, <1>2, <1>3, <1>4, Zenon DEF Leads
<1> QED BY <1>5 DEF t

(* Two calls, three calls.                                                 *)
LEMMA LeadsTwo ==
  ASSUME NEW s \in Steps, NEW t \in Steps,
         NEW p \in Phases, NEW q \in Phases, NEW r \in Phases,
         StepOf(s, p, q), StepOf(t, q, r)
  PROVE  Leads(<<s, t>>, p, r)
<1>1. Leads(<<s>>, p, q) /\ Leads(<<t>>, q, r)
  BY LeadsOne
<1>2. <<s, t>> = <<s>> \o <<t>>
  BY Pair, Zenon
<1>3. Leads(<<s>> \o <<t>>, p, r)
  BY <1>1, LeadsJoin, Zenon
<1> QED BY <1>2, <1>3, Zenon

LEMMA LeadsThree ==
  ASSUME NEW s \in Steps, NEW t \in Steps, NEW u \in Steps,
         NEW p \in Phases, NEW q \in Phases, NEW r \in Phases, NEW o \in Phases,
         StepOf(s, p, q), StepOf(t, q, r), StepOf(u, r, o)
  PROVE  Leads(<<s, t, u>>, p, o)
<1>1. Leads(<<s, t>>, p, r) /\ Leads(<<u>>, r, o)
  BY LeadsOne, LeadsTwo
<1>2. <<s, t, u>> = <<s, t>> \o <<u>>
  BY Triple, Zenon
<1>3. Leads(<<s, t>> \o <<u>>, p, o)
  BY <1>1, LeadsJoin, Zenon
<1> QED BY <1>2, <1>3, Zenon

LEMMA LeadsAppend ==
  ASSUME NEW s, NEW t \in Steps, NEW p, NEW q \in Phases, NEW r \in Phases,
         Leads(s, p, q), StepOf(t, q, r)
  PROVE  Leads(Append(s, t), p, r)
<1>1. s \in Seq(Steps)
  BY DEF Leads
<1>2. Append(s, t) = s \o <<t>>
  BY <1>1, AppendIsConcat
<1>3. Leads(<<t>>, q, r)
  BY LeadsOne
<1>4. Leads(s \o <<t>>, p, r)
  BY <1>3, LeadsJoin
<1> QED BY <1>2, <1>4

LEMMA Fourth == ASSUME NEW a, NEW b, NEW c, NEW d PROVE <<a, b, c, d>> = Append(<<a, b, c>>, d)
OBVIOUS

LEMMA Fifth ==
  ASSUME NEW a, NEW b, NEW c, NEW d, NEW e
  PROVE  <<a, b, c, d, e>> = Append(<<a, b, c, d>>, e)
OBVIOUS

LEMMA LeadsFour ==
  ASSUME NEW a \in Steps, NEW b \in Steps, NEW c \in Steps, NEW d \in Steps,
         NEW p \in Phases, NEW q \in Phases, NEW r \in Phases,
         NEW s \in Phases, NEW t \in Phases,
         StepOf(a, p, q), StepOf(b, q, r), StepOf(c, r, s), StepOf(d, s, t)
  PROVE  Leads(<<a, b, c, d>>, p, t)
<1> DEFINE three == <<a, b, c>>
           four == <<a, b, c, d>>
<1>1. four = Append(three, d)
  BY Fourth, Zenon
<1>2. Leads(three, p, s)
  BY LeadsThree, Zenon
<1> HIDE DEF three, four
<1>3. Leads(four, p, t)
  BY <1>1, <1>2, LeadsAppend
<1> QED BY <1>3 DEF four

LEMMA LeadsFive ==
  ASSUME NEW a \in Steps, NEW b \in Steps, NEW c \in Steps, NEW d \in Steps,
         NEW e \in Steps, NEW p \in Phases, NEW q \in Phases, NEW r \in Phases,
         NEW s \in Phases, NEW t \in Phases, NEW u \in Phases,
         StepOf(a, p, q), StepOf(b, q, r), StepOf(c, r, s), StepOf(d, s, t), StepOf(e, t, u)
  PROVE  Leads(<<a, b, c, d, e>>, p, u)
<1> DEFINE three == <<a, b, c>>
           four == <<a, b, c, d>>
           five == <<a, b, c, d, e>>
<1>0. four = Append(three, d)
  BY Fourth, Zenon
<1>1. five = Append(four, e)
  BY Fifth, ZenonT(30)
<1>2. Leads(three, p, s)
  BY LeadsThree, Zenon
<1> HIDE DEF three, four, five
<1>3. Leads(four, p, t)
  BY <1>0, <1>2, LeadsAppend
<1>4. Leads(five, p, u)
  BY <1>1, <1>3, LeadsAppend
<1> QED BY <1>4 DEF five

LEMMA RunCallLeads ==
  ASSUME NEW body, NEW k \in 0..1, NEW n \in 0..2, NEW m \in 0..1,
         NEW c \in Images, NEW d \in Images,
         Leads(body, Phase(k + 1, n, m, "none", c), Phase(k + 1, n, m, "none", d))
  PROVE  Leads(RunCall(body), Phase(k, n, m, "none", c), Phase(k, n, m, "none", d))
<1> DEFINE p == Phase(k, n, m, "none", c)
           r == Phase(k + 1, n, m, "none", c)
           s == Phase(k + 1, n, m, "none", d)
           q == Phase(k, n, m, "none", d)
           before == <<"printf", "pause">>
           after == <<"resume", "printf">>
<1>1. p \in Phases /\ q \in Phases /\ r \in Phases /\ s \in Phases
  BY DEF Phases, Phase, Images, Places
<1>2. StepOf("printf", p, p) /\ StepOf("pause", p, r)
  BY DEF StepOf, Phase
<1>3. StepOf("resume", s, q) /\ StepOf("printf", q, q)
  BY DEF StepOf, Phase
<1> HIDE DEF p, q, r, s
<1>4. Leads(before, p, r) /\ Leads(after, s, q)
  BY <1>1, <1>2, <1>3, LeadsTwo, Zenon DEF Steps
<1>5. Leads(body, r, s)
  BY DEF r, s
<1> HIDE DEF before, after
<1>6. Leads((before \o body) \o after, p, q)
  BY <1>4, <1>5, LeadsJoin
<1> QED BY <1>6 DEF RunCall, before, after, p, q

LEMMA VerifyLeads ==
  ASSUME NEW k \in 1..2, NEW n \in 1..2, NEW m \in 0..1, NEW c \in {"made", "given", "scanned"}
  PROVE  Leads(VerifyBody, Phase(k, n, m, "none", c), Phase(k, n, m, "none", Seen(c)))
<1> DEFINE p == Phase(k, n, m, "none", c)
           r == Phase(k, n, m, "reading", c)
           s == Phase(k, n, m, "read", Seen(c))
           q == Phase(k, n, m, "none", Seen(c))
<1>0. Seen(c) \in Images /\ c \in Images /\ c \notin {"no", "checked", "searched"}
  BY DEF Images, Seen
<1>1. p \in Phases /\ q \in Phases /\ r \in Phases /\ s \in Phases
  BY <1>0 DEF Phases, Phase, Places
<1>2. StepOf("open", p, r) /\ StepOf("verify", r, s) /\ StepOf("close", s, q)
  <2>1. StepOf("open", p, r) /\ StepOf("close", s, q)
    BY <1>0 DEF StepOf, Phase, InScope
  <2>2. StepOf("verify", r, s)
    BY <1>0 DEF StepOf, Phase
  <2> QED BY <2>1, <2>2
<1> HIDE DEF p, q, r, s
<1>3. "open" \in Steps /\ "verify" \in Steps /\ "close" \in Steps
  BY DEF Steps
<1>4. Leads(<<"open", "verify", "close">>, p, q)
  BY <1>1, <1>2, <1>3, LeadsThree
<1> QED BY <1>4 DEF VerifyBody, p, q

(* The second half of a restore and of a scan.                             *)
LEMMA AgainLeads ==
  ASSUME NEW k \in 1..2, NEW m \in 0..1,
         NEW s \in Steps, NEW t \in Steps, NEW c,
         \/ s = "open" /\ t = "program" /\ c = "checked"
         \/ s = "openLocate" /\ t = "locate" /\ c = "searched"
  PROVE  Leads(<<s, t, "close", "raOff">>,
               Phase(k, 1, m, "none", c), Phase(k, 0, m, "none", c))
<1> DEFINE p == Phase(k, 1, m, "none", c)
           r == Phase(k, 1, m, IF s = "open" THEN "reading" ELSE "locating", c)
           u == Phase(k, 1, m, IF s = "open" THEN "read" ELSE "locating", c)
           q == Phase(k, 0, m, "none", c)
<1>1. p \in Phases /\ q \in Phases /\ r \in Phases /\ u \in Phases
  BY DEF Phases, Phase, Images, Places
<1>2. StepOf(s, p, r)
  <2>1. CASE s = "open"
    BY <2>1 DEF StepOf, Phase, InScope
  <2>2. CASE s = "openLocate"
    BY <2>2 DEF StepOf, Phase, InScope
  <2> QED BY <2>1, <2>2
<1>3. StepOf(t, r, u)
  BY DEF StepOf, Phase, Seen
<1>4. StepOf("close", u, p) /\ StepOf("raOff", p, q)
  BY DEF StepOf, Phase
<1>5. "close" \in Steps /\ "raOff" \in Steps
  BY DEF Steps
<1> HIDE DEF p, r, u, q
<1>6. Leads(<<s, t, "close", "raOff">>, p, q)
  BY <1>1, <1>2, <1>3, <1>4, <1>5, LeadsFour
<1> QED BY <1>6 DEF p, q

LEMMA ExportLeads ==
  ASSUME NEW k \in 0..1, NEW n \in 0..1
  PROVE  Leads(ExportCall, Phase(k, n, 0, "none", "no"), Phase(k, n, 0, "none", "made"))
<1> DEFINE p1 == Phase(k + 1, n, 0, "none", "no")
           p2 == Phase(k + 1, n + 1, 0, "none", "no")
           p3 == Phase(k + 1, n + 1, 1, "none", "no")
           p4 == Phase(k + 1, n + 1, 1, "making", "no")
           p5 == Phase(k + 1, n + 1, 1, "filled", "no")
           q1 == Phase(k + 1, n, 0, "none", "made")
           q2 == Phase(k + 1, n + 1, 0, "none", "made")
           q3 == Phase(k + 1, n + 1, 1, "none", "made")
           make == <<"raOn", "wbOn", "create", "record", "finish">>
           off == <<"sidecar", "wbOff", "raOff">>
<1>1. /\ p1 \in Phases /\ p2 \in Phases /\ p3 \in Phases /\ p4 \in Phases
      /\ p5 \in Phases /\ q1 \in Phases /\ q2 \in Phases /\ q3 \in Phases
  BY DEF Phases, Phase, Images, Places
<1>2. /\ StepOf("raOn", p1, p2) /\ StepOf("wbOn", p2, p3) /\ StepOf("create", p3, p4)
      /\ StepOf("record", p4, p5) /\ StepOf("finish", p5, q3)
  BY SMTT(30) DEF StepOf, Phase, InScope
<1>3. /\ StepOf("sidecar", q3, q3) /\ StepOf("wbOff", q3, q2) /\ StepOf("raOff", q2, q1)
  BY DEF StepOf, Phase, InScope
<1>4. Leads(VerifyBody, q3, q3)
  <2>1. k + 1 \in 1..2 /\ n + 1 \in 1..2 /\ 1 \in 0..1 /\ "made" \in {"made", "given", "scanned"}
    OBVIOUS
  <2>2. Seen("made") = "made"
    BY DEF Seen
  <2> QED BY <2>1, <2>2, VerifyLeads, Zenon
<1> HIDE DEF p1, p2, p3, p4, p5, q1, q2, q3
<1>9. /\ "raOn" \in Steps /\ "wbOn" \in Steps /\ "create" \in Steps /\ "record" \in Steps
      /\ "finish" \in Steps /\ "sidecar" \in Steps /\ "wbOff" \in Steps /\ "raOff" \in Steps
  BY DEF Steps
<1>5. Leads(make, p1, q3)
  BY <1>1, <1>2, <1>9, LeadsFive
<1>6. Leads(off, q3, q1)
  BY <1>1, <1>3, <1>9, LeadsThree
<1> HIDE DEF make, off
<1>7. Leads((make \o VerifyBody) \o off, p1, q1)
  BY <1>4, <1>5, <1>6, LeadsJoin
<1>8. Leads(RunCall((make \o VerifyBody) \o off),
            Phase(k, n, 0, "none", "no"), Phase(k, n, 0, "none", "made"))
  <2>1. n \in 0..2 /\ 0 \in 0..1 /\ "no" \in Images /\ "made" \in Images
    BY DEF Images
  <2> QED BY <1>7, <2>1, RunCallLeads, Zenon DEF p1, q1
<1> QED BY <1>8 DEF ExportCall, make, off

LEMMA FormatLeads ==
  Leads(FormatCall, Phase(0, 0, 0, "none", "no"), Phase(0, 0, 0, "none", "made"))
<1> DEFINE p1 == Phase(1, 0, 0, "none", "no")
           p2 == Phase(1, 1, 0, "none", "no")
           q2 == Phase(1, 1, 0, "none", "made")
           q1 == Phase(1, 0, 0, "none", "made")
           on == <<"raOn">>
           off == <<"mcFormat", "raOff">>
<1>1. p1 \in Phases /\ p2 \in Phases /\ q1 \in Phases /\ q2 \in Phases
  BY DEF Phases, Phase, Images, Places
<1>2. StepOf("raOn", p1, p2) /\ StepOf("mcFormat", q2, q2) /\ StepOf("raOff", q2, q1)
  BY DEF StepOf, Phase, InScope
<1>3. "raOn" \in Steps /\ "mcFormat" \in Steps /\ "raOff" \in Steps
  BY DEF Steps
<1>4. Leads(ExportCall, p2, q2)
  <2>1. 1 \in 0..1
    OBVIOUS
  <2> QED BY <2>1, ExportLeads, Zenon
<1> HIDE DEF p1, p2, q1, q2
<1>5. Leads(on, p1, p2) /\ Leads(off, q2, q1)
  BY <1>1, <1>2, <1>3, LeadsOne, LeadsTwo
<1> HIDE DEF on, off
<1>6. Leads((on \o ExportCall) \o off, p1, q1)
  BY <1>4, <1>5, LeadsJoin
<1>7. 0 \in 0..1 /\ 0 \in 0..2 /\ 0 + 1 = 1 /\ "no" \in Images /\ "made" \in Images
  BY DEF Images
<1>8. Leads(RunCall((on \o ExportCall) \o off),
            Phase(0, 0, 0, "none", "no"), Phase(0, 0, 0, "none", "made"))
  BY <1>6, <1>7, RunCallLeads DEF p1, q1
<1> QED BY <1>8 DEF FormatCall, on, off

(* A verification and a second pass over the image, k calls deep.          *)
LEMMA TwicePasses ==
  ASSUME NEW k \in 1..2, NEW s \in Steps, NEW t \in Steps, NEW c, NEW d,
         \/ s = "open" /\ t = "program" /\ c = "given" /\ d = "checked"
         \/ s = "openLocate" /\ t = "locate" /\ c = "scanned" /\ d = "searched"
  PROVE  Leads(<<"raOn">> \o VerifyBody \o <<s, t, "close", "raOff">>,
               Phase(k, 0, 0, "none", c), Phase(k, 0, 0, "none", d))
<1> DEFINE p == Phase(k, 0, 0, "none", c)
           q == Phase(k, 1, 0, "none", c)
           v == Phase(k, 1, 0, "none", d)
           z == Phase(k, 0, 0, "none", d)
           on == <<"raOn">>
           again == <<s, t, "close", "raOff">>
<1>1. p \in Phases /\ q \in Phases
  BY DEF Phases, Phase, Images, Places
<1>2. StepOf("raOn", p, q) /\ "raOn" \in Steps
  BY DEF StepOf, Phase, Steps
<1>3. Leads(again, v, z)
  <2>1. 0 \in 0..1
    OBVIOUS
  <2> QED BY <2>1, AgainLeads
<1>4. Leads(VerifyBody, q, v)
  <2>1. 0 \in 0..1 /\ 1 \in 1..2 /\ c \in {"made", "given", "scanned"} /\ Seen(c) = d
    BY DEF Seen
  <2> QED BY <2>1, VerifyLeads
<1> HIDE DEF p, q, v, z
<1>5. Leads(on, p, q)
  BY <1>1, <1>2, LeadsOne
<1> HIDE DEF on, again
<1>6. Leads((on \o VerifyBody) \o again, p, z)
  BY <1>3, <1>4, <1>5, LeadsJoin
<1> QED BY <1>6 DEF on, again, p, z

LEMMA RestoreLeads ==
  Leads(RestoreCall, Phase(0, 0, 0, "none", "given"), Phase(0, 0, 0, "none", "checked"))
<1> DEFINE body == <<"raOn">> \o VerifyBody \o <<"open", "program", "close", "raOff">>
<1>1. "open" \in Steps /\ "program" \in Steps /\ 1 \in 1..2
  BY DEF Steps
<1>2. Leads(body, Phase(1, 0, 0, "none", "given"), Phase(1, 0, 0, "none", "checked"))
  BY <1>1, TwicePasses
<1>3. 0 \in 0..1 /\ 0 \in 0..2 /\ 0 + 1 = 1 /\ "given" \in Images /\ "checked" \in Images
  BY DEF Images
<1> HIDE DEF body
<1>4. Leads(RunCall(body), Phase(0, 0, 0, "none", "given"), Phase(0, 0, 0, "none", "checked"))
  BY <1>2, <1>3, RunCallLeads
<1> QED BY <1>4 DEF RestoreCall, body

LEMMA ScanLeads ==
  Leads(ScanCall, Phase(0, 0, 0, "none", "scanned"), Phase(0, 0, 0, "none", "searched"))
<1> DEFINE body == <<"raOn">> \o VerifyBody \o <<"openLocate", "locate", "close", "raOff">>
<1>1. "openLocate" \in Steps /\ "locate" \in Steps /\ 2 \in 1..2
  BY DEF Steps
<1>2. Leads(body, Phase(2, 0, 0, "none", "scanned"), Phase(2, 0, 0, "none", "searched"))
  BY <1>1, TwicePasses
<1>3. 0 \in 0..1 /\ 1 \in 0..1 /\ 0 \in 0..2 /\ 0 + 1 = 1 /\ 1 + 1 = 2
      /\ "scanned" \in Images /\ "searched" \in Images
  BY DEF Images
<1> HIDE DEF body
<1>4. Leads(RunCall(body), Phase(1, 0, 0, "none", "scanned"), Phase(1, 0, 0, "none", "searched"))
  BY <1>2, <1>3, RunCallLeads
<1>5. Leads(RunCall(RunCall(body)), Phase(0, 0, 0, "none", "scanned"), Phase(0, 0, 0, "none", "searched"))
  BY <1>4, <1>3, RunCallLeads
<1> QED BY <1>5 DEF ScanCall, body

LEMMA RawLeads ==
  ASSUME NEW c \in Images \ {"scanned", "searched"}
  PROVE  LET p == Phase(0, 0, 0, "none", c) IN
         Leads(EnterRaw, p, p) /\ Leads(LeaveRaw, p, p) /\ Leads(<<"printf">> \o LeaveRaw, p, p)
<1> DEFINE p == Phase(0, 0, 0, "none", c)
           five == <<"detach", "printf", "detach", "reboot", "startRaw">>
           two == <<"attach", "printf">>
           one == <<"printf">>
<1>1. p \in Phases
  BY DEF Phases, Phase, Images, Places
<1>2. /\ StepOf("detach", p, p) /\ StepOf("printf", p, p) /\ StepOf("attach", p, p)
      /\ StepOf("reboot", p, p) /\ StepOf("startRaw", p, p) /\ StepOf("massInit", p, p)
  BY DEF StepOf, Phase, Balanced
<1>3. /\ "detach" \in Steps /\ "printf" \in Steps /\ "attach" \in Steps
      /\ "reboot" \in Steps /\ "startRaw" \in Steps /\ "massInit" \in Steps
  BY DEF Steps
<1> HIDE DEF p
<1>4. Leads(five, p, p) /\ Leads(two, p, p) /\ Leads(one, p, p)
  BY <1>1, <1>2, <1>3, LeadsFive, LeadsTwo, LeadsOne
<1>5. Leads(LeaveRaw, p, p)
  BY <1>1, <1>2, <1>3, LeadsFive DEF LeaveRaw
<1> HIDE DEF five, two
<1>6. Leads(five \o two, p, p)
  BY <1>4, LeadsJoin
<1>7. Leads(EnterRaw, p, p)
  BY <1>6 DEF EnterRaw, five, two
<1> HIDE DEF one
<1>8. Leads(one \o LeaveRaw, p, p)
  BY <1>4, <1>5, LeadsJoin
<1> QED BY <1>5, <1>7, <1>8 DEF p, one

(* Every script can be run from outside of all scopes and leaves them all. *)
LEMMA ScriptLeads ==
  /\ Leads(Script("restore"), Phase(0, 0, 0, "none", "given"), Phase(0, 0, 0, "none", "checked"))
  /\ Leads(Script("scan"), Phase(0, 0, 0, "none", "scanned"), Phase(0, 0, 0, "none", "searched"))
  /\ \A kind \in Exports :
        Leads(Script(kind), Phase(0, 0, 0, "none", "no"), Phase(0, 0, 0, "none", "made"))
<1> DEFINE p == Phase(0, 0, 0, "none", "no")
           m == Phase(0, 0, 0, "none", "made")
           q == Phase(0, 0, 0, "none", "given")
           v == Phase(0, 0, 0, "none", "checked")
           s == Phase(0, 0, 0, "none", "scanned")
           z == Phase(0, 0, 0, "none", "searched")
<1>1. /\ Leads(EnterRaw, p, p) /\ Leads(LeaveRaw, m, m)
      /\ Leads(EnterRaw, q, q) /\ Leads(LeaveRaw, v, v)
  <2>1. {"no", "made", "given", "checked"} \subseteq Images \ {"scanned", "searched"}
    BY DEF Images
  <2> QED BY <2>1, RawLeads, Zenon
<1>2. Leads(Script("export"), p, m)
  <2>1. Leads(ExportCall, p, m)
    <3>1. 0 \in 0..1
      OBVIOUS
    <3> QED BY <3>1, ExportLeads, Zenon
  <2> HIDE DEF p, m
  <2>2. Leads((EnterRaw \o ExportCall) \o LeaveRaw, p, m)
    BY <1>1, <2>1, LeadsJoin
  <2> QED BY <2>2 DEF Script
<1>3. Leads(Script("format"), p, m)
  <2>1. Leads(FormatCall, p, m)
    BY FormatLeads, Zenon
  <2> HIDE DEF p, m
  <2>2. Leads((EnterRaw \o FormatCall) \o LeaveRaw, p, m)
    BY <1>1, <2>1, LeadsJoin
  <2> QED BY <2>2 DEF Script
<1>4. Leads(Script("restore"), q, v)
  <2>1. Leads(RestoreCall, q, v)
    BY RestoreLeads, Zenon
  <2> HIDE DEF q, v
  <2>2. Leads((EnterRaw \o RestoreCall) \o LeaveRaw, q, v)
    BY <1>1, <2>1, LeadsJoin
  <2> QED BY <2>2 DEF Script
<1>5. Leads(Script("scan"), s, z)
  <2>1. Leads(ScanCall, s, z)
    BY ScanLeads, Zenon
  <2> QED BY <2>1 DEF Script
<1> HIDE DEF p, m, q, v, s, z
<1> QED BY <1>2, <1>3, <1>4, <1>5 DEF Exports, p, m, q, v, s, z

(* ------------------------ the state between calls ---------------------- *)
LEMMA FedSame ==
  ASSUME NEW w, NEW a, Fed(w, a), NEW x, x.wb = w.wb, x.fx.file = w.fx.file, x.fx.rpc = w.fx.rpc
  PROVE  Fed(x, a)
<1>1. Pending(w)
  BY DEF Fed
<1>2. Pending(x) /\ Base(x) = Base(w)
  BY <1>1, PendingSame
<1> HIDE DEF Pending, Base
<1> QED BY <1>2 DEF Fed

LEMMA PositionedSame ==
  ASSUME NEW w, NEW c, Positioned(w, c), NEW x, x.ra = w.ra, SameFile(x, w), x.fx.rpc = w.fx.rpc
  PROVE  Positioned(x, c)
<1>1. /\ x.fx.open = w.fx.open /\ x.fx.pos = w.fx.pos /\ x.fx.file = w.fx.file
      /\ x.fx.last = w.fx.last
  BY DEF SameFile
<1>2. Lined(x, c) <=> Lined(w, c)
  BY <1>1, LinedSame
<1> QED BY <1>1, <1>2 DEF Positioned

LEMMA SpentSame ==
  ASSUME NEW o, NEW w, Spent(o, w), NEW u, u.checked = o.checked, NEW x, x.ra = w.ra
  PROVE  Spent(u, x)
BY DEF Spent, Emptied, Remaining

LEMMA TracksSame ==
  ASSUME NEW o, NEW w, Tracks(o, w), NEW u, u.got = o.got, u.checked = o.checked,
         Taken(u) = Taken(o), NEW x, \A c : Positioned(w, c) => Positioned(x, c)
  PROVE  Tracks(u, x)
<1>1. Shifts(u) = Shifts(o)
  BY DEF Shifts
<1>2. PICK b \in Shifts(o) : Run(o.got, 0 - b) /\ Positioned(w, Taken(o) - b)
  BY DEF Tracks
<1> HIDE DEF Taken, Shifts
<1>3. Run(u.got, 0 - b) /\ Positioned(x, Taken(u) - b)
  BY <1>2
<1> QED BY <1>1, <1>2, <1>3 DEF Tracks

(* Nothing was read yet.                                                   *)
LEMMA ToldNone ==
  ASSUME NEW u, u.got = <<>>, NEW x \in Worlds, u.sealed => x.fx.file = Units(ImageUnits),
         u.formatted => u.sealed
  PROVE  Told(u, x)
<1>1. 0 \in Shifts(u)
  BY DEF Shifts
<1>2. Run(<<>>, 0 - 0) /\ Len(<<>>) = 0
  BY DEF Run
<1>3. Len(x.fx.file) \in Nat
  BY WorldParts
<1>4. Len(u.got) <= Len(x.fx.file)
  BY <1>2, <1>3
<1> QED BY <1>1, <1>2, <1>4 DEF Told

LEMMA CalmSame ==
  ASSUME NEW w, Calm(w), NEW x \in Worlds, x.wb.fill = w.wb.fill, x.wb.buf = w.wb.buf,
         x.wb.async = w.wb.async, x.wb.expected = w.wb.expected, x.ra = w.ra, SameFile(x, w),
         x.fx.rpc = w.fx.rpc, w.fx.open = 0 => x.fx.mode = "WAIT"
  PROVE  Calm(x)
<1>1. x.fx.open = w.fx.open /\ x.fx.pos = w.fx.pos /\ x.fx.file = w.fx.file
  BY DEF SameFile
<1>2. Sound(w) /\ Pending(w) /\ Fetch(w)
  BY DEF Calm
<1>3. Sound(x)
  BY <1>2, SoundSame
<1>4. Pending(x)
  BY <1>1, <1>2, PendingSame
<1>5. Fetch(x)
  BY <1>2, FetchSame
<1> QED BY <1>1, <1>3, <1>4, <1>5 DEF Calm

LEMMA GoodSame ==
  ASSUME NEW o, NEW w, NEW p, Good(o, w, p), NEW x \in Worlds, x.wb = w.wb, x.ra = w.ra,
         SameFile(x, w), x.fx.rpc = w.fx.rpc, w.fx.open = 0 => x.fx.mode = "WAIT"
  PROVE  Good(o, x, p)
<1>1. x.fx.open = w.fx.open /\ x.fx.pos = w.fx.pos /\ x.fx.file = w.fx.file
  BY DEF SameFile
<1>2. Calm(w)
  BY DEF Good
<1>3. Calm(x)
  BY <1>2, CalmSame
<1>4. Told(o, x)
  BY <1>1 DEF Good, Told
<1>5. Place(o, x, p)
  BY <1>1 DEF Good, Place, Queued
<1>6. Making(o, x, p)
  <2>1. \A a : Fed(w, a) => Fed(x, a)
    BY <1>1, FedSame
  <2> QED BY <1>1, <2>1 DEF Good, Making, Queued
<1>7. Image(o, x, p)
  BY <1>1 DEF Good, Image
<1>8. Reading(o, x, p)
  <2>1. \A c : Positioned(w, c) => Positioned(x, c)
    BY PositionedSame
  <2>2. Spent(o, w) => Spent(o, x)
    BY SpentSame
  <2>3. Tracks(o, w) => Tracks(o, x)
    BY <2>1, TracksSame
  <2> QED BY <1>1, <2>1, <2>2, <2>3 DEF Good, Reading
<1> QED BY <1>3, <1>4, <1>5, <1>6, <1>7, <1>8 DEF Good

LEMMA GoodCall ==
  ASSUME NEW o, NEW w, NEW p, Good(o, w, p), NEW u, u.kind = o.kind, u.rc = o.rc, u.bad = o.bad,
         u.pages = o.pages, u.got = o.got, u.sealed = o.sealed, u.checked = o.checked,
         u.formatted = o.formatted
  PROVE  Good(u, w, p)
<1>1. Taken(u) = Taken(o)
  BY DEF Taken
<1>2. Calm(w) /\ w.ra.depth = p.ra /\ w.wb.depth = p.wb
  BY DEF Good
<1>3. Told(u, w)
  BY DEF Good, Told, Shifts
<1>4. Place(u, w, p)
  BY DEF Good, Place
<1>5. Making(u, w, p)
  BY <1>1 DEF Good, Making
<1>6. Image(u, w, p)
  BY DEF Good, Image
<1>7. Reading(u, w, p)
  <2>1. Tracks(o, w) => Tracks(u, w)
    BY <1>1, TracksSame
  <2>2. Spent(o, w) => Spent(u, w)
    BY SpentSame
  <2> HIDE DEF Taken
  <2> QED BY <1>1, <2>1, <2>2 DEF Good, Reading
<1> QED BY <1>2, <1>3, <1>4, <1>5, <1>6, <1>7 DEF Good

LEMMA GoodPhase ==
  ASSUME NEW o, NEW w, NEW p, Good(o, w, p), p.at = "none", NEW r, r.at = "none",
         r.ra = p.ra, r.wb = p.wb, r.image = p.image
  PROVE  Good(o, w, r)
<1>1. Calm(w) /\ Told(o, w) /\ w.ra.depth = r.ra /\ w.wb.depth = r.wb
  BY DEF Good
<1>2. Place(o, w, r) /\ Making(o, w, r) /\ Image(o, w, r) /\ Reading(o, w, r)
  BY DEF Good, Place, Making, Image, Reading
<1> QED BY <1>1, <1>2 DEF Good

LEMMA PhaseParts ==
  ASSUME NEW a, NEW b, NEW c, NEW d, NEW e
  PROVE  LET r == Phase(a, b, c, d, e) IN
         r.pause = a /\ r.ra = b /\ r.wb = c /\ r.at = d /\ r.image = e
BY DEF Phase

(* An engine call that is left out.                                        *)
LEMMA SkipGood ==
  ASSUME NEW o, NEW w, NEW p, Good(o, w, p), NEW s, NEW r, StepOf(s, p, r),
         \/ s \in EngineSteps \ {"finish"} /\ o.rc < 0
         \/ s \in {"finish", "close"} /\ w.fx.open = 0
         \/ s = "openLocate" /\ o.rc # BadEcc
         \/ s = "locate" /\ w.fx.open = 0
  PROVE  Good(o, w, r)
<1> USE DEF EngineSteps
<1>0. /\ Calm(w) /\ Told(o, w) /\ w.ra.depth = p.ra /\ w.wb.depth = p.wb
      /\ Place(o, w, p) /\ Making(o, w, p) /\ Image(o, w, p) /\ Reading(o, w, p)
  BY DEF Good
<1>1. CASE s \in {"attach", "sidecar", "mcFormat", "locate"}
  BY <1>1 DEF StepOf
<1>2. CASE s = "create"
  <2>1. /\ p.at = "none" /\ InScope(p) /\ p.wb = 1 /\ p.image = "no"
        /\ r = Phase(p.pause, p.ra, p.wb, "making", p.image)
    BY <1>2 DEF StepOf
  <2>2. /\ r.pause = p.pause /\ r.ra = p.ra /\ r.wb = p.wb /\ r.at = "making"
        /\ r.image = p.image
    BY <2>1, PhaseParts
  <2>3. o.rc # 0 /\ w.fx.open = 0 /\ w.fx.rpc = NoRequest
    BY <1>0, <1>2, <2>1 DEF Place, Calm
  <2>4. Place(o, w, r)
    BY <1>0, <2>1, <2>2, <2>3 DEF Place, InScope
  <2>5. Making(o, w, r)
    BY <1>0, <2>1, <2>2, <2>3 DEF Making, Image, Queued, NoRequest
  <2>6. Image(o, w, r) /\ Reading(o, w, r)
    BY <1>0, <2>1, <2>2, <2>3 DEF Image, Reading
  <2> QED BY <1>0, <2>2, <2>4, <2>5, <2>6 DEF Good
<1>3. CASE s = "record"
  <2>1. p.at = "making" /\ r = Phase(p.pause, p.ra, p.wb, "filled", p.image) /\ o.rc # 0
    BY <1>3 DEF StepOf
  <2>2. /\ r.pause = p.pause /\ r.ra = p.ra /\ r.wb = p.wb /\ r.at = "filled"
        /\ r.image = p.image
    BY <2>1, PhaseParts
  <2>3. Place(o, w, r) /\ Making(o, w, r)
    BY <1>0, <2>1, <2>2 DEF Place, Making, InScope
  <2>4. Image(o, w, r) /\ Reading(o, w, r)
    BY <1>0, <2>1, <2>2 DEF Image, Reading
  <2> QED BY <1>0, <2>2, <2>3, <2>4 DEF Good
<1>4. CASE s = "finish"
  <2>1. p.at = "filled" /\ r = Phase(p.pause, p.ra, p.wb, "none", "made") /\ w.fx.open = 0
    BY <1>4 DEF StepOf
  <2>2. r.ra = p.ra /\ r.wb = p.wb /\ r.at = "none" /\ r.image = "made"
    BY <2>1, PhaseParts
  <2>3. o.rc # 0 /\ p.image = "no" /\ w.fx.rpc = NoRequest
    BY <1>0, <2>1 DEF Place, Making, Calm
  <2>4. w.wb.async = NoSlot /\ ~Queued(w, "write")
    BY <1>0, <2>3 DEF Calm, Pending, Queued, NoRequest
  <2>5. Place(o, w, r) /\ Making(o, w, r)
    BY <2>1, <2>2, <2>4 DEF Place, Making
  <2>6. Image(o, w, r) /\ Reading(o, w, r)
    BY <1>0, <2>2, <2>3 DEF Image, Reading
  <2> QED BY <1>0, <2>2, <2>5, <2>6 DEF Good
<1>5. CASE s = "open"
  <2>1. /\ p.at = "none" /\ InScope(p) /\ p.image # "no" /\ o.rc # 0
        /\ r = Phase(p.pause, p.ra, p.wb, "reading", p.image)
    BY <1>5 DEF StepOf
  <2>2. /\ r.pause = p.pause /\ r.ra = p.ra /\ r.wb = p.wb /\ r.at = "reading"
        /\ r.image = p.image
    BY <2>1, PhaseParts
  <2>3. Place(o, w, r) /\ Making(o, w, r)
    BY <1>0, <2>1, <2>2 DEF Place, Making, InScope
  <2>4. Image(o, w, r) /\ Reading(o, w, r)
    BY <1>0, <2>1, <2>2 DEF Image, Reading
  <2> QED BY <1>0, <2>2, <2>3, <2>4 DEF Good
<1>6. CASE s \in {"verify", "program"}
  <2>1. /\ p.at = "reading" /\ r = Phase(p.pause, p.ra, p.wb, "read", Seen(p.image))
        /\ o.rc # 0
    BY <1>6 DEF StepOf
  <2>2. /\ r.pause = p.pause /\ r.ra = p.ra /\ r.wb = p.wb /\ r.at = "read"
        /\ r.image = Seen(p.image)
    BY <2>1, PhaseParts
  <2>3. Place(o, w, r) /\ Making(o, w, r)
    BY <1>0, <2>1, <2>2 DEF Place, Making, InScope, Seen
  <2>4. Image(o, w, r) /\ Reading(o, w, r)
    BY <1>0, <2>1, <2>2 DEF Image, Reading, Place, Seen
  <2> QED BY <1>0, <2>2, <2>3, <2>4 DEF Good
<1>7. CASE s = "close"
  <2>1. /\ p.at \in {"read", "locating"} /\ w.fx.open = 0
        /\ r = Phase(p.pause, p.ra, p.wb, "none", p.image)
    BY <1>7 DEF StepOf
  <2>2. r.ra = p.ra /\ r.wb = p.wb /\ r.at = "none" /\ r.image = p.image
    BY <2>1, PhaseParts
  <2>3. p.at = "read" => o.rc # 0
    BY <1>0, <2>1 DEF Place
  <2>4. p.image # "no"
    BY <1>0, <2>1 DEF Place
  <2>5. Place(o, w, r) /\ Making(o, w, r)
    BY <1>0, <2>1, <2>2 DEF Place, Making
  <2>6. Image(o, w, r) /\ Reading(o, w, r)
    BY <1>0, <2>1, <2>2, <2>3, <2>4 DEF Image, Reading
  <2> QED BY <1>0, <2>2, <2>5, <2>6 DEF Good
<1>8. CASE s = "openLocate"
  <2>1. /\ p.at = "none" /\ InScope(p) /\ p.image = "searched"
        /\ r = Phase(p.pause, p.ra, p.wb, "locating", p.image)
    BY <1>8 DEF StepOf
  <2>2. /\ r.pause = p.pause /\ r.ra = p.ra /\ r.wb = p.wb /\ r.at = "locating"
        /\ r.image = p.image
    BY <2>1, PhaseParts
  <2>3. w.fx.open = 0
    BY <1>0, <2>1 DEF Place
  <2>4. Place(o, w, r) /\ Making(o, w, r)
    BY <1>0, <2>1, <2>2, <2>3 DEF Place, Making, InScope
  <2>5. Image(o, w, r) /\ Reading(o, w, r)
    BY <1>0, <2>1, <2>2 DEF Image, Reading
  <2> QED BY <1>0, <2>2, <2>4, <2>5 DEF Good
<1> QED BY <1>1, <1>2, <1>3, <1>4, <1>5, <1>6, <1>7, <1>8

(* ------------------------------- the IOP ------------------------------- *)
LEMMA ServeFed ==
  ASSUME NEW w, Sound(w), NEW a, Fed(w, a), Busy(w),
         NEW k \in {Failed} \cup (0..BatchUnits), NEW x, ServedBy(w, x, k)
  PROVE  Fed(x, a)
<1>1. Pending(w) /\ w.wb.async # NoSlot
  BY DEF Fed, Busy
<1>2. Pending(x) /\ Base(x) = Base(w)
  BY <1>1, ServePending
<1>3. x.wb = w.wb
  BY DEF ServedBy
<1> HIDE DEF Pending, Base
<1> QED BY <1>1, <1>2, <1>3 DEF Fed

LEMMA ServeCache ==
  ASSUME NEW w, Sound(w), Fetch(w), Busy(w),
         NEW k \in {Failed} \cup (0..BatchUnits), NEW x, ServedBy(w, x, k)
  PROVE  ServedCache(w, x, k) /\ Fetch(x)
<1>0. /\ w \in Worlds /\ w.ra \in Caches /\ w.fx.rpc \in Requests /\ w.fx.rpc.st = "queued"
      /\ w.fx.file \in Seq(Int) /\ w.fx.pos \in Nat
  BY WorldParts DEF Sound, Busy
<1>1. /\ w.fx.rpc.kind \in {"read", "write"} /\ w.fx.rpc.slot \in Slots
      /\ w.fx.rpc.len \in 1..BatchUnits
  BY <1>0, RequestParts DEF Calls
<1>2. /\ x.fx.rpc.st = "done" /\ x.fx.rpc.kind = w.fx.rpc.kind /\ x.fx.rpc.slot = w.fx.rpc.slot
      /\ x.fx.rpc.result = k
  BY ServeSound
<1>3. CASE w.fx.rpc.kind = "write" \/ k = Failed
  <2>1. x.ra = w.ra
    BY <1>1, <1>3 DEF ServedBy
  <2>2. w.ra.async # NoSlot => k = Failed /\ w.fx.rpc.kind = "read" /\ w.ra.async \in Slots
    BY <1>0, <1>3, WorldParts DEF Fetch
  <2>3. w.ra.async # NoSlot => k <= Len(w.ra.slot[w.ra.async].data)
    <3>1. \A s \in Slots : w.ra.slot[s].data \in Seq(Int)
      BY <1>0, WorldParts
    <3>2. \A s \in Slots : Len(w.ra.slot[s].data) \in Nat
      BY <3>1
    <3> DEFINE n == Len(w.ra.slot[w.ra.async].data)
    <3>3. w.ra.async # NoSlot => n \in Nat /\ k = Failed
      BY <2>2, <3>2
    <3> HIDE DEF n
    <3>4. w.ra.async # NoSlot => k <= n
      BY <3>3 DEF Failed
    <3> QED BY <3>4 DEF n
  <2>4. Fetch(x)
    BY <1>0, <1>2, <2>1, <2>3 DEF Fetch
  <2> QED BY <1>1, <1>3, <2>1, <2>4 DEF ServedCache
<1>4. CASE w.fx.rpc.kind = "read" /\ k # Failed
  <2> DEFINE s == w.fx.rpc.slot
             d == SubSeq(w.fx.file, w.fx.pos + 1, w.fx.pos + k)
             b == [data |-> d, off |-> w.ra.slot[s].off]
  <2>1. x.ra = [w.ra EXCEPT !.slot[s] = b] /\ x.fx.pos <= Len(w.fx.file) /\ k \in Nat
        /\ x.fx.pos = w.fx.pos + k
    BY <1>4 DEF ServedBy
  <2>10. k \in Nat /\ x.fx.pos = w.fx.pos + k /\ x.fx.pos <= Len(w.fx.file)
    BY <2>1
  <2>2. d \in Seq(Int) /\ Len(d) = k
    <3> DEFINE f == w.fx.file
               a == w.fx.pos
               j == a + k
    <3>4. k \in Nat /\ a \in Nat /\ j <= Len(f)
      <4>1. w.fx.pos + k <= Len(w.fx.file)
        BY <2>10
      <4> QED BY <1>0, <2>10, <4>1
    <3>5. f \in Seq(Int)
      BY <1>0
    <3> HIDE DEF f, a
    <3>1. f \in Seq(Int) /\ a \in Nat /\ j \in Int /\ j <= Len(f) /\ j - a = k /\ j >= a
      BY <3>4, <3>5
    <3>2. d = SubSeq(f, a + 1, j)
      BY DEF f, a
    <3> HIDE DEF j, d
    <3>3. SubSeq(f, a + 1, j) \in Seq(Int) /\ Len(SubSeq(f, a + 1, j)) = IF a < j THEN j - a ELSE 0
      BY <3>1, Piece
    <3> QED BY <2>1, <3>1, <3>2, <3>3
  <2>3. w.ra.slot[s].off \in Nat /\ s \in Slots
    BY <1>0, <1>1, WorldParts
  <2> DEFINE q == [w.ra EXCEPT !.slot[s] = b]
  <2> HIDE DEF d, s
  <2>4. b \in Buffers /\ b.data = d /\ b.off = w.ra.slot[s].off
    BY <2>2, <2>3, BuffersParts
  <2> HIDE DEF b
  <2>12. x.ra = q
    BY <2>1 DEF s
  <2>9. w.ra \in Caches /\ b \in Buffers /\ s \in Slots
    BY <1>0, <2>3, <2>4
  <2>5. /\ q \in Caches /\ q.depth = w.ra.depth /\ q.fd = w.ra.fd /\ q.cur = w.ra.cur
        /\ q.async = w.ra.async /\ q.ready = w.ra.ready /\ q.disabled = w.ra.disabled
        /\ q.slot[s] = b /\ \A t \in Slots : t # s => q.slot[t] = w.ra.slot[t]
    BY <2>9, SlotParts
  <2> HIDE DEF q
  <2>6. /\ x.ra.depth = w.ra.depth /\ x.ra.fd = w.ra.fd /\ x.ra.cur = w.ra.cur
        /\ x.ra.async = w.ra.async /\ x.ra.ready = w.ra.ready
        /\ x.ra.slot[s] = b /\ \A t \in Slots : t # s => x.ra.slot[t] = w.ra.slot[t]
    BY <2>12, <2>5
  <2>7. w.ra.cur # s /\ (w.ra.cur # NoSlot => w.ra.cur \in Slots)
    BY <1>0, <1>4, WorldParts DEF Sound, Queued, s
  <2>8. Fetch(x)
    <3>1. w.ra.async # NoSlot => w.ra.async = s
      BY <1>0 DEF Fetch, s
    <3>2. x.fx.rpc.result <= Len(b.data)
      BY <1>2, <2>10, <2>2, <2>4
    <3>3. x.fx.rpc.kind = "read" /\ x.fx.rpc.slot = s
      BY <1>2, <1>4 DEF s
    <3>4. x.ra.cur # NoSlot \/ x.ra.async # NoSlot => build = "asyncread"
      BY <2>6 DEF Fetch
    <3> QED BY <2>6, <3>1, <3>2, <3>3, <3>4 DEF Fetch
  <2> QED BY <1>4, <2>4, <2>6, <2>7, <2>8 DEF d, s, ServedCache
<1> QED BY <1>1, <1>3, <1>4

LEMMA ServePositioned ==
  ASSUME NEW w, Sound(w), Fetch(w), Busy(w), NEW c \in Int, Positioned(w, c),
         w.fx.rpc.kind = "read",
         NEW k \in {Failed} \cup (0..BatchUnits), NEW x, ServedBy(w, x, k)
  PROVE  Positioned(x, c)
<1>0. /\ w \in Worlds /\ w.ra \in Caches /\ w.fx.rpc \in Requests /\ w.fx.rpc.st = "queued"
      /\ w.fx.file \in Seq(Int) /\ w.fx.pos \in Nat /\ build = "asyncread"
  BY WorldParts DEF Sound, Busy, Queued
<1>1. /\ w.ra.fd = w.fx.open /\ w.fx.file = Units(ImageUnits) /\ Prefetched(w, c)
  BY <1>0 DEF Positioned, Lined
<1>2. /\ x.ra.fd = w.ra.fd /\ x.ra.cur = w.ra.cur /\ x.ra.async = w.ra.async
      /\ x.ra.ready = w.ra.ready
      /\ w.ra.cur # NoSlot => x.ra.slot[w.ra.cur] = w.ra.slot[w.ra.cur]
      /\ k = Failed => x.ra = w.ra
      /\ k # Failed =>
            /\ x.ra.slot[w.fx.rpc.slot].data = SubSeq(w.fx.file, w.fx.pos + 1, w.fx.pos + k)
            /\ x.ra.slot[w.fx.rpc.slot].off = w.ra.slot[w.fx.rpc.slot].off
  <2>1. ServedCache(w, x, k)
    BY ServeCache
  <2> QED BY <2>1 DEF ServedCache
<1>3. w.ra.async # NoSlot /\ w.fx.rpc.slot = w.ra.async /\ w.ra.ready = NoSlot
  BY <1>0, <1>1 DEF Prefetched, Fetch, Sound, Queued
<1>4. ~Arrived(w) /\ w.fx.pos = Ahead(w, c) /\ w.ra.slot[w.ra.async].data = <<>>
  BY <1>0, <1>1, <1>3 DEF Prefetched, Arrived
<1>5. /\ x.fx.rpc.st = "done" /\ x.fx.rpc.result = k /\ x.fx.open = w.fx.open
  <2>1. x.fx.rpc.st = "done" /\ x.fx.rpc.result = k
    BY ServeSound
  <2> QED BY <2>1 DEF ServedBy
<1>6. x.fx.file = w.fx.file
  BY DEF ServedBy, SameFile
<1>7. Ahead(x, c) = Ahead(w, c) /\ (x.ra.cur # NoSlot => Run(Unread(x, x.ra.cur), c))
  <2>1. w.ra.cur # NoSlot => Run(Unread(w, w.ra.cur), c)
    BY <1>1 DEF Prefetched
  <2> QED BY <1>2, <2>1 DEF Ahead, Remaining, Unread
<1>8. CASE k = Failed
  <2>1. x.fx.pos = w.fx.pos
    BY <1>8 DEF ServedBy, SameFile
  <2>2. ~Arrived(x)
    BY <1>5, <1>8 DEF Arrived, Failed
  <2>3. Prefetched(x, c)
    BY <1>2, <1>3, <1>4, <1>5, <1>7, <1>8, <2>1, <2>2 DEF Prefetched
  <2> QED BY <1>0, <1>1, <1>2, <1>5, <1>6, <2>3 DEF Positioned, Lined
<1>9. CASE k # Failed
  <2>1. x.fx.pos = w.fx.pos + k /\ x.fx.pos <= Len(w.fx.file) /\ k \in Nat
    BY <1>9 DEF ServedBy
  <2> DEFINE d == SubSeq(w.fx.file, w.fx.pos + 1, w.fx.pos + k)
             m == Ahead(w, c)
  <2>2. x.ra.slot[x.ra.async].data = d
    BY <1>2, <1>3, <1>9
  <2>3. Len(d) = k /\ Run(d, w.fx.pos)
    <3>1. ImageUnits \in Nat /\ Len(Units(ImageUnits)) = ImageUnits
      BY UnitsParts, FileXioAssumption
    <3>2. w.fx.pos + k <= ImageUnits /\ w.fx.pos \in Nat
      BY <1>0, <1>1, <2>1, <3>1
    <3> DEFINE n == w.fx.pos
    <3>3. d = SubSeq(Units(ImageUnits), n + 1, n + k)
      BY <1>1
    <3>4. n \in Nat /\ n + k <= ImageUnits
      BY <3>2
    <3> HIDE DEF n, d
    <3>5. LET u == SubSeq(Units(ImageUnits), n + 1, n + k) IN Len(u) = k /\ Run(u, n)
      BY <2>1, <3>1, <3>4, FileRun
    <3> QED BY <3>3, <3>5 DEF n
  <2>4. m = w.fx.pos /\ Ahead(x, c) = m
    BY <1>4, <1>7
  <2> HIDE DEF d, m
  <2>5. Prefetched(x, c)
    <3>1. x.ra.ready = NoSlot /\ x.ra.async # NoSlot
      BY <1>2, <1>3
    <3>2. Arrived(x) => /\ Run(x.ra.slot[x.ra.async].data, Ahead(x, c))
                        /\ Len(x.ra.slot[x.ra.async].data) = x.fx.rpc.result
                        /\ x.fx.pos = Ahead(x, c) + x.fx.rpc.result
      BY <1>5, <2>1, <2>2, <2>3, <2>4
    <3>3. Arrived(x)
      BY <1>5, <2>1 DEF Arrived
    <3> QED BY <1>7, <3>1, <3>2, <3>3 DEF Prefetched
  <2> QED BY <1>0, <1>1, <1>2, <1>5, <1>6, <2>5 DEF Positioned, Lined
<1> QED BY <1>8, <1>9

LEMMA ServeGood ==
  ASSUME NEW o, o.pages \in Nat, NEW w, NEW p, p.at \in Places, Good(o, w, p), Busy(w),
         NEW x \in ServeRequest(w)
  PROVE  /\ Good(o, x, p) /\ x.wb = w.wb /\ x.fx.rpc # w.fx.rpc /\ Size(w) <= Size(x)
         /\ w.fx.open # 0 /\ x.fx.open = w.fx.open
<1>0. /\ Calm(w) /\ Told(o, w) /\ w.ra.depth = p.ra /\ w.wb.depth = p.wb
      /\ Place(o, w, p) /\ Making(o, w, p) /\ Image(o, w, p) /\ Reading(o, w, p)
  BY DEF Good
<1>1. /\ Sound(w) /\ Pending(w) /\ Fetch(w) /\ w \in Worlds /\ w.fx.rpc.st = "queued"
      /\ w.fx.rpc.kind \in {"read", "write"} /\ w.fx.open # 0
  BY <1>0, WorldParts, RequestParts DEF Calm, Sound, Busy, Calls
<1>2. PICK k \in {Failed} \cup (0..BatchUnits) : ServedBy(w, x, k)
  BY <1>1, ServeOutcome
<1>3. /\ Sound(x) /\ x.fx.rpc.st = "done" /\ x.fx.rpc.kind = w.fx.rpc.kind
  BY <1>1, <1>2, ServeSound
<1>4. /\ Pending(x) /\ Size(w) <= Size(x)
      /\ w.fx.rpc.kind = "read" \/ k = Failed => x.fx.file = w.fx.file
      /\ w.fx.rpc.kind = "write" /\ k # Failed => Size(x) = Size(w) + k /\ k \in 1..w.fx.rpc.len
  BY <1>1, <1>2, ServePending
<1>5. /\ x.ra.depth = w.ra.depth /\ x.ra.fd = w.ra.fd /\ Fetch(x)
      /\ w.fx.rpc.kind = "write" => x.ra = w.ra
  <2>1. ServedCache(w, x, k) /\ Fetch(x)
    BY <1>1, <1>2, ServeCache DEF Busy
  <2> QED BY <2>1 DEF ServedCache
<1>6. x.wb = w.wb /\ x.fx.open = w.fx.open /\ x \in Worlds
  BY <1>2 DEF ServedBy
<1>7. /\ Size(w) \in Nat /\ Size(x) \in Nat /\ Size(x) <= ImageUnits /\ ImageUnits \in Nat
      /\ w.fx.file = Units(Size(w)) /\ x.fx.file = Units(Size(x))
      /\ Len(w.fx.file) = Size(w) /\ Len(x.fx.file) = Size(x)
  <2>1. ImageUnits \in Nat
    BY FileXioAssumption
  <2> QED BY <1>1, <1>3, <1>4, <2>1, PendingParts DEF Size
<1>8. x.fx.pos <= ImageUnits
  <2>1. x.fx.pos <= Len(x.fx.file) /\ x.fx.pos \in Nat
    BY <1>1, <1>3, <1>6, WorldParts DEF Sound
  <2> QED BY <1>7, <2>1
<1>9. Calm(x)
  BY <1>1, <1>3, <1>4, <1>5, <1>6, <1>8 DEF Calm
<1>10. w.fx.file = Units(ImageUnits) => x.fx.file = w.fx.file
  <2> SUFFICES ASSUME w.fx.file = Units(ImageUnits) PROVE x.fx.file = w.fx.file
    OBVIOUS
  <2>1. Size(w) = ImageUnits
    BY UnitsParts, FileXioAssumption DEF Size
  <2> HIDE DEF Size
  <2>2. Size(x) = Size(w)
    BY <1>4, <1>7, <2>1
  <2> QED BY <1>7, <2>2
<1>11. Told(o, x)
  <2>1. Len(o.got) <= Len(w.fx.file) /\ Len(w.fx.file) <= Len(x.fx.file) => Len(o.got) <= Len(x.fx.file)
    <3>1. \A a, b, c \in Int : a <= b /\ b <= c => a <= c
      OBVIOUS
    <3>2. CASE Len(o.got) \in Int
      BY <1>7, <3>1, <3>2
    <3>3. CASE Len(o.got) \notin Int
      BY <1>7, <3>3
    <3> QED BY <3>2, <3>3
  <2>2. Len(w.fx.file) <= Len(x.fx.file)
    BY <1>4, <1>7
  <2> QED BY <1>0, <1>10, <2>1, <2>2 DEF Told
<1>12. Place(o, x, p)
  BY <1>0, <1>3, <1>6 DEF Place, Queued
<1>13. Making(o, x, p)
  <2>1. \A a : Fed(w, a) => Fed(x, a)
    BY <1>1, <1>2, ServeFed
  <2> QED BY <1>0, <1>3, <1>6, <2>1 DEF Making, Queued
<1>14. Image(o, x, p)
  <2>1. p.at # "none"
    BY <1>0, <1>1 DEF Place
  <2> QED BY <1>0, <2>1 DEF Image
<1>15. Reading(o, x, p)
  <2>1. CASE w.fx.rpc.kind = "write"
    <3>1. p.at \in {"making", "filled"} /\ p.image = "no"
      BY <1>0, <1>1, <2>1 DEF Place, Making, Queued
    <3>2. x.ra = w.ra
      BY <1>5, <2>1
    <3>3. Spent(o, w) => Spent(o, x)
      BY <3>2, SpentSame
    <3> QED BY <1>0, <3>1, <3>3 DEF Reading
  <2>2. CASE w.fx.rpc.kind = "read"
    <3>1. p.at \notin {"making", "filled", "none"}
      BY <1>0, <1>1, <2>2 DEF Place, Making, Queued
    <3>2. p.at \in {"reading", "read", "locating"}
      BY <3>1 DEF Places
    <3>3. x.fx.file = w.fx.file
      BY <1>4, <2>2
    <3>4. Taken(o) \in Int /\ ImageUnits \in Int /\ Shifts(o) \subseteq Int
      BY FileXioAssumption DEF Taken, Shifts
    <3>5. \A c \in Int : Positioned(w, c) => Positioned(x, c)
      BY <1>1, <1>2, <2>2, ServePositioned DEF Busy
    <3>7. Tracks(o, w) => Tracks(o, x)
      <4> SUFFICES ASSUME Tracks(o, w) PROVE Tracks(o, x)
        OBVIOUS
      <4>1. PICK b \in Shifts(o) : Run(o.got, 0 - b) /\ Positioned(w, Taken(o) - b)
        BY DEF Tracks
      <4> HIDE DEF Taken
      <4>2. Taken(o) - b \in Int
        BY <3>4
      <4>3. Positioned(x, Taken(o) - b)
        BY <3>5, <4>1, <4>2
      <4> QED BY <4>1, <4>3 DEF Tracks
    <3>6. p.at = "locating" => o.rc # 0
      BY <1>0, <1>1 DEF Place, BadEcc
    <3> HIDE DEF Taken
    <3> QED BY <1>0, <1>5, <1>6, <3>2, <3>3, <3>4, <3>5, <3>6, <3>7 DEF Reading
  <2> QED BY <1>1, <2>1, <2>2
<1>16. x.fx.rpc # w.fx.rpc
  BY <1>1, <1>3
<1> HIDE DEF Size
<1> QED BY <1>0, <1>1, <1>4, <1>5, <1>6, <1>9, <1>11, <1>12, <1>13, <1>14, <1>15, <1>16 DEF Good

(* ------------------------------ the scopes ----------------------------- *)
(* Outside of an image file nothing is with the IOP.                       *)
LEMMA Idles ==
  ASSUME NEW w, Calm(w), w.fx.open = 0
  PROVE  /\ w \in Worlds /\ w.fx.rpc = NoRequest /\ w.fx.mode = "WAIT" /\ ~Busy(w)
         /\ w.wb.async = NoSlot /\ ~Queued(w, "write") /\ ~Queued(w, "read")
         /\ w.fx.rpc.st = "none" /\ Shape(w.ra) /\ Reader(w)
<1>1. /\ w \in Worlds /\ w.fx.rpc = NoRequest /\ w.fx.mode = "WAIT" /\ Shape(w.ra) /\ Sound(w)
      /\ Pending(w) /\ Fetch(w)
  BY DEF Calm, Sound
<1>2. w.fx.rpc.st = "none"
  BY <1>1 DEF NoRequest
<1> QED BY <1>1, <1>2 DEF Busy, Queued, Pending, Reader

LEMMA QuietCalm ==
  ASSUME NEW w, Calm(w), NEW x \in Worlds, x.fx.open = 0, x.fx.rpc = NoRequest,
         x.fx.mode = "WAIT", x.fx.pos <= ImageUnits,
         x.fx.file = w.fx.file \/ x.fx.file = <<>>,
         x.wb.async = NoSlot, Shape(x.ra),
         x.ra.cur = NoSlot \/ build = "asyncread", x.ra.async = NoSlot \/ build = "asyncread"
  PROVE  Calm(x)
<1>1. x.fx.rpc.st = "none"
  BY DEF NoRequest
<1>2. Sound(x)
  BY <1>1, SoundQuiet
<1>3. x.fx.file = Units(Size(x)) /\ Size(x) <= ImageUnits
  <2>1. CASE x.fx.file = w.fx.file
    BY <2>1 DEF Calm, Pending, Size
  <2>2. CASE x.fx.file = <<>>
    <3>1. Size(x) = 0 /\ ImageUnits \in Nat
      BY <2>2, FileXioAssumption DEF Size
    <3>2. Units(0) = <<>>
      BY DEF Units
    <3> QED BY <2>2, <3>1, <3>2
  <2> QED BY <2>1, <2>2
<1>4. Pending(x)
  BY <1>1, <1>3, PendingQuiet DEF Queued
<1>5. Fetch(x)
  BY <1>1 DEF Fetch
<1> QED BY <1>2, <1>4, <1>5 DEF Calm

LEMMA GoodRest ==
  ASSUME NEW o, NEW w, NEW p, Good(o, w, p), p.at = "none",
         NEW r, r.at = "none", r.image = p.image,
         NEW x \in Worlds, x.fx.rpc = NoRequest, x.fx.mode = "WAIT", x.fx.open = 0,
         x.fx.file = w.fx.file, x.fx.pos <= ImageUnits, x.wb.async = NoSlot, Shape(x.ra),
         x.ra.depth = r.ra, x.wb.depth = r.wb,
         x.ra.cur = NoSlot \/ build = "asyncread", x.ra.async = NoSlot \/ build = "asyncread",
         p.image = "no" /\ r.wb = 1 => x.wb.fd = 0 /\ x.wb.len[x.wb.fill] = 0,
         o.rc = 0 /\ r.ra > 0 => Spent(o, x)
  PROVE  Good(o, x, r)
<1>0. /\ Calm(w) /\ Told(o, w)
      /\ Place(o, w, p) /\ Making(o, w, p) /\ Image(o, w, p) /\ Reading(o, w, p)
  BY DEF Good
<1>2. Calm(x)
  BY <1>0, QuietCalm
<1>3. Told(o, x)
  BY <1>0 DEF Told
<1>4. Place(o, x, r) /\ Making(o, x, r)
  BY DEF Place, Making, Queued, NoRequest
<1>5. Image(o, x, r)
  BY <1>0 DEF Image
<1>6. Reading(o, x, r)
  BY <1>0 DEF Reading
<1> QED BY <1>2, <1>3, <1>4, <1>5, <1>6 DEF Good

LEMMA GoodQuiet ==
  ASSUME NEW o, NEW w, NEW p, Good(o, w, p), p.at = "none",
         NEW r, r.at = "none", r.image = p.image,
         NEW x \in Worlds, x.fx.rpc = NoRequest, x.fx.mode = "WAIT", SameFile(x, w),
         x.wb.async = NoSlot, Shape(x.ra), x.ra.depth = r.ra, x.wb.depth = r.wb,
         x.ra.cur = NoSlot \/ build = "asyncread", x.ra.async = NoSlot \/ build = "asyncread",
         p.image = "no" /\ r.wb = 1 => x.wb.fd = 0 /\ x.wb.len[x.wb.fill] = 0,
         o.rc = 0 /\ r.ra > 0 => Spent(o, x)
  PROVE  Good(o, x, r)
<1>1. x.fx.open = 0 /\ x.fx.file = w.fx.file /\ x.fx.pos <= ImageUnits
  BY DEF Good, Calm, Place, SameFile
<1> QED BY <1>1, GoodRest

LEMMA DepthParts ==
  ASSUME NEW r \in Caches, NEW n \in Nat
  PROVE  LET q == [r EXCEPT !.depth = n] IN
         /\ q \in Caches /\ q.depth = n /\ q.fd = r.fd /\ q.cur = r.cur
         /\ q.async = r.async /\ q.ready = r.ready /\ q.disabled = r.disabled
         /\ q.slot = r.slot
BY DEF Caches

LEMMA InitCache ==
  ASSUME NEW n \in Nat
  PROVE  LET q == [RaInit EXCEPT !.depth = n] IN
         /\ q \in Caches /\ q.depth = n /\ q.cur = NoSlot /\ q.async = NoSlot /\ q.ready = NoSlot
         /\ \A s \in Slots : q.slot[s] = EmptySlot
<1>1. EmptySlot \in Buffers
  BY BuffersParts
<1>2. [s \in Slots |-> EmptySlot] \in [Slots -> Buffers]
  BY <1>1
<1> HIDE DEF EmptySlot
<1> QED BY <1>2 DEF RaInit, Caches

LEMMA EmptyCache ==
  ASSUME NEW x \in Worlds, x.ra.cur = NoSlot, x.ra.async = NoSlot, x.ra.ready = NoSlot,
         \A s \in Slots : x.ra.slot[s] = EmptySlot
  PROVE  Shape(x.ra) /\ \A o : Spent(o, x)
<1>1. \A s \in Slots : x.ra.slot[s].off = 0 /\ x.ra.slot[s].data = <<>> /\ Len(<<>>) = 0
  BY BuffersParts
<1>2. Shape(x.ra)
  <2>1. \A s \in Slots : x.ra.slot[s].off <= Len(x.ra.slot[s].data)
    BY <1>1
  <2> QED BY <2>1 DEF Shape
<1>3. \A o : Spent(o, x)
  BY <1>1 DEF Spent, Emptied, Remaining, Slots
<1> QED BY <1>2, <1>3

LEMMA ReadOn ==
  ASSUME NEW o, NEW w, NEW p, Good(o, w, p), NEW r, StepOf("raOn", p, r),
         NEW x \in RaSetEnabled(w, TRUE)
  PROVE  Good(o, x, r) /\ Keeps(w, x) /\ x \in Worlds
<1>1. p.at = "none" /\ r = Phase(p.pause, p.ra + 1, p.wb, "none", p.image)
  BY DEF StepOf
<1>2. r.ra = p.ra + 1 /\ r.wb = p.wb /\ r.at = "none" /\ r.image = p.image
  BY <1>1, PhaseParts
<1>3. /\ Calm(w) /\ w.fx.open = 0 /\ w.ra.depth = p.ra /\ w.wb.depth = p.wb
      /\ Reading(o, w, p) /\ Image(o, w, p)
  BY <1>1 DEF Good, Place
<1>4. /\ w \in Worlds /\ w.fx.rpc = NoRequest /\ w.fx.mode = "WAIT" /\ w.wb.async = NoSlot
      /\ Shape(w.ra) /\ w.ra \in Caches /\ w.ra.depth \in Nat /\ ~Queued(w, "write")
  BY <1>3, Idles, WorldParts
<1> DEFINE b == IF w.ra.depth = 0 THEN [RaInit EXCEPT !.depth = w.ra.depth] ELSE w.ra
           q == [b EXCEPT !.depth = w.ra.depth + 1]
<1>5. x = PutRa(w, q)
  <2>1. x = [(IF w.ra.depth = 0 THEN ResetCacheState(w) ELSE w) EXCEPT !.ra.depth = @ + 1]
    BY DEF RaSetEnabled
  <2>2. w.ra.depth = 0 => [RaInit EXCEPT !.depth = w.ra.depth].depth = w.ra.depth
    BY DEF RaInit
  <2> DEFINE c == [RaInit EXCEPT !.depth = w.ra.depth]
  <2>3. CASE w.ra.depth = 0
    <3>1. b = c /\ ResetCacheState(w) = [w EXCEPT !.ra = c]
      BY <2>3 DEF ResetCacheState
    <3>2. x = [[w EXCEPT !.ra = c] EXCEPT !.ra.depth = @ + 1] /\ c.depth = w.ra.depth
      BY <2>1, <2>2, <2>3, <3>1
    <3> HIDE DEF c, b
    <3> QED BY <1>4, <3>1, <3>2 DEF PutRa, Worlds
  <2>4. CASE w.ra.depth # 0
    <3>1. b = w.ra /\ x = [w EXCEPT !.ra.depth = @ + 1]
      BY <2>1, <2>4
    <3> HIDE DEF b
    <3> QED BY <1>4, <3>1 DEF PutRa, Worlds
  <2> QED BY <2>3, <2>4
<1>6. b \in Caches /\ b.depth = w.ra.depth
  BY <1>4, InitCache
<1>7. w.ra.depth = 0 => /\ b.cur = NoSlot /\ b.async = NoSlot /\ b.ready = NoSlot
                        /\ \A s \in Slots : b.slot[s] = EmptySlot
  BY <1>4, InitCache
<1>8. w.ra.depth # 0 => b = w.ra
  OBVIOUS
<1> HIDE DEF b
<1>9. /\ q \in Caches /\ q.depth = w.ra.depth + 1 /\ q.cur = b.cur /\ q.async = b.async
      /\ q.ready = b.ready /\ q.slot = b.slot
  BY <1>4, <1>6, DepthParts
<1> HIDE DEF q
<1>10. x \in Worlds /\ x.fx = w.fx /\ x.wb = w.wb /\ x.ra = q
  BY <1>4, <1>5, <1>9, PutRaParts
<1>11. Shape(x.ra) /\ (o.rc = 0 => Spent(o, x))
  <2>1. CASE w.ra.depth = 0
    BY <1>7, <1>9, <1>10, <2>1, EmptyCache
  <2>2. CASE w.ra.depth # 0
    <3>1. Shape(x.ra)
      BY <1>4, <1>8, <1>9, <1>10, <2>2 DEF Shape
    <3>2. o.rc = 0 => Spent(o, w)
      <4>1. p.ra > 0
        BY <1>3, <1>4, <2>2
      <4> QED BY <1>1, <1>3, <4>1 DEF Reading
    <3>3. Spent(o, w) => Spent(o, x)
      BY <1>8, <1>9, <1>10, <2>2 DEF Spent, Emptied, Remaining
    <3> QED BY <3>1, <3>2, <3>3
  <2> QED BY <2>1, <2>2
<1>12. /\ x.ra.cur = NoSlot \/ build = "asyncread"
       /\ x.ra.async = NoSlot \/ build = "asyncread"
  <2>1. Fetch(w)
    BY <1>3 DEF Calm
  <2> QED BY <1>7, <1>8, <1>9, <1>10, <2>1 DEF Fetch
<1>13. p.image = "no" /\ r.wb = 1 => x.wb.fd = 0 /\ x.wb.len[x.wb.fill] = 0
  BY <1>1, <1>2, <1>3, <1>10 DEF Image
<1>14. SameFile(x, w) /\ x.fx.rpc = NoRequest /\ x.fx.mode = "WAIT"
  BY <1>4, <1>10 DEF SameFile
<1>15. x.ra.depth = r.ra /\ x.wb.depth = r.wb /\ x.wb.async = NoSlot
  BY <1>2, <1>3, <1>4, <1>9, <1>10
<1>16. Good(o, x, r)
  BY <1>1, <1>2, <1>10, <1>11, <1>12, <1>13, <1>14, <1>15, GoodQuiet
<1> QED BY <1>4, <1>10, <1>16 DEF Keeps, Leaves

(* Nothing is asked of the IOP, or answered, by the last drain.            *)
LEMMA DrainIdle ==
  ASSUME NEW w, Calm(w), w.fx.open = 0, NEW y \in RaDrain(w)
  PROVE  /\ y \in Worlds /\ y.fx.rpc = NoRequest /\ y.fx.mode = "WAIT" /\ SameFile(y, w)
         /\ y.wb = w.wb
<1>1. /\ w \in Worlds /\ w.fx.rpc = NoRequest /\ w.fx.mode = "WAIT" /\ ~Busy(w) /\ Reader(w)
      /\ Sound(w)
  BY Idles DEF Reader
<1>2. DrainedTo(w, y)
  BY <1>1, RaDrainOutcome
<1>3. y \in Worlds /\ y.wb = w.wb /\ y.fx.open = w.fx.open /\ y.fx.file = w.fx.file
  BY <1>2 DEF DrainedTo, Moves, Reads, Reader, Sound
<1>4. /\ y.fx.rpc = NoRequest /\ y.fx.mode = "WAIT" /\ y.fx.pos = w.fx.pos
      /\ y.fx.last = w.fx.last
  <2>1. CASE build # "asyncread"
    <3>1. y = Ret(w, 0)
      BY <2>1 DEF RaDrain
    <3>2. y.fx = w.fx
      BY <1>1, <3>1, RetParts
    <3> QED BY <1>1, <3>2
  <2>2. CASE build = "asyncread"
    <3>1. PICK f \in RaFinish(w) : y = Ret(SetMode(f, "WAIT"), Lesser(f.rc, 0))
      BY <2>2 DEF RaDrain
    <3>2. Moves(w, f)
      BY <1>1, RaFinishOutcome
    <3>3. f \in Worlds
      BY <3>2 DEF Moves, Reads, Reader, Sound
    <3>4. f.fx.rpc = NoRequest /\ f.fx.pos = w.fx.pos /\ f.fx.last = w.fx.last
      <4>1. CASE w.ra.async = NoSlot
        <5>1. f.fx = w.fx
          BY <1>1, <4>1, RaFinishOutcome
        <5> QED BY <1>1, <5>1
      <4>2. CASE w.ra.async # NoSlot
        <5>1. PICK z \in WaitAsync(w) :
                \/ /\ z.answered /\ z.rc \in 0..BatchUnits
                   /\ f = PutRa(SetMode(z, "WAIT"),
                                ArrivedCache(z.ra, w.ra.async,
                                             Held(z.ra.slot[w.ra.async].data, z.rc)))
                \/ /\ ~(z.answered /\ z.rc \in 0..BatchUnits)
                   /\ f = Ret(PutRa(SetMode(z, "WAIT"), LostCache(z.ra, w.ra.async)), Failed)
          BY <1>1, <4>2, RaFinishCases
        <5>2. z \in Worlds /\ z.fx.rpc = NoRequest /\ SameFile(z, w)
          <6>1. Sound(z)
            BY <1>1, WaitOutcome
          <6>2. \/ z.fx.rpc = NoRequest /\ SameFile(z, w)
                \/ z.fx.rpc = w.fx.rpc /\ SameFile(z, w)
            BY <1>1, WaitOutcome
          <6> QED BY <1>1, <6>1, <6>2 DEF Sound
        <5>3. f.fx = SetMode(z, "WAIT").fx
          BY <5>1, <5>2 DEF PutRa, Ret, SetMode, Worlds
        <5>4. SetMode(z, "WAIT").fx.rpc = z.fx.rpc /\ SameFile(SetMode(z, "WAIT"), z)
          BY <5>2, ModeParts
        <5> QED BY <5>2, <5>3, <5>4 DEF SameFile
      <4> QED BY <4>1, <4>2
    <3> DEFINE m == SetMode(f, "WAIT")
    <3>5. m.fx.rpc = f.fx.rpc /\ SameFile(m, f) /\ m.fx.mode = "WAIT" /\ m \in Worlds
      BY <3>3, ModeParts
    <3>6. y.fx = m.fx
      <4>1. y = Ret(m, Lesser(f.rc, 0))
        BY <3>1
      <4> HIDE DEF m
      <4> QED BY <3>5, <4>1 DEF Ret, Worlds
    <3> HIDE DEF m
    <3> QED BY <3>4, <3>5, <3>6 DEF SameFile
  <2> QED BY <2>1, <2>2
<1> QED BY <1>3, <1>4 DEF SameFile

LEMMA ReadOff ==
  ASSUME NEW o, NEW w, NEW p, p.ra \in Nat, Good(o, w, p), NEW r, StepOf("raOff", p, r),
         NEW x \in RaSetEnabled(w, FALSE)
  PROVE  Good(o, x, r) /\ Keeps(w, x) /\ x \in Worlds
<1>1. p.at = "none" /\ r = Phase(p.pause, p.ra - 1, p.wb, "none", p.image) /\ p.ra > 0
  BY DEF StepOf
<1>2. r.ra = p.ra - 1 /\ r.wb = p.wb /\ r.at = "none" /\ r.image = p.image
  BY <1>1, PhaseParts
<1>3. /\ Calm(w) /\ w.fx.open = 0 /\ w.ra.depth = p.ra /\ w.wb.depth = p.wb
      /\ Reading(o, w, p) /\ Image(o, w, p)
  BY <1>1 DEF Good, Place
<1>4. /\ w \in Worlds /\ w.fx.rpc = NoRequest /\ w.fx.mode = "WAIT" /\ w.wb.async = NoSlot
      /\ Shape(w.ra) /\ w.ra \in Caches /\ w.ra.depth \in Nat /\ ~Queued(w, "write")
  BY <1>3, Idles, WorldParts
<1>5. p.image = "no" /\ r.wb = 1 => w.wb.fd = 0 /\ w.wb.len[w.wb.fill] = 0
  BY <1>1, <1>2, <1>3 DEF Image
<1>c. RaSetEnabled(w, FALSE) =
         IF w.ra.depth = 0 THEN {w}
         ELSE IF w.ra.depth > 1 THEN {[w EXCEPT !.ra.depth = @ - 1]}
         ELSE {[ResetCacheState(y) EXCEPT !.ra.depth = 0, !.rc = w.rc] : y \in RaDrain(w)}
  BY Zenon DEF RaSetEnabled
<1>6. CASE p.ra > 1
  <2> DEFINE n == w.ra.depth - 1
             q == [w.ra EXCEPT !.depth = n]
  <2>1. x = PutRa(w, q)
    <3>1. x = [w EXCEPT !.ra.depth = @ - 1]
      <4>1. w.ra.depth # 0 /\ w.ra.depth > 1
        BY <1>3, <1>6
      <4> QED BY <1>c, <4>1
    <3> QED BY <3>1 DEF PutRa
  <2>2. n \in Nat /\ n = r.ra
    BY <1>2, <1>3, <1>6
  <2> HIDE DEF n
  <2>3. /\ q \in Caches /\ q.depth = n /\ q.cur = w.ra.cur /\ q.async = w.ra.async
        /\ q.ready = w.ra.ready /\ q.slot = w.ra.slot
    BY <1>4, <2>2, DepthParts
  <2> HIDE DEF q
  <2>4. x \in Worlds /\ x.fx = w.fx /\ x.wb = w.wb /\ x.ra = q
    BY <1>4, <2>1, <2>3, PutRaParts
  <2>5. Shape(x.ra)
    BY <1>4, <2>3, <2>4 DEF Shape
  <2>6. o.rc = 0 => Spent(o, x)
    <3>1. o.rc = 0 => Spent(o, w)
      BY <1>1, <1>3 DEF Reading
    <3>2. Spent(o, w) => Spent(o, x)
      BY <2>3, <2>4 DEF Spent, Emptied, Remaining
    <3> QED BY <3>1, <3>2
  <2>7. /\ x.ra.cur = NoSlot \/ build = "asyncread"
        /\ x.ra.async = NoSlot \/ build = "asyncread"
    <3>1. Fetch(w)
      BY <1>3 DEF Calm
    <3> QED BY <2>3, <2>4, <3>1 DEF Fetch
  <2>8. SameFile(x, w) /\ x.fx.rpc = NoRequest /\ x.fx.mode = "WAIT"
    BY <1>4, <2>4 DEF SameFile
  <2>9. x.ra.depth = r.ra /\ x.wb.depth = r.wb /\ x.wb.async = NoSlot
    BY <1>2, <1>3, <1>4, <2>2, <2>3, <2>4
  <2>10. Good(o, x, r)
    BY <1>1, <1>2, <1>5, <2>4, <2>5, <2>6, <2>7, <2>8, <2>9, GoodQuiet
  <2> QED BY <1>4, <2>4, <2>10 DEF Keeps, Leaves
<1>7. CASE p.ra = 1
  <2>1. PICK y \in RaDrain(w) : x = [ResetCacheState(y) EXCEPT !.ra.depth = 0, !.rc = w.rc]
    <3>1. w.ra.depth # 0 /\ ~(w.ra.depth > 1)
      BY <1>3, <1>7
    <3> QED BY <1>c, <3>1
  <2>2. /\ y \in Worlds /\ y.fx.rpc = NoRequest /\ y.fx.mode = "WAIT" /\ SameFile(y, w)
        /\ y.wb = w.wb
    BY <1>3, DrainIdle
  <2> DEFINE q == [RaInit EXCEPT !.depth = 0]
             u == Ret(y, w.rc)
  <2>3. x = PutRa(u, q)
    BY <2>1, <2>2 DEF PutRa, Ret, ResetCacheState, RaInit, Worlds
  <2>4. u \in Worlds /\ u.fx = y.fx /\ u.wb = y.wb
    BY <1>4, <2>2, RetParts, WorldParts
  <2>5. /\ q \in Caches /\ q.depth = 0 /\ q.cur = NoSlot /\ q.async = NoSlot
        /\ q.ready = NoSlot /\ \A s \in Slots : q.slot[s] = EmptySlot
    BY InitCache
  <2> HIDE DEF q, u
  <2>6. x \in Worlds /\ x.fx = y.fx /\ x.wb = w.wb /\ x.ra = q
    BY <2>2, <2>3, <2>4, <2>5, PutRaParts
  <2>7. Shape(x.ra)
    BY <2>5, <2>6, EmptyCache
  <2>8. SameFile(x, w) /\ x.fx.rpc = NoRequest /\ x.fx.mode = "WAIT"
    BY <2>2, <2>6 DEF SameFile
  <2>9. x.ra.depth = r.ra /\ x.wb.depth = r.wb /\ x.wb.async = NoSlot /\ r.ra = 0
    BY <1>2, <1>3, <1>4, <1>7, <2>5, <2>6
  <2>10. Good(o, x, r)
    BY <1>1, <1>2, <1>5, <2>5, <2>6, <2>7, <2>8, <2>9, GoodQuiet
  <2>11. x.fx.file = w.fx.file
    BY <2>8 DEF SameFile
  <2> QED BY <1>4, <2>6, <2>10, <2>11 DEF Keeps, Leaves
<1> QED BY <1>1, <1>6, <1>7

LEMMA DepthPut ==
  ASSUME NEW w \in Worlds, NEW n \in Nat
  PROVE  LET x == PutDepth(w, n) IN
         /\ x \in Worlds /\ x.fx = w.fx /\ x.ra = w.ra /\ x.rc = w.rc
         /\ x.wb.depth = n /\ x.wb.fd = w.wb.fd /\ x.wb.async = w.wb.async
         /\ x.wb.len = w.wb.len /\ x.wb.fill = w.wb.fill
BY DEF PutDepth, Worlds, Batches

LEMMA NewBatchParts ==
  ASSUME NEW w \in Worlds
  PROVE  LET x == PutNewBatch(w) IN
         /\ x \in Worlds /\ x.fx = w.fx /\ x.ra = w.ra /\ x.rc = w.rc
         /\ x.wb.depth = w.wb.depth /\ x.wb.fd = 0 /\ x.wb.async = NoSlot
         /\ x.wb.len[x.wb.fill] = 0
<1> DEFINE z == [s \in Slots |-> 0]
<1>1. BatchUnits \in Nat /\ 0 \in Slots /\ 0 \in 0..BatchUnits
  BY FileXioAssumption DEF Slots
<1>2. z \in [Slots -> 0..BatchUnits] /\ z[0] = 0
  BY <1>1
<1> HIDE DEF z
<1> QED BY <1>1, <1>2 DEF PutNewBatch, Worlds, Batches, z

LEMMA ResetParts ==
  ASSUME NEW w \in Worlds, NEW n \in Nat, NEW x, x = PutDepth(ResetPipeline(w), n)
  PROVE  /\ x \in Worlds /\ x.ra = w.ra /\ x.rc = w.rc
         /\ SameFile(x, w) /\ x.fx.mode = "WAIT" /\ x.fx.rpc = w.fx.rpc
         /\ x.wb.depth = n /\ x.wb.fd = 0 /\ x.wb.async = NoSlot /\ x.wb.len[x.wb.fill] = 0
<1> DEFINE y == PutNewBatch(w)
           m == SetMode(y, "WAIT")
<1>1. x = PutDepth(m, n)
  BY DEF ResetPipeline, PutNewBatch
<1>2. /\ y \in Worlds /\ y.fx = w.fx /\ y.ra = w.ra /\ y.rc = w.rc
      /\ y.wb.fd = 0 /\ y.wb.async = NoSlot /\ y.wb.len[y.wb.fill] = 0
  BY NewBatchParts
<1> HIDE DEF y
<1>3. /\ m \in Worlds /\ m.wb = y.wb /\ m.ra = y.ra /\ m.rc = y.rc
      /\ SameFile(m, y) /\ m.fx.mode = "WAIT" /\ m.fx.rpc = y.fx.rpc
  BY <1>2, ModeParts DEF SameCall
<1> HIDE DEF m
<1>4. /\ x \in Worlds /\ x.fx = m.fx /\ x.ra = m.ra /\ x.rc = m.rc
      /\ x.wb.depth = n /\ x.wb.fd = m.wb.fd /\ x.wb.async = m.wb.async
      /\ x.wb.len = m.wb.len /\ x.wb.fill = m.wb.fill
  BY <1>1, <1>3, DepthPut
<1> QED BY <1>2, <1>3, <1>4 DEF SameFile

LEMMA WriteOn ==
  ASSUME NEW o, NEW w, NEW p, Good(o, w, p), NEW r, StepOf("wbOn", p, r),
         NEW x \in WbSetEnabled(w, TRUE)
  PROVE  Good(o, x, r) /\ Keeps(w, x) /\ x \in Worlds
<1>1. p.at = "none" /\ r = Phase(p.pause, p.ra, 1, "none", p.image) /\ p.wb = 0
  BY DEF StepOf
<1>2. r.ra = p.ra /\ r.wb = 1 /\ r.at = "none" /\ r.image = p.image
  BY <1>1, PhaseParts
<1>3. /\ Calm(w) /\ w.fx.open = 0 /\ w.ra.depth = p.ra /\ w.wb.depth = p.wb
      /\ Reading(o, w, p) /\ Image(o, w, p)
  BY <1>1 DEF Good, Place
<1>4. /\ w \in Worlds /\ w.fx.rpc = NoRequest /\ w.fx.mode = "WAIT" /\ w.wb.async = NoSlot
      /\ Shape(w.ra) /\ ~Queued(w, "write") /\ w.wb \in Batches
  BY <1>3, Idles, WorldParts
<1>5. x = PutDepth(ResetPipeline(w), 1)
  <2>1. x = [ResetPipeline(w) EXCEPT !.wb.depth = @ + 1]
    BY <1>1, <1>3 DEF WbSetEnabled
  <2>2. ResetPipeline(w).wb.depth = 0
    <3>1. ResetPipeline(w) = SetMode(PutNewBatch(w), "WAIT")
      BY DEF ResetPipeline, PutNewBatch
    <3>2. PutNewBatch(w) \in Worlds /\ PutNewBatch(w).wb.depth = 0
      BY <1>1, <1>3, <1>4, NewBatchParts
    <3> QED BY <3>1, <3>2, ModeParts
  <2> QED BY <2>1, <2>2 DEF PutDepth
<1>7. /\ x \in Worlds /\ x.ra = w.ra /\ x.wb.depth = 1 /\ x.wb.fd = 0
      /\ x.wb.async = NoSlot /\ x.wb.len[x.wb.fill] = 0
      /\ SameFile(x, w) /\ x.fx.mode = "WAIT" /\ x.fx.rpc = w.fx.rpc
  <2>1. 1 \in Nat
    OBVIOUS
  <2> QED BY <1>4, <1>5, <2>1, ResetParts
<1>8. SameFile(x, w) /\ x.fx.rpc = NoRequest /\ x.fx.mode = "WAIT"
  BY <1>4, <1>7
<1>9. o.rc = 0 /\ r.ra > 0 => Spent(o, x)
  <2>1. o.rc = 0 /\ r.ra > 0 => Spent(o, w)
    BY <1>1, <1>2, <1>3 DEF Reading
  <2>2. x.ra = w.ra
    BY <1>7
  <2> QED BY <2>1, <2>2, SpentSame
<1>10. /\ x.ra.cur = NoSlot \/ build = "asyncread"
       /\ x.ra.async = NoSlot \/ build = "asyncread"
  <2>1. Fetch(w)
    BY <1>3 DEF Calm
  <2> QED BY <1>4, <1>7, <2>1 DEF Fetch
<1>11. x.ra.depth = r.ra /\ x.wb.depth = r.wb
  BY <1>2, <1>3, <1>7
<1>12. Good(o, x, r)
  <2>1. x.ra.async = NoSlot \/ build = "asyncread"
    BY <1>10
  <2>2. Shape(x.ra)
    BY <1>4, <1>7
  <2> QED BY <1>1, <1>2, <1>7, <1>8, <1>9, <1>10, <1>11, <2>1, <2>2, GoodQuiet
<1>13. x.fx.file = w.fx.file
  BY <1>8 DEF SameFile
<1> QED BY <1>4, <1>7, <1>12, <1>13 DEF Keeps, Leaves

LEMMA WriteOff ==
  ASSUME NEW o, NEW w, NEW p, Good(o, w, p), NEW r, StepOf("wbOff", p, r),
         NEW x \in WbSetEnabled(w, FALSE)
  PROVE  Good(o, x, r) /\ Keeps(w, x) /\ x \in Worlds
<1>1. p.at = "none" /\ r = Phase(p.pause, p.ra, 0, "none", p.image) /\ p.wb = 1
  BY DEF StepOf
<1>2. r.ra = p.ra /\ r.wb = 0 /\ r.at = "none" /\ r.image = p.image
  BY <1>1, PhaseParts
<1>3. /\ Calm(w) /\ w.fx.open = 0 /\ w.ra.depth = p.ra /\ w.wb.depth = p.wb
      /\ Reading(o, w, p) /\ Image(o, w, p)
  BY <1>1 DEF Good, Place
<1>4. /\ w \in Worlds /\ w.fx.rpc = NoRequest /\ w.fx.mode = "WAIT" /\ w.wb.async = NoSlot
      /\ Shape(w.ra) /\ ~Queued(w, "write") /\ Sound(w) /\ Pending(w) /\ w.rc \in Int
  BY <1>3, Idles, WorldParts DEF Calm
<1>c. WbSetEnabled(w, FALSE) =
         IF w.wb.depth = 0 THEN {w}
         ELSE IF w.wb.depth > 1 THEN {[w EXCEPT !.wb.depth = @ - 1]}
         ELSE {[ResetPipeline(y) EXCEPT !.wb.depth = 0, !.rc = w.rc] : y \in WbDrain(w)}
  BY Zenon DEF WbSetEnabled
<1>5. PICK y \in WbDrain(w) : x = [ResetPipeline(y) EXCEPT !.wb.depth = 0, !.rc = w.rc]
  <2>1. w.wb.depth # 0 /\ ~(w.wb.depth > 1)
    BY <1>1, <1>3
  <2> QED BY <1>c, <2>1
<1>6. /\ y \in Worlds /\ y.ra = w.ra /\ SameFile(y, w) /\ y.fx.rpc = w.fx.rpc
  <2>1. Drained(w, y)
    BY <1>4, DrainOutcome
  <2> QED BY <1>4, <2>1 DEF Drained, Sound
<1> DEFINE v == PutDepth(ResetPipeline(y), 0)
<1>7. x = Ret(v, w.rc)
  BY <1>5 DEF PutDepth, Ret
<1>8. /\ v \in Worlds /\ v.ra = y.ra /\ v.wb.depth = 0 /\ v.wb.async = NoSlot
      /\ SameFile(v, y) /\ v.fx.mode = "WAIT" /\ v.fx.rpc = y.fx.rpc
  <2>1. 0 \in Nat
    OBVIOUS
  <2> QED BY <1>6, <2>1, ResetParts
<1> HIDE DEF v
<1>10. x \in Worlds /\ x.fx = v.fx /\ x.ra = v.ra /\ x.wb = v.wb
  BY <1>4, <1>7, <1>8, RetParts
<1>11. SameFile(x, w) /\ x.fx.rpc = NoRequest /\ x.fx.mode = "WAIT"
  BY <1>4, <1>6, <1>8, <1>10 DEF SameFile
<1>12. x.ra = w.ra /\ x.wb.depth = 0 /\ x.wb.async = NoSlot
  BY <1>6, <1>8, <1>10
<1>13. o.rc = 0 /\ r.ra > 0 => Spent(o, x)
  <2>1. o.rc = 0 /\ r.ra > 0 => Spent(o, w)
    BY <1>1, <1>2, <1>3 DEF Reading
  <2> QED BY <1>12, <2>1, SpentSame
<1>14. /\ x.ra.cur = NoSlot \/ build = "asyncread"
       /\ x.ra.async = NoSlot \/ build = "asyncread"
  <2>1. Fetch(w)
    BY <1>3 DEF Calm
  <2> QED BY <1>12, <2>1 DEF Fetch
<1>15. x.ra.depth = r.ra /\ x.wb.depth = r.wb /\ Shape(x.ra)
  BY <1>2, <1>3, <1>4, <1>10, <1>12
<1>16. Good(o, x, r)
  BY <1>1, <1>2, <1>10, <1>11, <1>12, <1>13, <1>14, <1>15, GoodQuiet
<1>17. x.fx.file = w.fx.file
  BY <1>11 DEF SameFile
<1> QED BY <1>4, <1>10, <1>16, <1>17 DEF Keeps, Leaves

(* ------------------------------ the engine ----------------------------- *)
(* An open between two image files: the cache and the batch stay as they   *)
(* are.                                                                    *)
LEMMA OpenCalm ==
  ASSUME NEW w, Calm(w), w.fx.open = 0, NEW fd \in Fds, NEW f, f = w.fx.file \/ f = <<>>,
         NEW x \in OpenCall(w, fd, f)
  PROVE  /\ Calm(x) /\ x \in Worlds /\ x.wb = w.wb /\ x.ra = w.ra /\ x.fx.rpc = NoRequest
         /\ x.out = w.out
         /\ \/ /\ x.rc = fd /\ x.fx.last = fd
               /\ x.fx.open = fd /\ x.fx.pos = 0 /\ x.fx.file = f
            \/ x.rc = Failed /\ x.fx.open = 0 /\ x.fx.file = w.fx.file
<1>1. /\ w \in Worlds /\ Sound(w) /\ w.fx.rpc = NoRequest /\ w.fx.mode = "WAIT"
      /\ w.wb.async = NoSlot /\ Fetch(w) /\ w.fx.file = Units(Size(w)) /\ Size(w) <= ImageUnits
      /\ w.fx.pos <= ImageUnits
  BY Idles DEF Calm, Pending
<1>2. w.fx.file \in Seq(Int) /\ f \in Seq(Int)
  <2>1. w.fx.file \in Seq(Int)
    BY <1>1, WorldParts
  <2>2. <<>> \in Seq(Int)
    OBVIOUS
  <2> QED BY <2>1, <2>2
<1>3. /\ Sound(x) /\ x.wb = w.wb /\ x.ra = w.ra /\ x.fx.mode = w.fx.mode
      /\ x.fx.rpc = NoRequest /\ x.out = w.out
      /\ \/ /\ x.rc = fd /\ x.fx.last = fd
            /\ x.fx.open = fd /\ x.fx.pos = 0 /\ x.fx.file = f
         \/ /\ x.rc = Failed /\ x.fx.open = 0 /\ x.fx.pos = w.fx.pos
            /\ x.fx.file = w.fx.file
  BY <1>1, <1>2, OpenOutcome
<1>4. x.fx.file \in {w.fx.file, <<>>} /\ x.fx.pos <= ImageUnits
  <2>1. 0 <= ImageUnits
    BY FileXioAssumption
  <2> QED BY <1>1, <1>3, <2>1
<1>5. x.fx.file = Units(Size(x)) /\ Size(x) <= ImageUnits
  <2>1. CASE x.fx.file = w.fx.file
    BY <1>1, <2>1 DEF Size
  <2>2. CASE x.fx.file = <<>>
    <3>1. Size(x) = 0 /\ ImageUnits \in Nat
      BY <2>2, FileXioAssumption DEF Size
    <3>2. Units(0) = <<>>
      BY DEF Units
    <3> QED BY <2>2, <3>1, <3>2
  <2> QED BY <1>4, <2>1, <2>2
<1>6. Pending(x)
  <2>1. ~Queued(x, "write") /\ x.wb.async = NoSlot
    BY <1>1, <1>3 DEF Queued, NoRequest
  <2> QED BY <1>5, <2>1, PendingQuiet
<1>7. Fetch(x)
  BY <1>1, <1>3, FetchSame
<1>8. Calm(x)
  BY <1>1, <1>3, <1>4, <1>6, <1>7 DEF Calm
<1> QED BY <1>3, <1>8 DEF Sound

LEMMA CreateGood ==
  ASSUME NEW o, NEW w, NEW p, Good(o, w, p), NEW r, StepOf("create", p, r), o.rc = 0,
         NEW fd \in Fds, NEW x \in OpenCall(w, fd, <<>>),
         NEW u, u.kind = o.kind, u.rc = Lesser(x.rc, 0), u.bad = o.bad, u.pages = o.pages,
         u.got = o.got, u.sealed = o.sealed, u.checked = o.checked, u.formatted = o.formatted
  PROVE  /\ Good(u, x, r) /\ Keeps(w, x) /\ x \in Worlds /\ u.rc \in {0, Failed}
         /\ (u.rc = 0 <=> x.fx.open # 0) /\ x.fx.file = <<>> /\ u.pages = 0
         /\ o.kind \in Exports /\ ~o.sealed
<1>1. /\ p.at = "none" /\ InScope(p) /\ p.wb = 1 /\ p.image = "no"
      /\ r = Phase(p.pause, p.ra, p.wb, "making", p.image)
  BY DEF StepOf
<1>2. r.pause = p.pause /\ r.ra = p.ra /\ r.wb = 1 /\ r.at = "making" /\ r.image = "no"
  BY <1>1, PhaseParts
<1>3. /\ Calm(w) /\ Told(o, w) /\ w.fx.open = 0 /\ w.ra.depth = p.ra /\ w.wb.depth = p.wb
      /\ Place(o, w, p) /\ Image(o, w, p) /\ Reading(o, w, p)
  BY <1>1 DEF Good, Place
<1>4. /\ w.fx.file = <<>> /\ o.pages = 0 /\ w.wb.fd = 0 /\ w.wb.len[w.wb.fill] = 0
      /\ o.kind \in Exports /\ ~o.sealed /\ ~o.formatted /\ o.got = <<>> /\ o.bad = 0
  BY <1>1, <1>3 DEF Image, Reading
<1>5. /\ Calm(x) /\ x \in Worlds /\ x.wb = w.wb /\ x.ra = w.ra /\ x.fx.rpc = NoRequest
      /\ \/ u.rc = 0 /\ x.fx.open = fd /\ x.fx.pos = 0 /\ x.fx.file = <<>>
         \/ u.rc = Failed /\ x.fx.open = 0 /\ x.fx.file = w.fx.file
  <2>1. fd \in Nat /\ fd # 0
    BY FileXioAssumption
  <2>2. (x.rc = fd => u.rc = 0) /\ (x.rc = Failed => u.rc = Failed)
    BY <2>1 DEF Lesser, Failed
  <2> QED BY <1>3, <2>2, OpenCalm
<1>6. x.fx.file = <<>> /\ fd # 0 /\ Failed # 0 /\ BadEcc # Failed /\ BadEcc # 0
  BY <1>4, <1>5, FileXioAssumption DEF Failed, BadEcc
<1>7. ~Queued(x, "write") /\ ~Queued(x, "read") /\ x.fx.rpc.st = "none" /\ x.wb.async = NoSlot
  BY <1>3, <1>5, Idles DEF Queued, NoRequest
<1>8. Told(u, x)
  BY <1>4, <1>5, ToldNone
<1>9. Place(u, x, r)
  BY <1>1, <1>2, <1>5, <1>6, <1>7 DEF Place, InScope
<1>10. Making(u, x, r)
  <2>1. CASE u.rc = 0
    <3>1. Taken(u) = 0 /\ 0 < ImageUnits /\ Taken(u) < ImageUnits
      BY <1>4, FileXioAssumption DEF Taken
    <3>2. Base(x) = 0
      <4>1. Size(x) = 0
        BY <1>6 DEF Size
      <4> QED BY <1>7, <4>1 DEF Base
    <3>3. Fed(x, Base(x))
      <4>1. Multiple(Base(x), BatchUnits) /\ Base(x) \in Nat /\ Base(x) <= ImageUnits
        <5>1. 0 = 0 * BatchUnits
          BY FileXioAssumption
        <5>2. 0 \in Nat /\ 0 <= ImageUnits
          BY <3>1, FileXioAssumption
        <5> HIDE DEF Base
        <5> QED BY <3>2, <5>1, <5>2 DEF Multiple
      <4>2. x.wb.async # x.wb.fill
        BY <1>5, <1>7, WorldParts, SMTT(30) DEF Slots, NoSlot
      <4>3. x.wb.len[x.wb.fill] = 0 /\ Pending(x)
        BY <1>4, <1>5 DEF Calm
      <4> HIDE DEF Base
      <4> QED BY <1>7, <4>1, <4>2, <4>3, FedStart
    <3>4. Fed(x, Taken(u))
      BY <3>1, <3>2, <3>3
    <3> QED BY <1>2, <1>4, <1>5, <1>7, <3>1, <3>4 DEF Making
  <2>2. CASE u.rc # 0
    BY <1>2, <1>4, <1>5, <1>7, <2>2 DEF Making
  <2> QED BY <2>1, <2>2
<1>11. Image(u, x, r)
  BY <1>2, <1>4, <1>5, <1>6 DEF Image
<1>12. Reading(u, x, r)
  <2>1. u.rc = 0 /\ r.ra > 0 => Spent(o, w)
    BY <1>1, <1>2, <1>3 DEF Reading
  <2>2. Spent(o, w) => Spent(u, x)
    BY <1>5, SpentSame
  <2> QED BY <1>2, <1>4, <2>1, <2>2 DEF Reading
<1>13. Good(u, x, r)
  BY <1>1, <1>2, <1>3, <1>5, <1>8, <1>9, <1>10, <1>11, <1>12 DEF Good
<1>14. Keeps(w, x)
  BY <1>4, <1>5, <1>6 DEF Keeps, Leaves
<1>15. u.rc = 0 <=> x.fx.open # 0
  BY <1>5, <1>6
<1> QED BY <1>4, <1>5, <1>6, <1>13, <1>14, <1>15

(* A pass over the image starts at its first unit, however far the cache   *)
(* had read in an earlier one; but a prefetch that is still outstanding is *)
(* taken for one of as many units as the descriptor's number.              *)
LEMMA StartPass ==
  ASSUME NEW x, x.fx.rpc = NoRequest, x.fx.pos = 0, x.fx.file = Units(ImageUnits), Emptied(x),
         x \in Worlds, Shape(x.ra), x.ra.async = NoSlot \/ x.ra.fd # x.fx.open
  PROVE  Positioned(x, 0)
<1>0. x.fx.rpc.st = "none" /\ ~Arrived(x)
  BY DEF NoRequest, Arrived
<1>1. \A s \in Slots : Unread(x, s) \in Seq(Int) /\ Len(Unread(x, s)) = Remaining(x, s)
  BY UnreadParts DEF Shape
<1>2. \A t \in Seq(Int) : Len(t) = 0 => Run(t, 0)
  BY DEF Run
<1>5. CASE x.ra.fd # x.fx.open
  BY <1>0, <1>5 DEF Positioned
<1>3. CASE build = "asyncread" /\ x.ra.async = NoSlot
  <2>1. Ahead(x, 0) = 0 /\ (x.ra.cur # NoSlot => Run(Unread(x, x.ra.cur), 0))
    BY <1>1, <1>2, <1>3, WorldParts DEF Emptied, Ahead
  <2>2. x.ra.ready # NoSlot => /\ Run(x.ra.slot[x.ra.ready].data, 0)
                               /\ Len(x.ra.slot[x.ra.ready].data) = 0
    <3>1. <<>> \in Seq(Int) /\ Len(<<>>) = 0
      OBVIOUS
    <3>2. ASSUME x.ra.ready # NoSlot PROVE x.ra.slot[x.ra.ready].data = <<>>
      BY <1>3, <3>2 DEF Emptied
    <3>3. Run(<<>>, 0)
      BY <1>2, <3>1
    <3> QED BY <3>1, <3>2, <3>3
  <2>3. Prefetched(x, 0)
    <3>1. 0 = 0 + 0 /\ x.fx.rpc.st # "queued"
      BY <1>0
    <3>2. x.ra.ready # NoSlot => x.fx.pos = Ahead(x, 0) + Len(x.ra.slot[x.ra.ready].data)
      BY <2>1, <2>2
    <3>3. x.ra.async = NoSlot /\ x.fx.pos = Ahead(x, 0)
      BY <1>3, <2>1
    <3> QED BY <2>1, <2>2, <3>1, <3>2, <3>3 DEF Prefetched
  <2> QED BY <1>0, <1>3, <2>3 DEF Positioned, Lined
<1>4. CASE build # "asyncread"
  <2>1. Remaining(x, 0) = 0 /\ 0 \in Slots
    BY <1>4 DEF Emptied, Slots
  <2>2. Run(Unread(x, 0), 0)
    BY <1>1, <1>2, <2>1
  <2> QED BY <1>0, <1>4, <2>1, <2>2 DEF Positioned, Lined
<1> QED BY <1>3, <1>4, <1>5

LEMMA LatePass ==
  ASSUME NEW x, x.fx.rpc = NoRequest, x.fx.pos = 0, x.fx.file = Units(ImageUnits), Emptied(x),
         x \in Worlds, Shape(x.ra), build = "asyncread", x.ra.async # NoSlot,
         x.fx.last = x.fx.open, x.ra.fd = x.fx.open
  PROVE  Positioned(x, 0 - x.fx.open)
<1> DEFINE n == x.fx.open
<1>0. x.fx.rpc.st = "none" /\ ~Arrived(x) /\ x.ra.ready = NoSlot /\ n \in Int
  BY FileXioAssumption, WorldParts DEF NoRequest, Arrived, Shape
<1>1. \A s \in Slots : Unread(x, s) \in Seq(Int) /\ Len(Unread(x, s)) = Remaining(x, s)
  BY UnreadParts DEF Shape
<1>2. \A c : \A t \in Seq(Int) : Len(t) = 0 => Run(t, c)
  BY DEF Run
<1> HIDE DEF n
<1>3. Ahead(x, 0 - n) = 0 - n /\ (x.ra.cur # NoSlot => Run(Unread(x, x.ra.cur), 0 - n))
  BY <1>0, <1>1, <1>2, WorldParts DEF Emptied, Ahead
<1>4. Forgotten(x, Ahead(x, 0 - n))
  BY <1>0, <1>3 DEF Forgotten, n
<1>5. Prefetched(x, 0 - n)
  BY <1>0, <1>3, <1>4 DEF Prefetched, Emptied
<1> QED BY <1>5 DEF Positioned, Lined, n

LEMMA OpenGood ==
  ASSUME NEW o, NEW w, NEW p, Good(o, w, p), NEW s, NEW r, StepOf(s, p, r),
         \/ s = "open" /\ o.rc = 0
         \/ s = "openLocate" /\ o.rc = BadEcc,
         NEW fd \in Fds, NEW x \in OpenCall(w, fd, w.fx.file),
         NEW u, u.kind = o.kind, u.rc = IF x.rc < 0 THEN x.rc ELSE o.rc, u.bad = o.bad,
         u.pages = 0, u.got = <<>>, u.sealed = o.sealed, u.checked = o.checked,
         u.formatted = o.formatted
  PROVE  Good(u, x, r) /\ Keeps(w, x) /\ x \in Worlds /\ x.rc \in Fds \cup {Failed}
<1> DEFINE at == IF s = "open" THEN "reading" ELSE "locating"
<1>1. /\ p.at = "none" /\ InScope(p) /\ p.image # "no"
      /\ r = Phase(p.pause, p.ra, p.wb, at, p.image)
  BY DEF StepOf
<1>2. r.pause = p.pause /\ r.ra = p.ra /\ r.wb = p.wb /\ r.at = at /\ r.image = p.image
  BY <1>1, PhaseParts
<1>3. /\ Calm(w) /\ Told(o, w) /\ w.fx.open = 0 /\ w.ra.depth = p.ra /\ w.wb.depth = p.wb
      /\ Place(o, w, p) /\ Image(o, w, p) /\ Reading(o, w, p)
  BY <1>1 DEF Good, Place
<1>5. /\ Calm(x) /\ x \in Worlds /\ x.wb = w.wb /\ x.ra = w.ra /\ x.fx.rpc = NoRequest
      /\ \/ /\ x.rc = fd /\ x.fx.last = fd
            /\ x.fx.open = fd /\ x.fx.pos = 0 /\ x.fx.file = w.fx.file
         \/ x.rc = Failed /\ x.fx.open = 0 /\ x.fx.file = w.fx.file
  BY <1>3, OpenCalm
<1>6. x.fx.file = w.fx.file /\ fd # 0 /\ fd \in Nat /\ ~(fd < 0)
  BY <1>5, FileXioAssumption
<1>7. ~Queued(x, "write") /\ x.wb.async = NoSlot
  BY <1>3, <1>5, Idles DEF Queued, NoRequest
<1>8. Told(u, x)
  BY <1>3, <1>5, <1>6, ToldNone DEF Told
<1>a. u.rc = 0 => s = "open" /\ o.rc = 0 /\ x.rc = fd
  BY <1>5, <1>6 DEF Failed, BadEcc
<1>b. u.rc \in {0, Failed, BadEcc} /\ (u.rc = BadEcc => s = "openLocate" /\ o.rc = BadEcc)
  BY <1>5, <1>6 DEF Failed, BadEcc
<1>c. at = "locating" /\ x.fx.open # 0 => u.rc = BadEcc
  BY <1>3, <1>5, <1>6 DEF Failed
<1>9. Place(u, x, r)
  <2>1. u.rc = 0 => x.fx.open # 0
    BY <1>5, <1>6, <1>a DEF Failed
  <2>2. at \in {"reading", "locating"}
    OBVIOUS
  <2> HIDE DEF at
  <2> QED BY <1>1, <1>2, <1>7, <1>c, <2>1, <2>2 DEF Place, InScope
<1>10. Making(u, x, r)
  BY <1>2 DEF Making
<1>11. Image(u, x, r)
  BY <1>1, <1>2, <1>3, <1>b, <1>a DEF Image
<1>12. Reading(u, x, r)
  <2>1. CASE u.rc = 0
    <3>1. w.fx.file = Units(ImageUnits) /\ Spent(o, w)
      BY <1>1, <1>3, <1>a, <2>1 DEF Reading, InScope
    <3>2. Shape(x.ra) /\ Fetch(x)
      BY <1>5 DEF Calm, Sound
    <3>3. Spent(u, x)
      BY <1>5, <3>1, SpentSame
    <3>7. /\ x.fx.pos = 0 /\ x.fx.file = Units(ImageUnits) /\ x.fx.last = x.fx.open
          /\ x.fx.open = fd
      BY <1>5, <1>6, <1>a, <2>1, <3>1 DEF Failed
    <3>8. \E b \in Shifts(u) : b \in Nat /\ Positioned(x, 0 - b)
      <4>1. CASE x.ra.async # NoSlot /\ x.ra.fd = x.fx.open
        <5>1. build = "asyncread" /\ u.checked
          BY <3>2, <3>3, <4>1 DEF Fetch, Spent
        <5>2. fd \in Shifts(u)
          BY <5>1 DEF Shifts
        <5>3. Positioned(x, 0 - fd)
          BY <1>5, <3>2, <3>3, <3>7, <4>1, <5>1, LatePass DEF Spent
        <5> QED BY <1>6, <5>2, <5>3
      <4>2. CASE ~(x.ra.async # NoSlot /\ x.ra.fd = x.fx.open)
        <5>1. Positioned(x, 0)
          BY <1>5, <3>2, <3>3, <3>7, <4>2, StartPass DEF Spent
        <5>2. 0 \in Shifts(u) /\ 0 - 0 = 0
          BY DEF Shifts
        <5> QED BY <5>1, <5>2
      <4> QED BY <4>1, <4>2
    <3>4. Taken(u) = 0 /\ Len(u.got) = 0 /\ Taken(u) < ImageUnits /\ ~(u.pages > 0)
      BY FileXioAssumption DEF Taken
    <3>5. Tracks(u, x)
      <4>1. PICK b \in Shifts(u) : b \in Nat /\ Positioned(x, 0 - b)
        BY <3>8
      <4>2. Run(u.got, 0 - b)
        BY DEF Run
      <4>3. Positioned(x, Taken(u) - b)
        BY <3>4, <4>1
      <4> QED BY <4>1, <4>2, <4>3 DEF Tracks
    <3>6. at = "reading"
      BY <1>a, <2>1
    <3> HIDE DEF at
    <3> QED BY <1>2, <1>6, <2>1, <3>1, <3>4, <3>5, <3>6 DEF Reading
  <2>2. CASE u.rc # 0
    BY <1>1, <1>2, <2>2 DEF Reading
  <2> QED BY <2>1, <2>2
<1>13. Good(u, x, r)
  BY <1>1, <1>2, <1>3, <1>5, <1>8, <1>9, <1>10, <1>11, <1>12 DEF Good
<1>14. Keeps(w, x)
  <2>1. ~Queued(w, "write")
    BY <1>3, Idles
  <2> QED BY <1>6, <2>1 DEF Keeps, Leaves
<1> QED BY <1>5, <1>13, <1>14

(* A failure while the image is being made: nothing but the batch moved.   *)
LEMMA MadeLess ==
  ASSUME NEW o, NEW w, NEW p, Good(o, w, p), p.at \in {"making", "filled"}, o.rc = 0,
         NEW r, r.at \in {"making", "filled"}, r.ra = p.ra, r.wb = p.wb, r.image = p.image,
         r.pause = p.pause, w.fx.open # 0,
         NEW x, Sound(x), Pending(x), ~Queued(x, "read"), x.ra = w.ra,
         x.fx.open = w.fx.open, x.fx.pos = w.fx.pos,
         x.fx.rpc \in {w.fx.rpc, NoRequest} \/ build = "asyncwrite",
         x.wb.depth = w.wb.depth, x.wb.fd \in {0, x.fx.open},
         NEW u, u.kind = o.kind, u.bad = o.bad, u.got = o.got, u.sealed = o.sealed,
         u.checked = o.checked, u.formatted = o.formatted, u.rc \in {0, Failed},
         u.rc = 0 => /\ Fed(x, Taken(u)) /\ (r.at = "making" => Taken(u) < ImageUnits)
                     /\ (r.at = "filled" => Taken(u) = ImageUnits)
  PROVE  Good(u, x, r)
<1>1. /\ Calm(w) /\ Told(o, w) /\ w.ra.depth = p.ra /\ w.wb.depth = p.wb
      /\ Place(o, w, p) /\ Making(o, w, p) /\ Image(o, w, p) /\ Reading(o, w, p)
  BY DEF Good
<1>2. /\ p.wb = 1 /\ p.image = "no" /\ InScope(p)
  BY <1>1 DEF Making, Place
<1>3. /\ o.kind \in Exports /\ ~o.sealed /\ ~o.formatted /\ o.got = <<>> /\ o.bad = 0
  BY <1>1, <1>2 DEF Image, Reading
<1>4. x \in Worlds
  BY DEF Sound
<1>5. Fetch(x)
  <2>1. Fetch(w)
    BY <1>1 DEF Calm
  <2>2. CASE x.fx.rpc = w.fx.rpc
    BY <2>1, <2>2, FetchSame
  <2>3. CASE x.fx.rpc = NoRequest
    <3>1. x.fx.rpc.st = "none"
      BY <2>3 DEF NoRequest
    <3> QED BY <2>1, <3>1 DEF Fetch
  <2>4. CASE build = "asyncwrite"
    <3>1. w.ra.cur = NoSlot /\ w.ra.async = NoSlot
      BY <2>1, <2>4 DEF Fetch
    <3> QED BY <3>1 DEF Fetch
  <2> QED BY <2>2, <2>3, <2>4
<1>6. Calm(x)
  BY <1>1, <1>5 DEF Calm
<1>7. Told(u, x)
  BY <1>3, <1>4, ToldNone
<1>8. Place(u, x, r)
  BY <1>2 DEF Place, InScope
<1>9. Making(u, x, r)
  BY <1>2 DEF Making
<1>10. Image(u, x, r)
  <2>1. Failed # BadEcc /\ 0 # BadEcc
    BY DEF Failed, BadEcc
  <2> QED BY <1>2, <1>3, <2>1 DEF Image
<1>11. Reading(u, x, r)
  <2>1. u.rc = 0 /\ r.ra > 0 => Spent(o, w)
    BY <1>1 DEF Reading
  <2>2. Spent(o, w) => Spent(u, x)
    BY SpentSame
  <2> QED BY <1>2, <1>3, <2>1, <2>2 DEF Reading
<1> QED BY <1>1, <1>6, <1>7, <1>8, <1>9, <1>10, <1>11 DEF Good

LEMMA FedFd ==
  ASSUME NEW w \in Worlds, NEW a, Fed(w, a), NEW fd \in Fds, NEW y, y = PutFd(Ret(w, 0), fd)
  PROVE  /\ y \in Worlds /\ y.fx = w.fx /\ y.ra = w.ra /\ y.rc = 0 /\ Fed(y, a)
         /\ y.wb.depth = w.wb.depth /\ y.wb.fill = w.wb.fill /\ y.wb.buf = w.wb.buf
         /\ y.wb.fd = fd
<1> DEFINE v == Ret(w, 0)
<1>1. v \in Worlds /\ v.fx = w.fx /\ v.wb = w.wb /\ v.ra = w.ra /\ v.rc = 0
  <2>1. 0 \in Int
    OBVIOUS
  <2> QED BY <2>1, RetParts
<1> HIDE DEF v
<1>2. /\ y \in Worlds /\ y.fx = v.fx /\ y.ra = v.ra /\ y.rc = v.rc
      /\ y.wb.depth = v.wb.depth /\ y.wb.fill = v.wb.fill /\ y.wb.buf = v.wb.buf
      /\ y.wb.fd = fd /\ y.wb.async = v.wb.async /\ y.wb.expected = v.wb.expected
      /\ y.wb.len = v.wb.len
  <2>1. y = PutFd(v, fd) /\ fd \in Fds \cup {0}
    BY DEF v
  <2> QED BY <1>1, <2>1, FdParts DEF SameCall
<1>3. Pending(w)
  BY DEF Fed
<1>4. Pending(y) /\ Base(y) = Base(w)
  BY <1>1, <1>2, <1>3, PendingSame
<1>5. Fed(y, a)
  <2> HIDE DEF Base
  <2> QED BY <1>1, <1>2, <1>4 DEF Fed
<1> QED BY <1>1, <1>2, <1>5

LEMMA RecordGood ==
  ASSUME NEW o, o.pages \in Nat, NEW w, NEW p, Good(o, w, p), NEW r, StepOf("record", p, r),
         o.rc = 0, NEW y \in Reserve(w, w.fx.open),
         NEW x, \/ y.rc < 0 /\ x = y
                \/ x \in Commit(y, y.fx.open, Record(Taken(o)))
                \/ x \in {Fault(y) : n \in 1..y.fx.faults},
         NEW u, u.kind = o.kind, u.bad = o.bad, u.got = o.got, u.sealed = o.sealed,
         u.checked = o.checked, u.formatted = o.formatted, u.rc = IF x.rc < 0 THEN x.rc ELSE 0,
         u.pages = IF x.rc < 0 THEN o.pages ELSE o.pages + 1,
         NEW q, q = IF x.rc < 0 \/ Taken(u) = ImageUnits THEN r ELSE p
  PROVE  /\ Good(u, x, q) /\ Leaves(w, x) /\ x \in Worlds /\ Size(w) <= Size(x)
         /\ x.fx.open = w.fx.open /\ w.fx.open # 0 /\ x.rc \in {0, Failed}
<1> DEFINE a == Taken(o)
           fd == w.fx.open
<1>1. p.at = "making" /\ r = Phase(p.pause, p.ra, p.wb, "filled", p.image)
  BY DEF StepOf
<1>2. r.pause = p.pause /\ r.ra = p.ra /\ r.wb = p.wb /\ r.at = "filled" /\ r.image = p.image
  BY <1>1, PhaseParts
<1>3. /\ Calm(w) /\ fd # 0 /\ Fed(w, a) /\ a < ImageUnits /\ w.wb.fd \in {0, fd}
      /\ ~Queued(w, "read")
  BY <1>1 DEF Good, Place, Making
<1>4. /\ w \in Worlds /\ Sound(w) /\ Pending(w) /\ fd \in Fds /\ Size(w) \in Nat
  BY <1>3, WorldParts, PendingParts DEF Calm, Sound
<1>a. a = o.pages * RecordUnits
  BY DEF Taken
<1> HIDE DEF a, fd
<1>5. y = PutFd(Ret(w, 0), fd)
  <2>1. y \in Reserve(w, fd)
    BY DEF fd
  <2> QED BY <1>3, <1>4, <2>1, ReserveOutcome
<1>6. /\ y \in Worlds /\ y.fx = w.fx /\ y.ra = w.ra /\ y.rc = 0 /\ Fed(y, a)
      /\ y.wb.depth = w.wb.depth /\ y.wb.fill = w.wb.fill /\ y.wb.buf = w.wb.buf
      /\ y.wb.fd = fd
  BY <1>3, <1>4, <1>5, FedFd
<1>7. Sound(y)
  BY <1>4, <1>6, SoundSame DEF SameFile
<1>8. ~Queued(y, "read") /\ y.fx.open = fd
  BY <1>3, <1>6 DEF Queued, fd
<1>9. CASE x \in {Fault(y) : n \in 1..y.fx.faults}
  <2>1. /\ x \in Worlds /\ x.wb = y.wb /\ x.ra = y.ra /\ SameFile(x, y) /\ x.rc = Failed
        /\ x.fx.rpc = y.fx.rpc
    BY <1>6, <1>9, FaultParts
  <2>2. Sound(x)
    BY <1>7, <2>1, SoundSame
  <2>3. Pending(x) /\ Size(x) = Size(y)
    BY <1>6, <2>1, PendingSame DEF Fed, SameFile
  <2>4. ~Queued(x, "read")
    BY <1>8, <2>1 DEF Queued
  <2>5. u.rc = Failed /\ u.rc # 0 /\ q = r /\ u.rc \in {0, Failed}
    BY <2>1 DEF Failed
  <2>6. x.fx.open = w.fx.open /\ x.fx.pos = w.fx.pos /\ x.fx.rpc = w.fx.rpc
    BY <1>6, <2>1 DEF SameFile
  <2>7. x.wb.depth = w.wb.depth /\ x.wb.fd \in {0, x.fx.open} /\ w.fx.open # 0
    BY <1>3, <1>6, <2>1, <2>6 DEF fd
  <2>8. Good(u, x, r)
    BY <1>1, <1>2, <1>6, <2>1, <2>2, <2>3, <2>4, <2>5, <2>6, <2>7, MadeLess
  <2>9. Leaves(w, x)
    BY <1>6, <2>1 DEF Leaves
  <2>10. Size(w) <= Size(x)
    <3>1. Size(y) = Size(w)
      BY <1>6 DEF Size
    <3> HIDE DEF Size
    <3> QED BY <1>4, <2>3, <3>1
  <2> QED BY <2>1, <2>5, <2>6, <2>7, <2>8, <2>9, <2>10
<1>10. CASE x \in Commit(y, y.fx.open, Record(Taken(o)))
  <2>1. x \in Commit(y, y.wb.fd, Record(a))
    BY <1>6, <1>8, <1>10 DEF a
  <2>2. /\ Kept(y, x) /\ \A t \in Slots : t # y.wb.fill => x.wb.buf[t] = y.wb.buf[t]
        /\ x.rc = 0 => Fed(x, a + RecordUnits)
    <3>1. y.fx.open # 0
      BY <1>3, <1>8
    <3> QED BY <1>3, <1>6, <1>7, <1>8, <2>1, <3>1, CommitOutcome
  <2>3. /\ Sound(x) /\ Pending(x) /\ ~Queued(x, "read") /\ x.rc \in {0, Failed}
        /\ x.fx.open = fd /\ x.fx.pos = w.fx.pos /\ x.ra = w.ra
        /\ x.wb.depth = w.wb.depth /\ x.wb.fd = fd
        /\ Size(y) <= Size(x)
        /\ x.fx.rpc \in {w.fx.rpc, NoRequest} \/ build = "asyncwrite"
    <3>1. Kept(y, x)
      BY <2>2
    <3> QED BY <1>6, <1>8, <3>1 DEF Kept
  <2>4. w.fx.open = fd /\ x.fx.open = w.fx.open /\ w.fx.open # 0 /\ x.wb.fd \in {0, x.fx.open}
    BY <1>3, <2>3 DEF fd
  <2>5. ASSUME x.rc = Failed PROVE Good(u, x, q)
    <3>1. u.rc = Failed /\ u.rc # 0 /\ q = r /\ u.rc \in {0, Failed}
      BY <2>5 DEF Failed
    <3>2. r.at \in {"making", "filled"} /\ p.at \in {"making", "filled"}
      BY <1>1, <1>2
    <3> QED BY <1>2, <2>3, <2>4, <3>1, <3>2, MadeLess
  <2>6. ASSUME x.rc = 0 PROVE Good(u, x, q)
    <3>1. u.rc = 0 /\ u.pages = o.pages + 1 /\ u.rc \in {0, Failed}
      BY <2>6
    <3>2. Taken(u) = a + RecordUnits
      BY <1>a, <3>1, FileXioAssumption DEF Taken
    <3>3. Fed(x, Taken(u))
      BY <2>2, <2>6, <3>2
    <3>4. Taken(u) <= ImageUnits /\ Taken(u) \in Nat
      BY <2>3, <3>3, FedParts
    <3>5. q = IF Taken(u) = ImageUnits THEN r ELSE p
      BY <2>6
    <3> DEFINE b == Taken(u)
    <3>6. b # ImageUnits => b < ImageUnits
      <4>1. ImageUnits \in Nat
        BY FileXioAssumption
      <4> HIDE DEF b
      <4> QED BY <3>4, <4>1 DEF b
    <3>7. /\ q.ra = p.ra /\ q.wb = p.wb /\ q.image = p.image /\ q.pause = p.pause
          /\ q.at \in {"making", "filled"} /\ p.at \in {"making", "filled"}
          /\ q.at = "making" => Taken(u) < ImageUnits
          /\ q.at = "filled" => Taken(u) = ImageUnits
      BY <1>1, <1>2, <3>5, <3>6
    <3> HIDE DEF b
    <3> QED BY <2>3, <2>4, <3>1, <3>3, <3>7, MadeLess
  <2>7. Good(u, x, q)
    BY <2>3, <2>5, <2>6
  <2>8. Leaves(w, x)
    <3> SUFFICES ASSUME Queued(w, "write")
                 PROVE  x.wb.buf[w.fx.rpc.slot] = w.wb.buf[w.fx.rpc.slot]
      BY DEF Leaves
    <3>1. w.wb.fill # w.fx.rpc.slot
      BY <1>4 DEF Sound
    <3>2. w.fx.rpc.slot \in Slots
      <4>1. w.fx.rpc \in Requests
        BY <1>4, WorldParts
      <4> QED BY <4>1, RequestParts DEF Queued
    <3> QED BY <1>6, <2>2, <3>1, <3>2
  <2>9. Size(w) <= Size(x)
    <3>1. Size(y) = Size(w)
      BY <1>6 DEF Size
    <3> QED BY <2>3, <3>1
  <2> QED BY <2>3, <2>4, <2>7, <2>8, <2>9 DEF Sound
<1> QED BY <1>6, <1>9, <1>10

(* The image is closed: if that succeeds all of it is in the file, and a   *)
(* part of one is removed.                                                 *)
LEMMA FinishGood ==
  ASSUME NEW o, o.rc \in {0, Failed, BadEcc}, NEW w, NEW p, Good(o, w, p),
         NEW r, StepOf("finish", p, r), w.fx.open # 0,
         NEW y \in WrapClose(w), NEW x, x = IF o.rc < 0 THEN PutFile(y, <<>>) ELSE y,
         NEW u, u.kind = o.kind, u.rc = IF o.rc < 0 THEN o.rc ELSE Lesser(x.rc, 0),
         u.bad = o.bad,
         u.pages = o.pages, u.got = o.got, u.sealed = (o.rc = 0 /\ x.rc = 0),
         u.checked = o.checked, u.formatted = o.formatted
  PROVE  /\ Good(u, x, r) /\ Leaves(w, x) /\ x \in Worlds /\ x.fx.open = 0
         /\ o.kind \in Exports /\ ~o.sealed /\ x.rc \in {0, Failed} /\ o.rc \in {0, Failed}
         /\ o.rc < 0 => x.fx.file = <<>>
         /\ o.rc = 0 => Size(w) <= Size(x) /\ Taken(o) = ImageUnits
         /\ o.rc = 0 /\ x.rc = 0 => x.fx.file = Units(ImageUnits)
<1>1. p.at = "filled" /\ r = Phase(p.pause, p.ra, p.wb, "none", "made")
  BY DEF StepOf
<1>2. r.pause = p.pause /\ r.ra = p.ra /\ r.wb = p.wb /\ r.at = "none" /\ r.image = "made"
  BY <1>1, PhaseParts
<1>3. /\ Calm(w) /\ Told(o, w) /\ w.ra.depth = p.ra /\ w.wb.depth = p.wb
      /\ Place(o, w, p) /\ Making(o, w, p) /\ Image(o, w, p) /\ Reading(o, w, p)
  BY DEF Good
<1>4. /\ p.wb = 1 /\ p.image = "no" /\ ~Queued(w, "read") /\ InScope(p)
      /\ o.rc = 0 => Fed(w, Taken(o)) /\ Taken(o) = ImageUnits
  BY <1>1, <1>3 DEF Making, Place
<1>5. /\ o.kind \in Exports /\ ~o.sealed /\ ~o.formatted /\ o.got = <<>> /\ o.bad = 0
      /\ o.rc # BadEcc
  BY <1>3, <1>4 DEF Image, Reading
<1>6. /\ Sound(w) /\ Pending(w) /\ w.fx.pos <= ImageUnits /\ Fetch(w)
  BY <1>3 DEF Calm
<1>7. Shut(w, y)
  <2>1. w.wb.depth # 0
    BY <1>3, <1>4
  <2> QED BY <1>6, <2>1, WrapCloseOutcome
<1>8. /\ y \in Worlds /\ Sound(y) /\ Pending(y) /\ y.fx.rpc = NoRequest /\ y.fx.open = 0
      /\ y.fx.mode = "WAIT" /\ y.wb.async = NoSlot /\ y.wb.depth = w.wb.depth
      /\ y.rc \in {0, Failed} /\ y.ra = w.ra /\ y.fx.pos <= ImageUnits
      /\ Size(w) <= Size(y)
  BY <1>4, <1>6, <1>7 DEF Shut, Sound
<1>9. /\ x \in Worlds /\ x.wb = y.wb /\ x.ra = y.ra /\ x.rc = y.rc
      /\ x.fx.open = 0 /\ x.fx.pos = y.fx.pos /\ x.fx.mode = "WAIT" /\ x.fx.rpc = NoRequest
      /\ x.fx.file = IF o.rc < 0 THEN <<>> ELSE y.fx.file
  <2>1. CASE o.rc < 0
    <3> DEFINE f == <<>>
    <3>1. x = PutFile(y, f) /\ f \in Seq(Int) /\ y \in Worlds
      BY <1>8, <2>1
    <3> HIDE DEF f
    <3>2. /\ PutFile(y, f) \in Worlds /\ PutFile(y, f).wb = y.wb /\ PutFile(y, f).ra = y.ra
          /\ SameCall(PutFile(y, f), y) /\ PutFile(y, f).fx.file = f
          /\ PutFile(y, f).fx.open = y.fx.open /\ PutFile(y, f).fx.pos = y.fx.pos
          /\ PutFile(y, f).fx.mode = y.fx.mode /\ PutFile(y, f).fx.rpc = y.fx.rpc
      BY <3>1, FileParts
    <3>3. x.rc = y.rc
      BY <3>1, <3>2 DEF SameCall
    <3>4. f = <<>>
      BY DEF f
    <3> QED BY <1>8, <2>1, <3>1, <3>2, <3>3, <3>4
  <2>2. CASE ~(o.rc < 0)
    BY <1>8, <2>2
  <2> QED BY <2>1, <2>2
<1>10. o.rc \in {0, Failed} /\ 0 # Failed /\ 0 # BadEcc /\ Failed # BadEcc /\ Failed < 0
       /\ ~(0 < 0)
  BY <1>5 DEF Failed, BadEcc
<1>11. Calm(y)
  <2>1. Fetch(y)
    <3>1. y.fx.rpc.st = "none"
      BY <1>8 DEF NoRequest
    <3> QED BY <1>6, <1>8, <3>1 DEF Fetch
  <2> QED BY <1>8, <2>1 DEF Calm
<1>12. Calm(x)
  <2>1. Shape(x.ra)
    BY <1>8, <1>9 DEF Sound
  <2>2. /\ x.ra.cur = NoSlot \/ build = "asyncread"
        /\ x.ra.async = NoSlot \/ build = "asyncread"
    BY <1>6, <1>8, <1>9 DEF Fetch
  <2>3. x.fx.file = y.fx.file \/ x.fx.file = <<>>
    BY <1>9
  <2> QED BY <1>8, <1>9, <1>11, <2>1, <2>2, <2>3, QuietCalm
<1>13. o.rc = 0 /\ x.rc = 0 => x.fx.file = Units(ImageUnits)
  <2> SUFFICES ASSUME o.rc = 0, x.rc = 0 PROVE x.fx.file = Units(ImageUnits)
    OBVIOUS
  <2>1. Fed(w, Taken(o)) /\ Taken(o) = ImageUnits
    BY <1>4
  <2>2. Base(w) = ImageUnits
    <3>1. Fed(w, ImageUnits)
      BY <2>1
    <3> DEFINE b == Base(w)
               n == w.wb.len[w.wb.fill]
    <3>2. /\ ImageUnits = b + n /\ (ImageUnits = ImageUnits => n = 0) /\ b \in Nat
      BY <1>6, <3>1, FedParts
    <3> HIDE DEF b, n
    <3>3. b = ImageUnits
      BY <3>2
    <3> QED BY <3>3 DEF b
  <2>3. Size(y) = ImageUnits
    <3>1. CASE w.wb.async # NoSlot
      <4>1. Size(y) = Base(w)
        BY <1>7, <1>9, <3>1 DEF Shut
      <4> QED BY <2>2, <4>1
    <3>2. CASE w.wb.async = NoSlot
      <4>1. ~Queued(w, "write")
        BY <2>1, <3>2 DEF Fed, Queued
      <4>2. y.fx.file = w.fx.file
        BY <1>7, <3>2, <4>1 DEF Shut
      <4>3. Base(w) = Size(w)
        BY <1>6, <3>2, PendingParts
      <4> QED BY <2>2, <4>2, <4>3 DEF Size
    <3> QED BY <3>1, <3>2
  <2>4. y.fx.file = Units(Size(y))
    BY <1>8 DEF Pending
  <2> QED BY <1>9, <1>10, <2>3, <2>4
<1>14. u.rc \in {0, Failed} /\ (u.sealed <=> u.rc = 0) /\ (u.rc = 0 => o.rc = 0 /\ x.rc = 0)
  <2>1. x.rc \in {0, Failed} /\ Lesser(x.rc, 0) = x.rc
    BY <1>8, <1>9 DEF Lesser, Failed
  <2> QED BY <1>10, <2>1
<1>15. Told(u, x)
  BY <1>5, <1>9, <1>13, <1>14, ToldNone
<1>16. Place(u, x, r) /\ Making(u, x, r)
  BY <1>2, <1>8, <1>9 DEF Place, Making, Queued, NoRequest
<1>17. Image(u, x, r)
  BY <1>2, <1>5, <1>10, <1>14 DEF Image
<1>18. Reading(u, x, r)
  <2>1. u.rc = 0 /\ r.ra > 0 => Spent(o, w)
    BY <1>1, <1>2, <1>3, <1>14 DEF Reading
  <2>2. Spent(o, w) => Spent(u, x)
    BY <1>8, <1>9, SpentSame
  <2> QED BY <1>2, <1>13, <1>14, <2>1, <2>2 DEF Reading
<1>19. Good(u, x, r)
  BY <1>2, <1>3, <1>8, <1>9, <1>12, <1>15, <1>16, <1>17, <1>18 DEF Good
<1>20. Leaves(w, x)
  <2>1. x.fx.rpc.st # "queued"
    BY <1>9 DEF NoRequest
  <2> QED BY <2>1 DEF Leaves, Queued
<1>21. o.rc = 0 => Size(w) <= Size(x) /\ Taken(o) = ImageUnits
  <2>1. o.rc = 0 => Size(x) = Size(y)
    BY <1>9, <1>10 DEF Size
  <2> HIDE DEF Size
  <2> QED BY <1>4, <1>8, <2>1
<1> QED BY <1>5, <1>8, <1>9, <1>10, <1>13, <1>19, <1>20, <1>21

(* All of the image was read: nothing is left in the cache.                *)
LEMMA LastParts ==
  ASSUME NEW w \in Worlds
  PROVE  w.fx.last \in Int /\ w.fx.last >= 0 - 1
<1>1. w.fx.last \in Fds \cup {0, Failed}
  BY DEF Worlds, Clients
<1>2. \A fd \in Fds : fd \in Nat
  BY FileXioAssumption
<1>3. CASE w.fx.last \in Fds
  <2>1. w.fx.last \in Nat
    BY <1>2, <1>3
  <2> QED BY <2>1
<1>4. CASE w.fx.last \in {0, Failed}
  BY <1>4 DEF Failed
<1> QED BY <1>1, <1>3, <1>4

LEMMA EndPass ==
  ASSUME NEW w, Calm(w), w.fx.open # 0, w.ra.fd = w.fx.open, Positioned(w, ImageUnits)
  PROVE  Emptied(w) /\ (Queued(w, "read") => w.fx.pos = ImageUnits)
<1>1. /\ w \in Worlds /\ Shape(w.ra) /\ w.fx.pos <= ImageUnits /\ w.fx.pos \in Nat
      /\ Lined(w, ImageUnits) /\ ImageUnits \in Nat
  BY WorldParts, FileXioAssumption DEF Calm, Sound, Positioned
<1>2. \A s \in Slots : Remaining(w, s) \in Nat /\ Len(w.ra.slot[s].data) \in Nat
  BY <1>1, UnreadParts, WorldParts DEF Shape
<1>3. CASE build = "asyncread"
  <2>1. Prefetched(w, ImageUnits)
    BY <1>1, <1>3 DEF Lined
  <2> DEFINE c == w.ra.cur
             n == IF c = NoSlot THEN 0 ELSE Remaining(w, c)
             d == IF w.ra.ready = NoSlot THEN <<>> ELSE w.ra.slot[w.ra.ready].data
             pos == w.fx.pos
             k == w.fx.rpc.result
  <2>2. n \in Nat /\ (c # NoSlot => n = Remaining(w, c)) /\ Ahead(w, ImageUnits) = ImageUnits + n
    BY <1>1, <1>2, WorldParts DEF Ahead
  <2>3. d \in Seq(Int) /\ (w.ra.ready # NoSlot => d = w.ra.slot[w.ra.ready].data)
    BY <1>1, WorldParts
  <2>4. \/ pos = ImageUnits + n + Len(d) /\ w.ra.ready # NoSlot
        \/ pos = ImageUnits + n + k /\ k >= 0 /\ k \in Int /\ w.ra.ready = NoSlot
        \/ pos = ImageUnits + n /\ w.ra.ready = NoSlot
        \/ n = 0 /\ w.ra.ready = NoSlot
    <3>1. CASE w.ra.ready # NoSlot
      <4>1. pos = Ahead(w, ImageUnits) + Len(d)
        BY <2>1, <2>3, <3>1 DEF Prefetched
      <4> HIDE DEF d, n, pos
      <4> QED BY <2>2, <3>1, <4>1
    <3>2. CASE w.ra.ready = NoSlot /\ w.ra.async # NoSlot /\ Arrived(w)
      <4>1. pos = Ahead(w, ImageUnits) + k
        BY <2>1, <3>2 DEF Prefetched
      <4>2. k >= 0 /\ k \in Int
        <5>1. w.fx.rpc \in Requests /\ w.fx.rpc.st = "done" /\ k >= 0
          BY <1>1, <3>2, WorldParts DEF Arrived
        <5>2. k \in {Failed} \cup (0..BatchUnits)
          BY <5>1, RequestParts
        <5> QED BY <5>1, <5>2, FileXioAssumption DEF Failed
      <4> HIDE DEF k, n, pos
      <4> QED BY <2>2, <3>2, <4>1, <4>2
    <3>3. CASE w.ra.ready = NoSlot /\ ~(w.ra.async # NoSlot /\ Arrived(w))
      <4>1. \/ pos = Ahead(w, ImageUnits)
            \/ Forgotten(w, Ahead(w, ImageUnits))
        BY <2>1, <3>3 DEF Prefetched
      <4>2. ASSUME Forgotten(w, Ahead(w, ImageUnits)) PROVE n = 0
        <5>1. Ahead(w, ImageUnits) + w.fx.last = 0
          BY <4>2 DEF Forgotten
        <5>2. w.fx.last \in Int /\ w.fx.last >= 0 - 1 /\ ImageUnits >= 1
          BY <1>1, FileXioAssumption, WorldParts, LastParts DEF Failed
        <5> HIDE DEF n
        <5> QED BY <1>1, <2>2, <5>1, <5>2
      <4> HIDE DEF n, pos
      <4> QED BY <2>2, <3>3, <4>1, <4>2
    <3> QED BY <3>1, <3>2, <3>3
  <2>5. n = 0 /\ (w.ra.ready # NoSlot => d = <<>>)
    <3>0. pos \in Nat /\ pos <= ImageUnits /\ d \in Seq(Int)
      BY <1>1, <2>3
    <3>1. Len(d) \in Nat /\ (Len(d) = 0 => d = <<>>) /\ pos \in Nat /\ pos <= ImageUnits
      <4> HIDE DEF d, n, k, pos
      <4> QED BY <3>0, EmptySeq
    <3> HIDE DEF d, n, k, pos
    <3> QED BY <1>1, <2>2, <2>4, <3>1
  <2>6. Ahead(w, ImageUnits) = ImageUnits
    <3> HIDE DEF n
    <3> QED BY <1>1, <2>2, <2>5
  <2>7. ASSUME w.ra.async # NoSlot PROVE w.ra.slot[w.ra.async].data = <<>>
    <3>1. CASE ~Arrived(w)
      BY <2>1, <2>7, <3>1 DEF Prefetched
    <3>2. CASE Arrived(w)
      <4> DEFINE e == w.ra.slot[w.ra.async].data
      <4>1. Len(e) = k /\ pos = Ahead(w, ImageUnits) + k /\ k >= 0
        BY <2>1, <2>7, <3>2 DEF Prefetched, Arrived
      <4>2. e \in Seq(Int)
        BY <1>1, <2>7, WorldParts
      <4>3. Len(e) \in Nat /\ (Len(e) = 0 => e = <<>>)
        <5> HIDE DEF e
        <5> QED BY <4>2, EmptySeq
      <4>4. pos \in Nat /\ pos <= ImageUnits
        BY <1>1
      <4> HIDE DEF e, k, pos
      <4>5. k = 0
        BY <1>1, <2>6, <4>1, <4>3, <4>4
      <4> QED BY <4>1, <4>3, <4>5 DEF e
    <3> QED BY <3>1, <3>2
  <2>8. ASSUME Queued(w, "read") PROVE w.fx.pos = ImageUnits
    <3>1. w.fx.rpc.st = "queued" /\ ~Arrived(w)
      BY <2>8 DEF Queued, Arrived
    <3>2. w.ra.async # NoSlot
      BY <2>1, <3>1 DEF Prefetched
    <3>3. w.fx.pos = Ahead(w, ImageUnits)
      BY <2>1, <3>1, <3>2 DEF Prefetched
    <3> QED BY <2>6, <3>3
  <2> HIDE DEF n, d, pos, k
  <2> QED BY <1>3, <2>2, <2>3, <2>5, <2>7, <2>8 DEF Emptied
<1>4. CASE build # "asyncread"
  <2>1. w.fx.pos = ImageUnits + Remaining(w, 0) /\ 0 \in Slots
    BY <1>1, <1>4 DEF Lined, Slots
  <2>2. Remaining(w, 0) = 0
    BY <1>1, <1>2, <2>1
  <2>3. ~Queued(w, "read")
    BY <1>4 DEF Calm, Sound
  <2> QED BY <1>4, <2>2, <2>3 DEF Emptied
<1> QED BY <1>3, <1>4

LEMMA CloseGood ==
  ASSUME NEW o, o.pages \in Nat, NEW w, NEW p, Good(o, w, p), NEW r, StepOf("close", p, r),
         w.fx.open # 0, NEW x \in WrapClose(w)
  PROVE  Good(o, x, r) /\ Keeps(w, x) /\ x \in Worlds
<1>1. p.at \in {"read", "locating"} /\ r = Phase(p.pause, p.ra, p.wb, "none", p.image)
  BY DEF StepOf
<1>2. r.pause = p.pause /\ r.ra = p.ra /\ r.wb = p.wb /\ r.at = "none" /\ r.image = p.image
  BY <1>1, PhaseParts
<1>3. /\ Calm(w) /\ Told(o, w) /\ w.ra.depth = p.ra /\ w.wb.depth = p.wb
      /\ Place(o, w, p) /\ Making(o, w, p) /\ Image(o, w, p) /\ Reading(o, w, p)
  BY DEF Good
<1>4. w.wb.async = NoSlot /\ ~Queued(w, "write") /\ p.image # "no" /\ InScope(p)
  BY <1>1, <1>3 DEF Place
<1>5. Sound(w) /\ Pending(w) /\ w.fx.pos <= ImageUnits /\ Fetch(w) /\ w.ra \in Caches
  BY <1>3, WorldParts DEF Calm, Sound
<1>6. Shut(w, x)
  BY <1>4, <1>5, WrapCloseOutcome
<1>7. /\ x \in Worlds /\ Sound(x) /\ Pending(x) /\ x.fx.rpc = NoRequest /\ x.fx.open = 0
      /\ x.fx.mode = "WAIT" /\ x.wb.async = NoSlot /\ x.wb.depth = w.wb.depth
      /\ x.fx.pos <= ImageUnits /\ x.fx.file = w.fx.file
      /\ SameCache(x, w) /\ SameCur(x, w) /\ SameEnd(x, w)
      /\ (~Queued(w, "read") => x.ra = w.ra)
  BY <1>4, <1>5, <1>6 DEF Shut, Sound
<1>8. x.fx.rpc.st = "none" /\ ~Queued(x, "write") /\ ~Queued(x, "read")
  BY <1>7 DEF NoRequest, Queued
<1>9. Calm(x)
  <2>1. Fetch(x)
    BY <1>5, <1>7, <1>8 DEF Fetch, SameCache
  <2> QED BY <1>7, <2>1 DEF Calm
<1>10. Told(o, x)
  BY <1>3, <1>7 DEF Told
<1>11. Place(o, x, r) /\ Making(o, x, r)
  BY <1>2, <1>4, <1>7, <1>8 DEF Place, Making
<1>12. Image(o, x, r)
  BY <1>2, <1>3, <1>4 DEF Image
<1>13. Reading(o, x, r)
  <2>1. o.rc = 0 => Spent(o, x)
    <3> SUFFICES ASSUME o.rc = 0 PROVE Spent(o, x)
      OBVIOUS
    <3>1. p.at = "read"
      BY <1>1, <1>3 DEF Place, BadEcc
    <3>2. /\ Taken(o) = ImageUnits /\ Positioned(w, ImageUnits) /\ o.checked
          /\ o.pages > 0 => w.ra.fd = w.fx.open
      BY <1>3, <3>1 DEF Reading
    <3>3. o.pages > 0
      BY <3>2, FileXioAssumption DEF Taken
    <3>4. Emptied(w) /\ (Queued(w, "read") => w.fx.pos = ImageUnits)
      BY <1>3, <3>2, <3>3, EndPass
    <3>5. Emptied(x)
      <4>1. CASE ~Queued(w, "read")
        BY <1>7, <3>4, <4>1 DEF Emptied, Remaining
      <4>2. CASE Queued(w, "read")
        <5>1. build = "asyncread" /\ w.ra.ready = NoSlot /\ w.fx.rpc.st = "queued"
          BY <1>5, <4>2 DEF Sound, Queued
        <5>2. Len(w.fx.file) = ImageUnits
          BY <3>2, FileXioAssumption, UnitsParts DEF Positioned
        <5>3. w.ra.async # NoSlot =>
                 w.fx.rpc.slot = w.ra.async /\ w.ra.slot[w.ra.async].data = <<>>
          BY <1>5, <3>4, <5>1 DEF Fetch, Emptied
        <5>4. w.ra.async # NoSlot => x.ra.slot[w.ra.async].data = <<>>
          BY <1>7, <3>4, <4>2, <5>2, <5>3 DEF SameEnd
        <5>5. w.ra.cur # NoSlot =>
                 Remaining(w, w.ra.cur) = 0 /\ x.ra.slot[w.ra.cur] = w.ra.slot[w.ra.cur]
          BY <1>7, <3>4, <5>1 DEF Emptied, SameCur
        <5> QED BY <1>7, <5>1, <5>4, <5>5 DEF Emptied, SameCache, Remaining
      <4> QED BY <4>1, <4>2
    <3> QED BY <3>2, <3>5 DEF Spent
  <2> QED BY <1>2, <1>3, <1>4, <1>7, <2>1 DEF Reading
<1>14. Good(o, x, r)
  <2>1. x.ra.depth = w.ra.depth
    BY <1>7 DEF SameCache
  <2> QED BY <1>2, <1>3, <1>7, <1>9, <1>10, <1>11, <1>12, <1>13, <2>1 DEF Good
<1> QED BY <1>4, <1>7, <1>14 DEF Keeps, Leaves

(* A record is read from the image, or a failure is reported.              *)
LEMMA ReadCalm ==
  ASSUME NEW o, NEW w, NEW p, Good(o, w, p), p.at \in {"reading", "locating"}, p.ra \in Nat,
         w.fx.open # 0, w.rc = 0, w.out = <<>>, NEW x \in ReadExact(w)
  PROVE  /\ Exact(w, x) /\ Calm(x) /\ x \in Worlds /\ Keeps(w, x) /\ x.wb = w.wb
         /\ x.fx.open = w.fx.open /\ x.ra.depth = w.ra.depth
         /\ x.wb.async = NoSlot /\ ~Queued(x, "write") /\ x.rc \in {0, Failed}
<1>1. /\ Calm(w) /\ Told(o, w) /\ w.ra.depth = p.ra /\ w.wb.depth = p.wb /\ Place(o, w, p)
  BY DEF Good
<1>2. w.wb.async = NoSlot /\ ~Queued(w, "write") /\ p.ra > 0
  BY <1>1 DEF Place, InScope
<1>3. Reader(w) /\ w.ra.depth # 0
  BY <1>1, <1>2 DEF Reader, Calm
<1>4. Exact(w, x)
  BY <1>3, ReadExactOutcome
<1>5. /\ Reader(x) /\ x.wb = w.wb /\ x.fx.open = w.fx.open /\ x.fx.file = w.fx.file
      /\ x.ra.depth = w.ra.depth /\ x.rc \in {0, Failed}
  BY <1>4 DEF Exact, Reads
<1>6. Sound(x) /\ Fetch(x) /\ ~Queued(x, "write") /\ x \in Worlds
  BY <1>5 DEF Reader, Sound
<1>7. Pending(x) /\ Size(x) <= ImageUnits
  <2>1. x.fx.file = Units(Size(x)) /\ Size(x) <= ImageUnits
    BY <1>1, <1>5 DEF Calm, Pending, Size
  <2> QED BY <1>2, <1>5, <1>6, <2>1, PendingQuiet
<1>8. x.fx.pos <= ImageUnits
  <2>1. x.fx.pos <= Len(x.fx.file) /\ x.fx.pos \in Nat /\ Len(x.fx.file) \in Nat
    BY <1>5, <1>6, WorldParts DEF Sound
  <2> QED BY <1>7, <2>1, FileXioAssumption DEF Size
<1>9. Calm(x)
  BY <1>5, <1>6, <1>7, <1>8 DEF Calm
<1> QED BY <1>2, <1>4, <1>5, <1>6, <1>9 DEF Keeps, Leaves

(* The record after the first a units of the image is the last one, or     *)
(* there is another one.                                                   *)
LEMMA NextRecord ==
  ASSUME NEW n \in Nat, n * RecordUnits < ImageUnits
  PROVE  /\ (n + 1) * RecordUnits = n * RecordUnits + RecordUnits
         /\ (n + 1) * RecordUnits <= ImageUnits
         /\ n * RecordUnits \in Nat /\ (n + 1) * RecordUnits \in Nat
<1> DEFINE a == n * RecordUnits
<1>1. a \in Nat /\ Multiple(a, RecordUnits) /\ a < ImageUnits
  BY FileXioAssumption DEF Multiple
<1>2. RecordUnits \in Nat \ {0} /\ ImageUnits \in Nat /\ Multiple(ImageUnits, RecordUnits)
  <2>1. Multiple(ImageUnits, BatchUnits) /\ Multiple(BatchUnits, RecordUnits)
    BY FileXioAssumption, DividesMultiple
  <2> QED BY <2>1, FileXioAssumption, MultipleOf
<1>3. (n + 1) * RecordUnits = a + RecordUnits
  BY FileXioAssumption
<1> HIDE DEF a
<1>4. a + RecordUnits <= ImageUnits
  BY <1>1, <1>2, MultipleStep
<1>5. (n + 1) * RecordUnits \in Nat
  BY <1>1, <1>2, <1>3
<1> QED BY <1>1, <1>3, <1>4, <1>5 DEF a

(* A verification or a restore takes one record further, or fails: what    *)
(* the pass is before, what the operation is after, and where it leads.    *)
Passing(o, w, p, x) ==
    /\ o.pages \in Nat /\ o.got \in Seq(Int) /\ o.checked \in BOOLEAN /\ o.rc = 0
    /\ Good(o, w, p) /\ p.at = "reading" /\ p.ra \in Nat
    /\ w.rc = 0 /\ w.out = <<>> /\ x \in ReadExact(w)
Passed(o, x, u) ==
    /\ u.kind = o.kind /\ u.bad = o.bad /\ u.sealed = o.sealed /\ u.formatted = o.formatted
    /\ \/ u.got = o.got /\ u.pages = o.pages /\ u.rc = Failed
       \/ x.rc >= 0 /\ u.got = o.got \o x.out /\ u.pages = o.pages + 1
    /\ u.rc \in {0, Failed, BadEcc} /\ (u.rc = BadEcc => o.bad # 0)
    /\ u.checked \in BOOLEAN /\ (o.checked => u.checked)
Whither(o, p, r, u, q) ==
    /\ q = r \/ q = p
    /\ q = p => u.checked = o.checked
    /\ q = r /\ u.rc = 0 => u.checked /\ (u.got = Units(ImageUnits) \/ ~o.checked)
    /\ u.rc = 0 => (q = p <=> Taken(u) < ImageUnits)
LEMMA ReadGood ==
  ASSUME NEW o, NEW w, NEW p, NEW x, Passing(o, w, p, x), NEW u, Passed(o, x, u),
         NEW r, r = Phase(p.pause, p.ra, p.wb, "read", Seen(p.image)),
         NEW q, Whither(o, p, r, u, q)
  PROVE  Good(u, x, q) /\ Keeps(w, x) /\ x \in Worlds
<1> USE DEF Passing, Passed, Whither
<1>1. /\ Calm(w) /\ Told(o, w) /\ w.ra.depth = p.ra /\ w.wb.depth = p.wb
      /\ Place(o, w, p) /\ Making(o, w, p) /\ Image(o, w, p) /\ Reading(o, w, p)
  BY DEF Good
<1>2. w.fx.open # 0 /\ p.image # "no" /\ InScope(p)
  BY <1>1 DEF Place
<1>3. /\ Exact(w, x) /\ Calm(x) /\ x \in Worlds /\ Keeps(w, x) /\ x.wb = w.wb
      /\ x.fx.open = w.fx.open /\ x.ra.depth = w.ra.depth
      /\ x.wb.async = NoSlot /\ ~Queued(x, "write") /\ x.rc \in {0, Failed}
  BY <1>2, ReadCalm
<1>4. /\ r.pause = p.pause /\ r.ra = p.ra /\ r.wb = p.wb /\ r.at = "read"
      /\ r.image = Seen(p.image)
  BY PhaseParts
<1>5. /\ q.pause = p.pause /\ q.ra = p.ra /\ q.wb = p.wb
      /\ q.image = p.image \/ (q.image = Seen(p.image) /\ q = r)
      /\ q.at \in {"reading", "read"} /\ (q.at = "reading" <=> q = p)
  BY <1>4
<1>6. x.fx.file = w.fx.file
  BY <1>3 DEF Keeps
<1>7. /\ w.fx.file = Units(ImageUnits) /\ Len(o.got) = Taken(o) /\ Tracks(o, w)
      /\ Taken(o) < ImageUnits /\ Taken(o) \in Nat
  <2>1. Taken(o) \in Nat
    BY FileXioAssumption DEF Taken
  <2> QED BY <1>1, <1>2, <2>1 DEF Reading
<1>8. Len(x.fx.file) = ImageUnits
  <2>1. Len(Units(ImageUnits)) = ImageUnits
    BY FileXioAssumption, UnitsParts
  <2> QED BY <1>6, <1>7, <2>1
<1>9. ~(0 < 0) /\ Failed < 0 /\ 0 # Failed /\ 0 # BadEcc /\ Failed # BadEcc
  BY DEF Failed, BadEcc
<1>10. Shifts(o) \subseteq Shifts(u) /\ (\A b \in Shifts(o) : b \in Int)
  BY FileXioAssumption DEF Shifts
<1>11. PICK b \in Shifts(o) : Run(o.got, 0 - b) /\ Positioned(w, Taken(o) - b)
  BY <1>7 DEF Tracks
<1>12. b \in Int /\ b \in Shifts(u)
  BY <1>10
<1>13. CASE u.got = o.got /\ u.pages = o.pages /\ u.rc = Failed
  <2>1. Told(u, x)
    BY <1>1, <1>6, <1>7, <1>8, <1>11, <1>12, <1>13 DEF Told
  <2>2. Place(u, x, q) /\ Making(u, x, q)
    BY <1>2, <1>3, <1>4, <1>5, <1>9, <1>13 DEF Place, Making, InScope, Seen
  <2>3. Image(u, x, q)
    BY <1>1, <1>2, <1>4, <1>5, <1>9, <1>13 DEF Image, Seen
  <2>4. Reading(u, x, q)
    BY <1>2, <1>4, <1>5, <1>9, <1>13 DEF Reading, Seen
  <2> QED BY <1>1, <1>3, <1>5, <2>1, <2>2, <2>3, <2>4 DEF Good
<1>14. CASE x.rc >= 0 /\ u.got = o.got \o x.out /\ u.pages = o.pages + 1
  <2>0. x.rc = 0
    BY <1>3, <1>14 DEF Failed
  <2> DEFINE a == Taken(o)
             z == 0 - b
             m == Taken(u)
  <2>1. a \in Nat /\ z \in Int /\ a < ImageUnits /\ Len(o.got) = a /\ a - b = z + a
    <3> HIDE DEF a
    <3> QED BY <1>7, <1>12 DEF a
  <2>2. m = a + RecordUnits /\ m <= ImageUnits /\ m \in Nat
    BY <1>7, <1>14, NextRecord DEF Taken
  <2>3. Run(o.got, z) /\ Positioned(w, z + a) /\ z + a \in Int
    <3>1. Positioned(w, a - b)
      BY <1>11
    <3> HIDE DEF a
    <3> QED BY <1>11, <2>1, <3>1
  <2> HIDE DEF a, m, z
  <2>4. /\ Len(x.out) = RecordUnits /\ x.ra.fd = x.fx.open
        /\ Run(x.out, z + a) /\ Positioned(x, z + a + RecordUnits)
    BY <1>3, <2>0, <2>3 DEF Exact
  <2>5. x.out \in Seq(Int)
    BY <1>3, WorldParts
  <2>6. Run(u.got, z) /\ Len(u.got) = m
    <3>1. Run(o.got, z) /\ Run(x.out, z + Len(o.got))
      BY <2>1, <2>3, <2>4
    <3>2. /\ Run(o.got \o x.out, z) /\ Len(o.got \o x.out) = Len(o.got) + Len(x.out)
      BY <2>1, <2>5, <3>1, RunJoin
    <3> QED BY <1>14, <2>1, <2>2, <2>4, <3>2
  <2>7. Positioned(x, m - b)
    <3>1. z + a + RecordUnits = m - b
      BY <1>12, <2>1, <2>2, FileXioAssumption DEF z
    <3> QED BY <2>4, <3>1
  <2>8. Told(u, x)
    <3>1. Run(u.got, 0 - b) /\ Len(u.got) <= Len(x.fx.file)
      BY <1>8, <2>2, <2>6 DEF z
    <3> QED BY <1>1, <1>6, <1>12, <3>1 DEF Told
  <2>9. Place(u, x, q) /\ Making(u, x, q)
    BY <1>2, <1>3, <1>4, <1>5, <1>9 DEF Place, Making, InScope, Seen
  <2>10. Image(u, x, q)
    <3>1. q = r /\ u.rc = 0 => u.checked
      OBVIOUS
    <3>2. q.image \in {"given", "scanned"} => q = p /\ q.image = p.image
      BY <1>2, <1>5, <1>4 DEF Seen
    <3> QED BY <1>1, <1>2, <1>4, <1>5, <1>9, <3>1, <3>2 DEF Image, Seen
  <2>11. Reading(u, x, q)
    <3>1. u.rc = 0 => x.fx.file = Units(ImageUnits)
      BY <1>6, <1>7
    <3>2. ASSUME u.rc = 0, q.at = "reading" PROVE Taken(u) < ImageUnits /\ Tracks(u, x)
      <4>1. Taken(u) < ImageUnits
        BY <1>5, <3>2
      <4>2. Run(u.got, 0 - b) /\ Positioned(x, Taken(u) - b)
        BY <2>6, <2>7 DEF m, z
      <4> QED BY <1>12, <4>1, <4>2 DEF Tracks
    <3>3. ASSUME u.rc = 0, q.at = "read"
          PROVE  Taken(u) = ImageUnits /\ Positioned(x, ImageUnits) /\ u.checked
      <4>1. ~(m < ImageUnits) /\ q = r
        BY <1>5, <3>3 DEF m
      <4>2. m = ImageUnits
        BY <2>2, <4>1, FileXioAssumption
      <4>3. b = 0
        <5>1. CASE ~o.checked
          BY <1>11, <5>1 DEF Shifts
        <5>2. CASE u.got = Units(ImageUnits)
          <6>1. u.got[1] = z + 1
            BY <2>6, <4>2, FileXioAssumption DEF Run
          <6>2. Units(ImageUnits)[1] = 1
            BY FileXioAssumption DEF Units
          <6> QED BY <1>12, <5>2, <6>1, <6>2 DEF z
        <5> QED BY <3>3, <4>1, <5>1, <5>2
      <4>4. m - b = ImageUnits
        BY <2>2, <4>2, <4>3
      <4> QED BY <2>7, <3>3, <4>1, <4>2, <4>4 DEF m
    <3>4. u.rc = 0 => Len(u.got) = Taken(u)
      BY <2>6 DEF m
    <3>5. q.image # "no"
      BY <1>2, <1>4, <1>5 DEF Seen
    <3> QED BY <1>5, <2>4, <3>1, <3>2, <3>3, <3>4, <3>5 DEF Reading
  <2> QED BY <1>1, <1>3, <1>5, <2>8, <2>9, <2>10, <2>11 DEF Good
<1> QED BY <1>3, <1>13, <1>14

(* The locator goes through the image again, whatever it reads.            *)
LEMMA LocateGood ==
  ASSUME NEW o, NEW w, NEW p, Good(o, w, p), p.at = "locating", p.ra \in Nat,
         w.fx.open # 0, w.rc = 0, w.out = <<>>, NEW x \in ReadExact(w),
         NEW u, u.kind = o.kind, u.bad = o.bad, u.sealed = o.sealed, u.formatted = o.formatted,
         u.checked = o.checked, u.rc = o.rc
  PROVE  Good(u, x, p) /\ Keeps(w, x) /\ x \in Worlds
<1>1. /\ Calm(w) /\ Told(o, w) /\ w.ra.depth = p.ra /\ w.wb.depth = p.wb
      /\ Place(o, w, p) /\ Making(o, w, p) /\ Image(o, w, p) /\ Reading(o, w, p)
  BY DEF Good
<1>2. o.rc = BadEcc /\ p.image # "no" /\ InScope(p) /\ BadEcc # 0
  BY <1>1 DEF Place, BadEcc
<1>3. /\ Calm(x) /\ x \in Worlds /\ Keeps(w, x) /\ x.wb = w.wb
      /\ x.fx.open = w.fx.open /\ x.ra.depth = w.ra.depth
      /\ x.wb.async = NoSlot /\ ~Queued(x, "write")
  BY ReadCalm
<1>4. x.fx.file = w.fx.file
  BY <1>3 DEF Keeps
<1>5. Told(u, x)
  BY <1>1, <1>2, <1>4 DEF Told
<1>6. Place(u, x, p) /\ Making(u, x, p)
  BY <1>1, <1>2, <1>3 DEF Place, Making
<1>7. Image(u, x, p)
  BY <1>1, <1>2 DEF Image
<1>8. Reading(u, x, p)
  BY <1>2 DEF Reading
<1> QED BY <1>1, <1>3, <1>5, <1>6, <1>7, <1>8 DEF Good

LEMMA BackParts ==
  ASSUME NEW w \in Worlds, NEW f \in Seq(Int)
  PROVE  LET x == PutBack(w, f) IN
         /\ x \in Worlds /\ x.wb = w.wb /\ x.ra = w.ra
         /\ x.fx.file = f /\ x.fx.open = 0 /\ x.fx.pos = w.fx.pos
         /\ x.fx.mode = w.fx.mode /\ x.fx.rpc = w.fx.rpc
BY DEF PutBack, Worlds, Clients

LEMMA EmptyFeeds ==
  ASSUME NEW y, Sound(y), ~Busy(y), y.fx.file = Units(Size(y)), NEW t \in Seq(Int),
         NEW z \in Nat, z \in 0..Len(t), Size(y) = z + z, z + Len(t) <= ImageUnits,
         \A i \in 1..Len(t) : t[i] = z + i, NEW x \in WriteCalls(y, t, z)
  PROVE  /\ Sound(x) /\ x.wb = y.wb /\ x.ra = y.ra /\ x.fx.rpc = NoRequest /\ x.fx.pos = y.fx.pos
         /\ x.fx.file = Units(Size(x)) /\ Size(x) <= ImageUnits
BY WriteFeeds, ZenonT(30)

LEMMA TextGood ==
  ASSUME NEW w, Calm(w), w.wb.async = NoSlot, w.fx.open # 0, w.fx.rpc = NoRequest,
         w.fx.file = <<>>, NEW x \in WrapWrite(w, w.fx.open, <<>>)
  PROVE  /\ Sound(x) /\ Pending(x) /\ x.wb.async = NoSlot /\ x.ra = w.ra
         /\ x.fx.rpc = NoRequest /\ x.wb.depth = w.wb.depth /\ x.fx.pos = w.fx.pos
<1> DEFINE t == <<>>
           Direct(v) == WriteCalls(v, t, 0)
<1>1. t \in Seq(Int) /\ Len(t) = 0 /\ 0 \in 0..Len(t) /\ Len(t) # RecordUnits
  BY FileXioAssumption
<1>2. Sound(w) /\ Pending(w)
  BY DEF Calm
<1>3. x \in Then(WbDrain(w), Direct)
  <2>1. WrapWrite(w, w.fx.open, t) = Then(WbDrain(w), Direct)
    BY <1>1, Zenon DEF WrapWrite
  <2> QED BY <2>1
<1>4. PICK y \in WbDrain(w) : x \in IF y.rc < 0 THEN {y} ELSE Direct(y)
  BY <1>3 DEF Then
<1>5. Drained(w, y)
  BY <1>2, DrainOutcome
<1>6. /\ Sound(y) /\ Pending(y) /\ y.wb.async = NoSlot /\ y.wb.depth = w.wb.depth
      /\ y.ra = w.ra /\ SameFile(y, w) /\ y.fx.rpc = NoRequest /\ y.rc = 0
  BY <1>5 DEF Drained
<1>7. x \in WriteCalls(y, t, 0)
  BY <1>4, <1>6
<1>8. ~Busy(y) /\ y.fx.file = <<>> /\ Size(y) = 0 /\ y.fx.file = Units(Size(y))
  BY <1>6 DEF Busy, SameFile, NoRequest, Size, Pending
<1> DEFINE z == 0
<1>9. /\ z \in 0..Len(t) /\ z \in Nat /\ Size(y) = z + z /\ z + Len(t) <= ImageUnits
      /\ \A i \in 1..Len(t) : t[i] = z + i
  BY <1>1, <1>8, FileXioAssumption
<1>10. x \in WriteCalls(y, t, z) /\ Sound(y) /\ t \in Seq(Int)
  BY <1>1, <1>6, <1>7
<1> HIDE DEF z, t
<1>11. /\ Sound(x) /\ x.wb = y.wb /\ x.ra = y.ra /\ x.fx.rpc = NoRequest /\ x.fx.pos = y.fx.pos
       /\ x.fx.file = Units(Size(x)) /\ Size(x) <= ImageUnits
  BY <1>8, <1>9, <1>10, EmptyFeeds
<1>12. ~Queued(x, "write")
  BY <1>11 DEF Queued, NoRequest
<1>13. Pending(x)
  BY <1>6, <1>11, <1>12, PendingQuiet
<1> QED BY <1>6, <1>11, <1>13 DEF SameFile

LEMMA SidecarGood ==
  ASSUME NEW o, NEW w, NEW p, Good(o, w, p), NEW r, StepOf("sidecar", p, r),
         NEW fd \in Fds, NEW a \in OpenCall(w, fd, <<>>),
         NEW b, IF a.rc < 0 THEN b = a ELSE b \in WrapWrite(a, a.fx.open, <<>>),
         NEW c \in WrapClose(b), NEW x, x = PutBack(c, w.fx.file)
  PROVE  Good(o, x, r) /\ Keeps(w, x) /\ x \in Worlds
<1>1. p.at = "none" /\ p.image = "made" /\ r = p
  BY DEF StepOf
<1>2. /\ Calm(w) /\ w.ra.depth = p.ra /\ w.wb.depth = p.wb /\ Place(o, w, p) /\ Reading(o, w, p)
  BY DEF Good
<1>3. w.fx.open = 0
  BY <1>1, <1>2 DEF Place
<1>4. /\ w \in Worlds /\ w.fx.rpc = NoRequest /\ w.wb.async = NoSlot /\ Shape(w.ra)
      /\ ~Queued(w, "write") /\ Fetch(w)
  BY <1>2, <1>3, Idles DEF Reader
<1> DEFINE f == <<>>
<1>5. f = w.fx.file \/ f = <<>>
  OBVIOUS
<1>6. a \in OpenCall(w, fd, f)
  OBVIOUS
<1> HIDE DEF f
<1>7. /\ Calm(a) /\ a \in Worlds /\ a.wb = w.wb /\ a.ra = w.ra /\ a.fx.rpc = NoRequest
      /\ \/ a.rc = fd /\ a.fx.open = fd /\ a.fx.pos = 0 /\ a.fx.file = f
         \/ a.rc = Failed
  BY <1>2, <1>3, <1>5, <1>6, OpenCalm
<1>8. /\ Sound(b) /\ Pending(b) /\ b.wb.async = NoSlot /\ b.ra = w.ra
      /\ b.fx.rpc = NoRequest /\ b.wb.depth = w.wb.depth /\ b.fx.pos <= ImageUnits
  <2>1. CASE a.rc < 0
    BY <1>4, <1>7, <2>1 DEF Calm
  <2>2. CASE ~(a.rc < 0)
    <3>1. a.fx.open = fd /\ a.fx.file = <<>> /\ fd # 0
      BY <1>7, <2>2, FileXioAssumption DEF Failed, f
    <3>2. b \in WrapWrite(a, a.fx.open, <<>>) /\ a.wb.async = NoSlot /\ a.fx.open # 0
      BY <1>4, <1>7, <2>2, <3>1
    <3>3. /\ Sound(b) /\ Pending(b) /\ b.wb.async = NoSlot /\ b.ra = a.ra
          /\ b.fx.rpc = NoRequest /\ b.wb.depth = a.wb.depth /\ b.fx.pos = a.fx.pos
      BY <1>7, <3>1, <3>2, TextGood
    <3> QED BY <1>7, <3>3 DEF Calm
  <2> QED BY <2>1, <2>2
<1>9. Shut(b, c)
  BY <1>8, WrapCloseOutcome
<1>10. /\ c \in Worlds /\ c.fx.rpc = NoRequest /\ c.fx.mode = "WAIT" /\ c.fx.pos <= ImageUnits
       /\ c.wb.async = NoSlot /\ c.ra = w.ra /\ c.wb.depth = w.wb.depth
  <2>1. ~Queued(b, "read")
    BY <1>8 DEF Queued, NoRequest
  <2> QED BY <1>8, <1>9, <2>1 DEF Shut, Sound
<1> DEFINE g == w.fx.file
<1>11. g \in Seq(Int) /\ x = PutBack(c, g)
  BY <1>4, WorldParts
<1> HIDE DEF g
<1>12. /\ x \in Worlds /\ x.wb = c.wb /\ x.ra = w.ra
       /\ x.fx.file = g /\ x.fx.open = 0 /\ x.fx.pos <= ImageUnits
       /\ x.fx.mode = "WAIT" /\ x.fx.rpc = NoRequest
  BY <1>10, <1>11, BackParts
<1>13. x.fx.file = w.fx.file
  BY <1>12 DEF g
<1>14. o.rc = 0 /\ r.ra > 0 => Spent(o, x)
  <2>1. o.rc = 0 /\ r.ra > 0 => Spent(o, w)
    BY <1>1, <1>2 DEF Reading
  <2> QED BY <1>12, <2>1, SpentSame
<1>15. /\ x.ra.cur = NoSlot \/ build = "asyncread"
       /\ x.ra.async = NoSlot \/ build = "asyncread"
  BY <1>4, <1>12 DEF Fetch
<1>16. /\ r.at = "none" /\ r.image = p.image /\ x.wb.async = NoSlot /\ Shape(x.ra)
       /\ x.ra.depth = r.ra /\ x.wb.depth = r.wb
       /\ p.image = "no" /\ r.wb = 1 => x.wb.fd = 0 /\ x.wb.len[x.wb.fill] = 0
  BY <1>1, <1>2, <1>4, <1>10, <1>12
<1>17. Good(o, x, r)
  BY <1>1, <1>12, <1>13, <1>14, <1>15, <1>16, GoodRest
<1> QED BY <1>4, <1>12, <1>13, <1>17 DEF Keeps, Leaves, Queued, NoRequest

(* The card is formatted, or the operation fails, between two calls.       *)
LEMMA FormatGood ==
  ASSUME NEW o, o.rc = 0, NEW w, NEW p, Good(o, w, p), p.image = "made",
         NEW u, u.kind = o.kind, u.bad = o.bad, u.pages = o.pages, u.got = o.got,
         u.sealed = o.sealed, u.rc = o.rc, u.checked = o.checked,
         u.formatted = TRUE
  PROVE  Good(u, w, p)
<1>1. /\ Calm(w) /\ Told(o, w) /\ w.ra.depth = p.ra /\ w.wb.depth = p.wb
      /\ Place(o, w, p) /\ Making(o, w, p) /\ Image(o, w, p) /\ Reading(o, w, p)
  BY DEF Good
<1>2. o.sealed
  BY <1>1 DEF Image
<1>3. Told(u, w)
  BY <1>1, <1>2 DEF Told, Shifts
<1>4. Place(u, w, p) /\ Making(u, w, p)
  BY <1>1 DEF Place, Making, Taken
<1>5. Image(u, w, p)
  BY <1>1 DEF Image
<1>6. Reading(u, w, p)
  <2>1. Taken(u) = Taken(o)
    BY DEF Taken
  <2>2. Tracks(o, w) => Tracks(u, w)
    BY <2>1, TracksSame
  <2>3. Spent(o, w) => Spent(u, w)
    BY SpentSame
  <2> QED BY <1>1, <2>1, <2>2, <2>3 DEF Reading
<1> QED BY <1>1, <1>3, <1>4, <1>5, <1>6 DEF Good

LEMMA FailGood ==
  ASSUME NEW o, o.rc # BadEcc, NEW w, NEW p, Good(o, w, p), p.at = "none",
         NEW u, u.kind = o.kind, u.bad = o.bad, u.pages = o.pages, u.got = o.got,
         u.sealed = o.sealed, u.rc = Failed, u.checked = o.checked,
         u.formatted = o.formatted
  PROVE  Good(u, w, p)
<1>1. /\ Calm(w) /\ Told(o, w) /\ w.ra.depth = p.ra /\ w.wb.depth = p.wb
      /\ Place(o, w, p) /\ Making(o, w, p) /\ Image(o, w, p) /\ Reading(o, w, p)
  BY DEF Good
<1>2. Failed # 0 /\ Failed # BadEcc
  BY DEF Failed, BadEcc
<1>3. Told(u, w)
  BY <1>1 DEF Told, Shifts
<1>4. Place(u, w, p) /\ Making(u, w, p)
  BY <1>1, <1>2 DEF Place, Making
<1>5. Image(u, w, p)
  BY <1>1, <1>2 DEF Image
<1>6. Reading(u, w, p)
  BY <1>1, <1>2 DEF Reading
<1> QED BY <1>1, <1>3, <1>4, <1>5, <1>6 DEF Good

(* What holds of the outcome of a call holds of the streams after it.      *)
LEMMA CarrySound ==
  ASSUME NEW x, build' = build, fx' = x.fx, wb' = x.wb, ra' = x.ra, Sound(x)
  PROVE  Sound(World)'
<1> DEFINE W == [fx |-> x.fx, wb |-> x.wb, ra |-> x.ra, rc |-> 0, out |-> <<>>, raw |-> <<>>,
                 answered |-> FALSE]
<1>1. W \in Worlds
  BY DEF Sound, Worlds
<1>2. World' = W
  BY DEF World
<1>3. W.fx = x.fx /\ W.wb = x.wb /\ W.ra = x.ra
  OBVIOUS
<1> HIDE DEF W
<1> QED BY <1>1, <1>2, <1>3 DEF Sound, Queued, Shape

LEMMA CarryPending ==
  ASSUME NEW x, build' = build, fx' = x.fx, wb' = x.wb, ra' = x.ra, Pending(x)
  PROVE  Pending(World)'
<1> DEFINE W == [fx |-> x.fx, wb |-> x.wb, ra |-> x.ra, rc |-> 0, out |-> <<>>, raw |-> <<>>,
                 answered |-> FALSE]
<1>2. World' = W
  BY DEF World
<1>3. W.fx = x.fx /\ W.wb = x.wb /\ W.ra = x.ra
  OBVIOUS
<1> HIDE DEF W
<1> QED BY <1>2, <1>3 DEF Pending, Queued, Size, Stored

LEMMA CarryFetch ==
  ASSUME NEW x, build' = build, fx' = x.fx, wb' = x.wb, ra' = x.ra, Fetch(x)
  PROVE  Fetch(World)'
<1> DEFINE W == [fx |-> x.fx, wb |-> x.wb, ra |-> x.ra, rc |-> 0, out |-> <<>>, raw |-> <<>>,
                 answered |-> FALSE]
<1>1. World' = W
  BY DEF World
<1>2. W.fx = x.fx /\ W.wb = x.wb /\ W.ra = x.ra
  OBVIOUS
<1> HIDE DEF W
<1> QED BY <1>1, <1>2 DEF Fetch

LEMMA CarryFed ==
  ASSUME NEW x, build' = build, fx' = x.fx, wb' = x.wb, ra' = x.ra, NEW a, Fed(x, a)
  PROVE  Fed(World, a)'
<1> DEFINE W == [fx |-> x.fx, wb |-> x.wb, ra |-> x.ra, rc |-> 0, out |-> <<>>, raw |-> <<>>,
                 answered |-> FALSE]
<1>1. World' = W
  BY DEF World
<1>2. W.fx = x.fx /\ W.wb = x.wb /\ W.ra = x.ra
  OBVIOUS
<1> HIDE DEF W
<1> QED BY <1>1, <1>2, CarryPending DEF Fed, Base, Size, Stored

LEMMA CarryPositioned ==
  ASSUME NEW x, build' = build, fx' = x.fx, wb' = x.wb, ra' = x.ra, NEW c, Positioned(x, c)
  PROVE  Positioned(World, c)'
<1> DEFINE W == [fx |-> x.fx, wb |-> x.wb, ra |-> x.ra, rc |-> 0, out |-> <<>>, raw |-> <<>>,
                 answered |-> FALSE]
<1>1. World' = W
  BY DEF World
<1>2. W.fx = x.fx /\ W.wb = x.wb /\ W.ra = x.ra
  OBVIOUS
<1> HIDE DEF W
<1>3. ASSUME Lined(x, c) PROVE Lined(World, c)'
  <2>1. Prefetched(x, c) => Prefetched(World, c)'
    BY <1>1, <1>2 DEF Prefetched, Forgotten, Ahead, Remaining, Unread, Arrived
  <2> QED BY <1>1, <1>2, <1>3, <2>1 DEF Lined, Remaining, Unread
<1> QED BY <1>1, <1>2, <1>3 DEF Positioned

LEMMA CarrySpent ==
  ASSUME NEW x, NEW o, op' = o, build' = build, fx' = x.fx, wb' = x.wb, ra' = x.ra, Spent(o, x)
  PROVE  Spent(op, World)'
<1> DEFINE W == [fx |-> x.fx, wb |-> x.wb, ra |-> x.ra, rc |-> 0, out |-> <<>>, raw |-> <<>>,
                 answered |-> FALSE]
<1>1. World' = W
  BY DEF World
<1>2. W.fx = x.fx /\ W.wb = x.wb /\ W.ra = x.ra
  OBVIOUS
<1> HIDE DEF W
<1> QED BY <1>1, <1>2 DEF Spent, Emptied, Remaining

LEMMA CarryTracks ==
  ASSUME NEW x, NEW o, op' = o, build' = build, fx' = x.fx, wb' = x.wb, ra' = x.ra, Tracks(o, x)
  PROVE  Tracks(op, World)'
<1>1. PICK b \in Shifts(o) : Run(o.got, 0 - b) /\ Positioned(x, Taken(o) - b)
  BY DEF Tracks
<1>2. Shifts(op)' = Shifts(o) /\ Taken(op)' = Taken(o) /\ op'.got = o.got
  BY DEF Shifts, Taken
<1>3. \A c : Positioned(x, c) => Positioned(World, c)'
  BY CarryPositioned
<1> HIDE DEF Taken, Shifts
<1>4. Positioned(World, Taken(op) - b)'
  BY <1>1, <1>2, <1>3
<1> QED BY <1>1, <1>2, <1>4 DEF Tracks

LEMMA CarryCalm ==
  ASSUME NEW x, build' = build, fx' = x.fx, wb' = x.wb, ra' = x.ra, Calm(x)
  PROVE  Calm(World)'
<1>1. Sound(World)' /\ Pending(World)' /\ Fetch(World)'
  BY CarrySound, CarryPending, CarryFetch DEF Calm
<1>2. World'.fx = x.fx
  BY DEF World
<1>3. /\ x.fx.open = 0 => x.fx.mode = "WAIT" /\ x.fx.rpc = NoRequest
      /\ x.fx.pos <= ImageUnits
  BY DEF Calm
<1> QED BY <1>1, <1>2, <1>3 DEF Calm

LEMMA CarryTold ==
  ASSUME NEW x, NEW o, op' = o, build' = build, fx' = x.fx, wb' = x.wb, ra' = x.ra, Told(o, x)
  PROVE  Told(op, World)'
<1> DEFINE W == [fx |-> x.fx, wb |-> x.wb, ra |-> x.ra, rc |-> 0, out |-> <<>>, raw |-> <<>>,
                 answered |-> FALSE]
<1>1. World' = W
  BY DEF World
<1>2. W.fx = x.fx /\ W.wb = x.wb /\ W.ra = x.ra
  OBVIOUS
<1> HIDE DEF W
<1> QED BY <1>1, <1>2 DEF Told, Shifts

LEMMA CarryPlace ==
  ASSUME NEW x, NEW o, op' = o, build' = build, fx' = x.fx, wb' = x.wb, ra' = x.ra, NEW p, Place(o, x, p)
  PROVE  Place(op, World, p)'
<1> DEFINE W == [fx |-> x.fx, wb |-> x.wb, ra |-> x.ra, rc |-> 0, out |-> <<>>, raw |-> <<>>,
                 answered |-> FALSE]
<1>1. World' = W
  BY DEF World
<1>2. W.fx = x.fx /\ W.wb = x.wb /\ W.ra = x.ra
  OBVIOUS
<1> HIDE DEF W
<1> QED BY <1>1, <1>2 DEF Place, Queued

LEMMA CarryMaking ==
  ASSUME NEW x, NEW o, op' = o, build' = build, fx' = x.fx, wb' = x.wb, ra' = x.ra, NEW p, Making(o, x, p)
  PROVE  Making(op, World, p)'
<1> DEFINE W == [fx |-> x.fx, wb |-> x.wb, ra |-> x.ra, rc |-> 0, out |-> <<>>, raw |-> <<>>,
                 answered |-> FALSE]
<1>1. World' = W
  BY DEF World
<1>2. W.fx = x.fx /\ W.wb = x.wb /\ W.ra = x.ra
  OBVIOUS
<1> HIDE DEF W
<1> QED BY <1>1, <1>2, CarryFed DEF Making, Queued, Taken

LEMMA CarryImage ==
  ASSUME NEW x, NEW o, op' = o, build' = build, fx' = x.fx, wb' = x.wb, ra' = x.ra, NEW p, Image(o, x, p)
  PROVE  Image(op, World, p)'
<1> DEFINE W == [fx |-> x.fx, wb |-> x.wb, ra |-> x.ra, rc |-> 0, out |-> <<>>, raw |-> <<>>,
                 answered |-> FALSE]
<1>1. World' = W
  BY DEF World
<1>2. W.fx = x.fx /\ W.wb = x.wb /\ W.ra = x.ra
  OBVIOUS
<1> HIDE DEF W
<1> QED BY <1>1, <1>2 DEF Image

LEMMA CarryReading ==
  ASSUME NEW x, NEW o, op' = o, build' = build, fx' = x.fx, wb' = x.wb, ra' = x.ra, NEW p, Reading(o, x, p)
  PROVE  Reading(op, World, p)'
<1> DEFINE W == [fx |-> x.fx, wb |-> x.wb, ra |-> x.ra, rc |-> 0, out |-> <<>>, raw |-> <<>>,
                 answered |-> FALSE]
<1>1. World' = W
  BY DEF World
<1>2. W.fx = x.fx /\ W.wb = x.wb /\ W.ra = x.ra
  OBVIOUS
<1> HIDE DEF W
<1>3. /\ \A c : Positioned(x, c) => Positioned(World, c)'
      /\ Tracks(o, x) => Tracks(op, World)'
      /\ Spent(o, x) => Spent(op, World)'
  BY CarryPositioned, CarryTracks, CarrySpent
<1> QED BY <1>1, <1>2, <1>3 DEF Reading, Taken

LEMMA Carried ==
  ASSUME NEW x, NEW o, NEW p, Good(o, x, p),
         op' = o, build' = build, fx' = x.fx, wb' = x.wb, ra' = x.ra
  PROVE  Good(op, World, p)'
<1>1. /\ Calm(x) /\ Told(o, x) /\ x.ra.depth = p.ra /\ x.wb.depth = p.wb
      /\ Place(o, x, p) /\ Making(o, x, p) /\ Image(o, x, p) /\ Reading(o, x, p)
  BY DEF Good
<1>2. Calm(World)' /\ Told(op, World)' /\ Place(op, World, p)' /\ Making(op, World, p)'
  BY <1>1, CarryCalm, CarryTold, CarryPlace, CarryMaking
<1>3. Image(op, World, p)' /\ Reading(op, World, p)'
  BY <1>1, CarryImage, CarryReading
<1>4. World'.ra = x.ra /\ World'.wb = x.wb
  BY DEF World
<1> QED BY <1>1, <1>2, <1>3, <1>4 DEF Good
=============================================================================
