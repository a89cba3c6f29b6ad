-------------------------- MODULE StreamReadProofs --------------------------
(***************************************************************************)
(* What a call of the read cache returns, for every image size and refill  *)
(* size and every order of refills, prefetches and short reads: the units  *)
(* handed out are those of the file from the current one on (Spot).  What  *)
(* is left of the current refill, the refill that is ready and the one     *)
(* that is on its way follow each other without a gap, and the file        *)
(* position is where the last of them ends (Prefetched).                   *)
(***************************************************************************)
EXTENDS StreamWriteProofs

(* ---------------------------- read pipeline --------------------------- *)
(* The prefetch of the lab build knows what it asked for.                  *)
Fetch(w) ==
    /\ w.ra.cur # NoSlot => build = "asyncread"
    /\ w.ra.async # NoSlot => build = "asyncread"
    /\ w.ra.async # NoSlot /\ w.fx.rpc.st # "none" =>
          /\ w.fx.rpc.kind = "read" /\ w.fx.rpc.slot = w.ra.async
          /\ w.fx.rpc.st = "done" => w.fx.rpc.result <= Len(w.ra.slot[w.ra.async].data)

(* What is consumed next is the image from unit c on; the refill that is   *)
(* ready, or on its way, starts where the current one ends.                *)
Ahead(w, c) == c + (IF w.ra.cur = NoSlot THEN 0 ELSE Remaining(w, w.ra.cur))
Arrived(w) == w.fx.rpc.st = "done" /\ w.fx.rpc.result >= 0
(* A prefetch that an open has waited out was one at the end of the file:  *)
(* what the open left is taken for its length, and that many stale units   *)
(* are served before those of the file.                                    *)
Forgotten(w, a) == w.fx.pos = 0 /\ a + w.fx.last = 0
Prefetched(w, c) ==
    /\ w.ra.cur # NoSlot => Run(Unread(w, w.ra.cur), c)
    /\ w.ra.ready # NoSlot =>
          /\ Run(w.ra.slot[w.ra.ready].data, Ahead(w, c))
          /\ w.fx.pos = Ahead(w, c) + Len(w.ra.slot[w.ra.ready].data)
    /\ w.ra.async # NoSlot /\ Arrived(w) =>
          /\ Run(w.ra.slot[w.ra.async].data, Ahead(w, c))
          /\ Len(w.ra.slot[w.ra.async].data) = w.fx.rpc.result
          /\ w.fx.pos = Ahead(w, c) + w.fx.rpc.result
    /\ w.ra.async # NoSlot /\ ~Arrived(w) =>
          /\ w.ra.slot[w.ra.async].data = <<>>
          /\ IF w.fx.rpc.st = "none" THEN Forgotten(w, Ahead(w, c)) ELSE w.fx.pos = Ahead(w, c)
    /\ w.ra.async = NoSlot => w.fx.rpc.st # "queued"
    /\ w.ra.async = NoSlot /\ w.ra.ready = NoSlot => w.fx.pos = Ahead(w, c)
Lined(w, c) ==
    IF build = "asyncread" THEN Prefetched(w, c)
    ELSE Run(Unread(w, 0), c) /\ w.fx.pos = c + Remaining(w, 0)
Positioned(w, c) ==
    /\ w.fx.file = Units(ImageUnits)
    /\ w.ra.fd = w.fx.open => Lined(w, c)
    /\ w.ra.fd # w.fx.open => w.fx.pos = c /\ w.fx.rpc.st # "queued"

(* The read pipeline runs; what any call of it keeps, and the records it   *)
(* hands out: those of the image from unit c on, in order.                 *)
PutRa(w, r) == [w EXCEPT !.ra = r]
Reader(w) == Sound(w) /\ Fetch(w) /\ ~Queued(w, "write")
Reads(w, x) == /\ Reader(x) /\ x.wb = w.wb /\ x.fx.open = w.fx.open
               /\ x.fx.file = w.fx.file /\ x.ra.depth = w.ra.depth
Spot(w, c) == /\ w.fx.file = Units(ImageUnits) /\ Run(w.out, c)
              /\ Lined(w, c + Len(w.out))
Flows(w, x) == x.rc >= 0 => \A c \in Int : Spot(w, c) => Spot(x, c)
(* The prefetch that arrived becomes the refill that is ready.             *)
ArrivedCache(r, s, d) ==
    [[[r EXCEPT !.async = NoSlot] EXCEPT !.ready = s] EXCEPT !.slot[s] = [data |-> d, off |-> 0]]
LostCache(r, s) == [[r EXCEPT !.async = NoSlot] EXCEPT !.slot[s] = EmptySlot]
SwapCache(r, old, s) ==
    [[[r EXCEPT !.ready = NoSlot] EXCEPT !.cur = s] EXCEPT !.slot[old] = EmptySlot]
PutOut(w, n, o) == [w EXCEPT !.rc = n, !.out = o]
Appended(y, m) == PutOut(y, m, y.out \o y.raw)
Moves(w, x) == Reads(w, x) /\ Flows(w, x) /\ x.rc \in Int
(* Nothing is buffered: the next unit is the one at the file position.     *)
Short(w) ==
    IF build = "asyncread"
    THEN /\ w.ra.async = NoSlot /\ w.ra.ready = NoSlot
         /\ w.ra.cur # NoSlot => Remaining(w, w.ra.cur) = 0
    ELSE Remaining(w, 0) = 0
DropCache(r, s) == [[r EXCEPT !.slot[s] = EmptySlot] EXCEPT !.cur = NoSlot]
(* A record, or what there is of it, is handed out.                        *)
Hands(w, x) ==
    /\ Moves(w, x)
    /\ x.rc > 0 => /\ Len(x.out) = Len(w.out) + x.rc /\ x.rc <= RecordUnits
                   /\ x.rc < RecordUnits => Short(x)

(* What was read straight from the file follows what was there.            *)
Directed(w, z, m, d) ==
    /\ Reads(w, z) /\ Short(z) /\ z.rc = m /\ Len(z.out) = Len(w.out) + Len(d)
    /\ SameCache(z, w) /\ z.fx.rpc = NoRequest /\ d \in Seq(Int)
    /\ \A c \in Int : Spot(w, c) => Spot(z, c)

(* The refill that was ready is the current one, k units of it are taken.  *)
Joins(w, f, y, s, m, k) ==
    /\ Moves(w, y) /\ y.rc = m /\ Len(y.out) = Len(f.out) + k /\ y.fx = f.fx
    /\ y.ra.cur = s /\ y.ra.fd = f.ra.fd /\ y.ra.async = NoSlot /\ y.ra.ready = NoSlot
    /\ Remaining(y, s) = Remaining(f, s) - k

(* The prefetch is over, its outcome kept or lost.                         *)
DrainedTo(w, x) ==
    /\ Moves(w, x) /\ x.out = w.out /\ x.rc \in {0, Failed} /\ x.ra.async = NoSlot
    /\ x.ra.cur = w.ra.cur /\ x.ra.fd = w.ra.fd
    /\ \A t \in Slots : t # w.ra.async => x.ra.slot[t] = w.ra.slot[t]
    /\ w.ra.async = NoSlot => x.ra = w.ra /\ x.fx.pos = w.fx.pos /\ x.fx.rpc = w.fx.rpc
    /\ x.rc = 0 /\ ~Busy(w) => x.fx.pos = w.fx.pos /\ ~Busy(x)
NewCache(r, fd) == [[RaInit EXCEPT !.depth = r.depth] EXCEPT !.fd = fd]
(* The cache serves descriptor w.fx.open from the file position on.        *)
Turned(w, x) ==
    /\ Reads(w, x) /\ x.rc \in Int /\ x.out = w.out
    /\ x.rc >= 0 => /\ x.ra.fd = w.fx.open
                    /\ \A c \in Int : w.out = <<>> /\ Positioned(w, c) => Spot(x, c)

(* A record was read, or less, or nothing.                                 *)
Serves(w, x) ==
    /\ Reads(w, x) /\ x.rc \in Int
    /\ x.rc >= 0 => /\ x.ra.fd = w.fx.open
                    /\ \A c \in Int : Positioned(w, c) => Spot(x, c)
    /\ x.rc > 0 => /\ Len(x.out) = x.rc /\ x.rc <= RecordUnits
                   /\ x.rc < RecordUnits => Short(x)

(* What was left of the refill is at its front and more follows it.        *)
Refilled(w, y, n) ==
    /\ Reads(w, y) /\ y.out = w.out /\ y.ra.fd = w.ra.fd /\ Remaining(y, 0) = n
    /\ \A c \in Int : Spot(w, c) => Spot(y, c)

(* A record was handed out, if there was anything to hand it out from.     *)
HandsFrom(w, x) ==
    /\ x.ra.fd = w.ra.fd
    /\ \/ x = w /\ w.rc <= 0
       \/ w.rc > 0 /\ Hands(w, x)

(* The cache started anew.                                                 *)
Anew(w, y, fd) ==
    /\ Reads(w, y) /\ y.rc = w.rc /\ y.out = w.out /\ y.fx = w.fx /\ y.ra.fd = fd
    /\ y.ra.cur = NoSlot /\ y.ra.async = NoSlot /\ y.ra.ready = NoSlot
    /\ \A s \in Slots : y.ra.slot[s] = EmptySlot
    /\ ~Busy(w) => \A c \in Int : w.fx.pos = c /\ w.out = <<>> /\ w.fx.file = Units(ImageUnits)
                     => Spot(y, c)

(* The rest of a record was read, or not.                                  *)
Rests(w, x, n) ==
    /\ Reads(w, x) /\ x.rc \in Int /\ x.ra.fd = w.ra.fd
    /\ x.rc = n => /\ Len(x.out) = Len(w.out) + n
                   /\ \A c \in Int : Spot(w, c) => Spot(x, c)

(* A whole record was read, or none is reported.                           *)
Exact(w, x) ==
    /\ Reads(w, x) /\ x.rc \in {0, Failed}
    /\ x.rc = 0 => /\ Len(x.out) = RecordUnits /\ x.ra.fd = x.fx.open
                   /\ \A c \in Int : Positioned(w, c) =>
                        Run(x.out, c) /\ Positioned(x, c + RecordUnits)

(* The parts of JoinSlots.                                                 *)
DirectSet(x, have) ==
    {[y EXCEPT !.out = @ \o y.raw, !.rc = have + Len(y.raw)] :
        y \in ReadCalls(x, RecordUnits - have, RecordUnits - have)}
Dropped(x, s) == [x EXCEPT !.ra.slot[s] = EmptySlot, !.ra.cur = NoSlot]
JoinNone(f, old, n) ==
    {IF z.rc = RecordUnits THEN Dropped(z, old) ELSE z : z \in DirectSet(f, n)}
JoinTake(f, old, n, s, k) ==
    [Take(f, s, k) EXCEPT !.ra.ready = NoSlot, !.ra.cur = s,
                          !.ra.slot[old] = EmptySlot, !.rc = n + k]
JoinShort(y, s, have) ==
    {IF z.rc = RecordUnits /\ Remaining(z, s) = 0 THEN Dropped(z, s) ELSE z :
        z \in DirectSet(y, have)}
JoinReady(f, old, n) ==
    LET s == f.ra.ready
        k == Lesser(Remaining(f, s), RecordUnits - n)
        y == JoinTake(f, old, n, s, k)
    IN IF n + k = RecordUnits THEN RaSubmit(y, old)
       ELSE IF f.ra.slot[s].data = <<>> THEN {y}
       ELSE JoinShort(y, s, n + k)

(* Nothing of an earlier pass is left to be served.                        *)
Emptied(w) ==
    IF build = "asyncread"
    THEN /\ w.ra.cur # NoSlot => Remaining(w, w.ra.cur) = 0
         /\ w.ra.ready # NoSlot => w.ra.slot[w.ra.ready].data = <<>>
         /\ w.ra.async # NoSlot => w.ra.slot[w.ra.async].data = <<>>
    ELSE Remaining(w, 0) = 0

-----------------------------------------------------------------------------
(* ------------------------------ sequences ------------------------------ *)
LEMMA FileRun ==
  ASSUME NEW n \in Nat, NEW p \in Nat, NEW k \in Nat, p + k <= n
  PROVE  LET t == SubSeq(Units(n), p + 1, p + k) IN
         t \in Seq(Int) /\ Len(t) = k /\ Run(t, p)
<1> DEFINE f == Units(n)
           j == p + k
<1>1. f \in Seq(Int) /\ Len(f) = n /\ \A i \in 1..n : f[i] = i
  BY UnitsParts
<1>2. j \in Int /\ j <= n /\ j - p = k /\ \A i \in 1..k : p + i \in 1..n
  OBVIOUS
<1> HIDE DEF f, j
<1>3. /\ SubSeq(f, p + 1, j) \in Seq(Int)
      /\ Len(SubSeq(f, p + 1, j)) = IF p < j THEN j - p ELSE 0
      /\ \A i \in 1..(j - p) : SubSeq(f, p + 1, j)[i] = f[p + i]
  BY <1>1, <1>2, Piece
<1>4. Len(SubSeq(f, p + 1, j)) = k
  BY <1>2, <1>3
<1>5. \A i \in 1..k : SubSeq(f, p + 1, j)[i] = p + i
  BY <1>1, <1>2, <1>3
<1> QED BY <1>3, <1>4, <1>5 DEF Run, f, j

LEMMA RunCut ==
  ASSUME NEW s \in Seq(Int), NEW k \in 0..Len(s)
  PROVE  /\ SubSeq(s, 1, k) \in Seq(Int) /\ Len(SubSeq(s, 1, k)) = k
         /\ SubSeq(s, k + 1, Len(s)) \in Seq(Int) /\ Len(SubSeq(s, k + 1, Len(s))) = Len(s) - k
         /\ \A a \in Int : Run(s, a) =>
              Run(SubSeq(s, 1, k), a) /\ Run(SubSeq(s, k + 1, Len(s)), a + k)
<1>1. /\ Len(s) \in Nat /\ 0 \in Nat /\ k \in Nat /\ k \in Int /\ k <= Len(s) /\ 0 + 1 = 1
      /\ k - 0 = k /\ Len(s) \in Int /\ Len(s) <= Len(s)
  OBVIOUS
<1>2. /\ SubSeq(s, 0 + 1, k) \in Seq(Int)
      /\ Len(SubSeq(s, 0 + 1, k)) = IF 0 < k THEN k - 0 ELSE 0
      /\ \A i \in 1..(k - 0) : SubSeq(s, 0 + 1, k)[i] = s[0 + i]
  BY <1>1, Piece
<1>3. /\ SubSeq(s, k + 1, Len(s)) \in Seq(Int)
      /\ Len(SubSeq(s, k + 1, Len(s))) = IF k < Len(s) THEN Len(s) - k ELSE 0
      /\ \A i \in 1..(Len(s) - k) : SubSeq(s, k + 1, Len(s))[i] = s[k + i]
  BY <1>1, Piece
<1>4. /\ SubSeq(s, 1, k) \in Seq(Int) /\ Len(SubSeq(s, 1, k)) = k
      /\ \A i \in 1..k : SubSeq(s, 1, k)[i] = s[i]
  BY <1>1, <1>2
<1>5. Len(SubSeq(s, k + 1, Len(s))) = Len(s) - k
  BY <1>1, <1>3
<1>6. ASSUME NEW a \in Int, Run(s, a)
      PROVE  Run(SubSeq(s, 1, k), a) /\ Run(SubSeq(s, k + 1, Len(s)), a + k)
  <2>1. \A i \in 1..Len(s) : s[i] = a + i
    BY <1>6 DEF Run
  <2>2. \A i \in 1..k : SubSeq(s, 1, k)[i] = a + i
    BY <1>1, <1>4, <2>1
  <2>3. \A i \in 1..(Len(s) - k) : SubSeq(s, k + 1, Len(s))[i] = (a + k) + i
    BY <1>1, <1>3, <2>1
  <2> QED BY <1>4, <1>5, <2>2, <2>3 DEF Run
<1> QED BY <1>3, <1>4, <1>5, <1>6

LEMMA RunJoin ==
  ASSUME NEW s \in Seq(Int), NEW t \in Seq(Int)
  PROVE  /\ s \o t \in Seq(Int) /\ Len(s \o t) = Len(s) + Len(t)
         /\ Len(s) \in Nat /\ Len(t) \in Nat
         /\ \A a \in Int : Run(s, a) /\ Run(t, a + Len(s)) => Run(s \o t, a)
<1>1. /\ s \o t \in Seq(Int) /\ Len(s \o t) = Len(s) + Len(t)
      /\ Len(s) \in Nat /\ Len(t) \in Nat
      /\ \A i \in 1..Len(s) : (s \o t)[i] = s[i]
      /\ \A i \in 1..(Len(s) + Len(t)) : i > Len(s) =>
            i - Len(s) \in 1..Len(t) /\ (s \o t)[i] = t[i - Len(s)]
  BY Joined
<1> DEFINE m == Len(s)
           n == Len(t)
           u == s \o t
<1>2. ASSUME NEW a \in Int, Run(s, a), Run(t, a + m) PROVE Run(u, a)
  <2>1. (\A i \in 1..m : s[i] = a + i) /\ (\A i \in 1..n : t[i] = (a + m) + i)
    BY <1>2 DEF Run
  <2> SUFFICES \A i \in 1..(m + n) : u[i] = a + i
    BY <1>1 DEF Run
  <2> TAKE i \in 1..(m + n)
  <2>2. CASE i \in 1..m
    BY <1>1, <2>1, <2>2
  <2>3. CASE i > m
    <3>1. i - m \in 1..n /\ u[i] = t[i - m]
      BY <1>1, <2>3
    <3>2. t[i - m] = (a + m) + (i - m)
      BY <2>1, <3>1
    <3>3. m \in Nat /\ i \in Nat
      BY <1>1
    <3> HIDE DEF m, n, u
    <3> QED BY <3>1, <3>2, <3>3
  <2>4. m \in Nat /\ n \in Nat
    BY <1>1
  <2> HIDE DEF m, n, u
  <2> QED BY <2>2, <2>3, <2>4
<1> QED BY <1>1, <1>2

LEMMA UnreadParts ==
  ASSUME NEW w \in Worlds, NEW s \in Slots, w.ra.slot[s].off <= Len(w.ra.slot[s].data)
  PROVE  /\ Unread(w, s) \in Seq(Int) /\ Len(Unread(w, s)) = Remaining(w, s)
         /\ Remaining(w, s) \in Nat
<1> DEFINE d == w.ra.slot[s].data
           o == w.ra.slot[s].off
<1>1. d \in Seq(Int) /\ o \in Nat /\ o <= Len(d) /\ Len(d) \in Nat
  BY WorldParts
<1>2. Unread(w, s) = SubSeq(d, o + 1, Len(d)) /\ Remaining(w, s) = Len(d) - o
  BY DEF Unread, Remaining
<1> HIDE DEF d, o
<1>3. o \in 0..Len(d) /\ Len(d) - o \in Nat
  BY <1>1
<1> QED BY <1>1, <1>2, <1>3, RunCut

(* ------------------------------ the cache ------------------------------ *)
LEMMA PutRaParts ==
  ASSUME NEW w \in Worlds, NEW r \in Caches
  PROVE  LET x == PutRa(w, r) IN
         x \in Worlds /\ x.fx = w.fx /\ x.wb = w.wb /\ x.ra = r /\ SameCall(x, w)
BY DEF PutRa, Worlds, SameCall

LEMMA SlotParts ==
  ASSUME NEW r \in Caches, NEW s \in Slots, NEW b \in Buffers
  PROVE  LET q == [r EXCEPT !.slot[s] = b] IN
         /\ q \in Caches /\ q.depth = r.depth /\ q.fd = r.fd /\ q.cur = r.cur
         /\ q.async = r.async /\ q.ready = r.ready /\ q.disabled = r.disabled
         /\ q.slot[s] = b /\ \A t \in Slots : t # s => q.slot[t] = r.slot[t]
BY DEF Caches

LEMMA RaAsyncParts ==
  ASSUME NEW r \in Caches, NEW s \in Slots \cup {NoSlot}
  PROVE  LET q == [r EXCEPT !.async = s] IN
         /\ q \in Caches /\ q.depth = r.depth /\ q.fd = r.fd /\ q.cur = r.cur
         /\ q.async = s /\ q.ready = r.ready /\ q.disabled = r.disabled
         /\ q.slot = r.slot
BY DEF Caches

LEMMA ReadyParts ==
  ASSUME NEW r \in Caches, NEW s \in Slots \cup {NoSlot}
  PROVE  LET q == [r EXCEPT !.ready = s] IN
         /\ q \in Caches /\ q.depth = r.depth /\ q.fd = r.fd /\ q.cur = r.cur
         /\ q.async = r.async /\ q.ready = s /\ q.disabled = r.disabled
         /\ q.slot = r.slot
BY DEF Caches

LEMMA CurParts ==
  ASSUME NEW r \in Caches, NEW s \in Slots \cup {NoSlot}
  PROVE  LET q == [r EXCEPT !.cur = s] IN
         /\ q \in Caches /\ q.depth = r.depth /\ q.fd = r.fd /\ q.cur = s
         /\ q.async = r.async /\ q.ready = r.ready /\ q.disabled = r.disabled
         /\ q.slot = r.slot
BY DEF Caches

LEMMA LinedSame ==
  ASSUME NEW w, NEW x, x.ra = w.ra, x.fx.pos = w.fx.pos, x.fx.rpc = w.fx.rpc,
         x.fx.last = w.fx.last, NEW c
  PROVE  Lined(x, c) <=> Lined(w, c)
BY DEF Lined, Prefetched, Forgotten, Ahead, Arrived, Unread, Remaining

LEMMA ReaderParts ==
  ASSUME NEW w, Reader(w)
  PROVE  /\ w \in Worlds /\ Sound(w) /\ Fetch(w) /\ ~Queued(w, "write") /\ Shape(w.ra)
         /\ \A s \in Slots : /\ w.ra.slot[s].off <= Len(w.ra.slot[s].data)
                             /\ Unread(w, s) \in Seq(Int) /\ Remaining(w, s) \in Nat
                             /\ Len(Unread(w, s)) = Remaining(w, s)
<1>1. w \in Worlds /\ Sound(w) /\ Fetch(w) /\ ~Queued(w, "write") /\ Shape(w.ra)
  BY DEF Reader, Sound
<1>2. \A s \in Slots : w.ra.slot[s].off <= Len(w.ra.slot[s].data)
  BY <1>1 DEF Shape
<1> QED BY <1>1, <1>2, UnreadParts

(* What the wait says of a refill, and what the buffer holds then.         *)
LEMMA HeldParts ==
  ASSUME NEW s \in Seq(Int), NEW k \in Nat
  PROVE  /\ Held(s, k) \in Seq(Int) /\ Len(Held(s, k)) = k
         /\ k <= Len(s) => \A a \in Int : Run(s, a) => Run(Held(s, k), a)
         /\ s = <<>> => \A a \in Int : a + k = 0 => Run(Held(s, k), a)
<1> DEFINE n == Len(s)
           h == Held(s, k)
<1>1. n \in Nat /\ \A i \in 1..n : s[i] \in Int
  OBVIOUS
<1> HIDE DEF n
<1>2. h = [i \in 1..k |-> IF i <= n THEN s[i] ELSE i - k]
  BY DEF Held, n
<1>3. \A i \in 1..k : (IF i <= n THEN s[i] ELSE i - k) \in Int
  BY <1>1
<1>4. h \in [1..k -> Int]
  BY <1>2, <1>3
<1>5. h \in Seq(Int) /\ Len(h) = k /\ \A i \in 1..k : h[i] = IF i <= n THEN s[i] ELSE i - k
  BY <1>2, <1>4
<1> HIDE DEF h
<1>6. ASSUME k <= n, NEW a \in Int, Run(s, a) PROVE Run(h, a)
  <2>1. \A i \in 1..n : s[i] = a + i
    BY <1>6 DEF Run, n
  <2>2. \A i \in 1..k : i \in 1..n /\ i <= n
    BY <1>1, <1>6
  <2> QED BY <1>5, <2>1, <2>2 DEF Run
<1>7. ASSUME s = <<>>, NEW a \in Int, a + k = 0 PROVE Run(h, a)
  <2>1. n = 0
    BY <1>7 DEF n
  <2>2. \A i \in 1..k : ~(i <= n) /\ i - k = a + i
    BY <1>7, <2>1
  <2> QED BY <1>5, <2>2 DEF Run
<1> QED BY <1>5, <1>6, <1>7 DEF h, n

LEMMA RaFinishCases ==
  ASSUME NEW w, Sound(w), w.ra.async # NoSlot, NEW x \in RaFinish(w)
  PROVE  LET s == w.ra.async IN
         \E y \in WaitAsync(w) :
            \/ /\ y.answered /\ y.rc \in 0..BatchUnits
               /\ x = PutRa(SetMode(y, "WAIT"),
                            ArrivedCache(y.ra, s, Held(y.ra.slot[s].data, y.rc)))
            \/ /\ ~(y.answered /\ y.rc \in 0..BatchUnits)
               /\ x = Ret(PutRa(SetMode(y, "WAIT"), LostCache(y.ra, s)), Failed)
<1> DEFINE s == w.ra.async
           v(y) == SetMode([y EXCEPT !.ra.async = NoSlot], "WAIT")
<1>1. PICK y \in WaitAsync(w) :
        x = IF y.answered /\ y.rc \in 0..BatchUnits
            THEN [v(y) EXCEPT !.ra.ready = s,
                              !.ra.slot[s] = [data |-> Held(@.data, y.rc), off |-> 0]]
            ELSE Ret([v(y) EXCEPT !.ra.slot[s] = EmptySlot], Failed)
  BY DEF RaFinish
<1>2. y \in Worlds /\ s \in Slots /\ y.ra \in Caches /\ w \in Worlds
  BY WaitOutcome, WorldParts DEF Sound
<1>3. v(y) = PutRa(SetMode(y, "WAIT"), [y.ra EXCEPT !.async = NoSlot])
  BY <1>2 DEF PutRa, SetMode, Worlds, Clients
<1> DEFINE q == [y.ra EXCEPT !.async = NoSlot]
           u == SetMode(y, "WAIT")
<1>4. q \in Caches /\ u \in Worlds
  BY <1>2, RaAsyncParts, ModeParts
<1>5. q.slot = y.ra.slot
  BY <1>2, RaAsyncParts
<1> DEFINE p == PutRa(u, q)
<1>6. p \in Worlds /\ p.ra = q /\ p.fx = u.fx
  BY <1>4, PutRaParts
<1>7. \A d : [p EXCEPT !.ra.ready = s, !.ra.slot[s] = [data |-> d, off |-> 0]]
             = PutRa(u, [[q EXCEPT !.ready = s] EXCEPT !.slot[s] = [data |-> d, off |-> 0]])
  <2> HIDE DEF q, u, s
  <2> QED BY <1>2, <1>4 DEF PutRa, Worlds, Caches
<1>8. [p EXCEPT !.ra.slot[s] = EmptySlot] = PutRa(u, [q EXCEPT !.slot[s] = EmptySlot])
  <2> HIDE DEF q, u, s
  <2> QED BY <1>2, <1>4 DEF PutRa, Worlds, Caches
<1>9. v(y) = p
  BY <1>3
<1>10. p.ra.slot[s].data = y.ra.slot[s].data
  BY <1>5, <1>6
<1> HIDE DEF p, v
<1>11. CASE y.answered /\ y.rc \in 0..BatchUnits
  <2> DEFINE d == Held(p.ra.slot[s].data, y.rc)
  <2>1. x = [p EXCEPT !.ra.ready = s, !.ra.slot[s] = [data |-> d, off |-> 0]]
    BY <1>1, <1>9, <1>11
  <2> HIDE DEF d
  <2>2. x = PutRa(u, ArrivedCache(y.ra, s, d))
    BY <1>7, <2>1 DEF ArrivedCache
  <2>3. d = Held(y.ra.slot[s].data, y.rc)
    BY <1>10 DEF d
  <2> QED BY <1>11, <2>2, <2>3
<1>12. CASE ~(y.answered /\ y.rc \in 0..BatchUnits)
  <2>1. x = Ret([p EXCEPT !.ra.slot[s] = EmptySlot], Failed)
    BY <1>1, <1>9, <1>12
  <2>2. x = Ret(PutRa(u, LostCache(y.ra, s)), Failed)
    BY <1>8, <2>1 DEF LostCache
  <2> QED BY <1>12, <2>2
<1> QED BY <1>11, <1>12

(* The wait for a prefetch, and what the prefetch brought.                 *)
LEMMA WaitReader ==
  ASSUME NEW w, Reader(w), w.ra.async # NoSlot, NEW y \in WaitAsync(w)
  PROVE  LET s == w.ra.async
             d == Held(y.ra.slot[s].data, y.rc) IN
         /\ Sound(y) /\ y.wb = w.wb /\ y.out = w.out /\ y.fx.open = w.fx.open
         /\ y.fx.file = w.fx.file /\ SameCache(y, w) /\ y.rc \in Int
         /\ \A t \in Slots : t # s => y.ra.slot[t] = w.ra.slot[t]
         /\ y.fx.rpc = NoRequest \/ (~y.answered /\ y.fx.rpc = w.fx.rpc)
         /\ y.answered /\ y.rc >= 0 =>
              /\ y.fx.rpc = NoRequest /\ d \in Seq(Int) /\ Len(d) = y.rc
              /\ w.fx.file = Units(ImageUnits) =>
                   \A c \in Int : Lined(w, c) =>
                      Run(d, Ahead(w, c)) /\ y.fx.pos = Ahead(w, c) + y.rc
<1> DEFINE s == w.ra.async
           d == Held(y.ra.slot[s].data, y.rc)
<1>1. /\ w \in Worlds /\ Sound(w) /\ Fetch(w) /\ ~Queued(w, "write")
      /\ s \in Slots /\ w.ra \in Caches /\ build = "asyncread" /\ w.fx.rpc \in Requests
      /\ w.fx.file \in Seq(Int) /\ w.fx.pos \in Nat
      /\ w.ra.slot[s].data \in Seq(Int)
  BY WorldParts DEF Reader, Fetch, Sound
<1>2. w.fx.rpc.st # "none" =>
          /\ w.fx.rpc.kind = "read" /\ w.fx.rpc.slot = s
          /\ w.fx.rpc.st = "done" => w.fx.rpc.result <= Len(w.ra.slot[s].data)
  BY <1>1 DEF Fetch
<1>3. /\ Sound(y) /\ y.wb = w.wb /\ y.out = w.out
      /\ y.fx.mode = w.fx.mode /\ y.fx.open = w.fx.open
      /\ \/ /\ y.answered /\ y.fx.rpc = NoRequest
            /\ \/ /\ ~Busy(w) /\ SameFile(y, w) /\ y.ra = w.ra
                  /\ y.rc = IF w.fx.rpc.st = "done" THEN w.fx.rpc.result ELSE w.fx.last
               \/ /\ Busy(w) /\ y.rc \in {Failed} \cup (0..BatchUnits)
                  /\ \E v : ServedBy(w, v, y.rc) /\ SameFile(y, v) /\ y.ra = v.ra
         \/ ~y.answered /\ y.rc = Failed /\ SameFile(y, w) /\ y.ra = w.ra
            /\ y.fx.rpc = w.fx.rpc
  BY <1>1, WaitOutcome
<1>4. \A c \in Int : Lined(w, c) =>
        /\ Arrived(w) => /\ Run(w.ra.slot[s].data, Ahead(w, c))
                         /\ Len(w.ra.slot[s].data) = w.fx.rpc.result
                         /\ w.fx.pos = Ahead(w, c) + w.fx.rpc.result
        /\ ~Arrived(w) =>
              /\ w.ra.slot[s].data = <<>>
              /\ IF w.fx.rpc.st = "none" THEN Forgotten(w, Ahead(w, c))
                 ELSE w.fx.pos = Ahead(w, c)
  BY <1>1 DEF Lined, Prefetched
<1> DEFINE Goal == /\ y.rc \in Int /\ y.fx.file = w.fx.file /\ SameCache(y, w)
                   /\ \A t \in Slots : t # s => y.ra.slot[t] = w.ra.slot[t]
                   /\ y.answered /\ y.rc >= 0 =>
                        /\ d \in Seq(Int) /\ Len(d) = y.rc
                        /\ w.fx.file = Units(ImageUnits) =>
                             \A c \in Int : Lined(w, c) =>
                                Run(d, Ahead(w, c)) /\ y.fx.pos = Ahead(w, c) + y.rc
<1>5. ASSUME SameFile(y, w), y.ra = w.ra
      PROVE  /\ y.fx.file = w.fx.file /\ SameCache(y, w) /\ y.fx.pos = w.fx.pos
             /\ \A t \in Slots : t # s => y.ra.slot[t] = w.ra.slot[t]
  BY <1>5 DEF SameFile, SameCache
<1>9. \A c \in Int : Ahead(w, c) \in Int
  <2>1. w.ra.cur \in Slots \cup {NoSlot} /\ \A t \in Slots : Remaining(w, t) \in Nat
    BY <1>1, WorldParts, ReaderParts
  <2>2. w.ra.cur # NoSlot => Remaining(w, w.ra.cur) \in Nat
    BY <2>1
  <2> HIDE DEF s
  <2> QED BY <2>2 DEF Ahead
<1>6. ASSUME ~y.answered, y.rc = Failed, SameFile(y, w), y.ra = w.ra
      PROVE  Goal
  <2>1. Failed \in Int
    BY DEF Failed
  <2> HIDE DEF d
  <2> QED BY <1>5, <1>6, <2>1
<1>7. ASSUME y.answered, ~Busy(w), SameFile(y, w), y.ra = w.ra,
             y.rc = IF w.fx.rpc.st = "done" THEN w.fx.rpc.result ELSE w.fx.last
      PROVE  Goal
  <2> DEFINE t == w.ra.slot[s].data
  <2>1. d = Held(t, y.rc)
    BY <1>7
  <2>2. w.fx.rpc.st = "done" => w.fx.rpc.result \in {Failed} \cup (0..BatchUnits)
    BY <1>1, RequestParts
  <2>3. /\ y.rc \in Int /\ t \in Seq(Int) /\ Len(t) \in Nat
        /\ w.fx.rpc.st = "done" => y.rc <= Len(t)
    <3>1. t \in Seq(Int) /\ Failed \in Int /\ BatchUnits \in Nat /\ w.fx.last \in Int
      BY <1>1, FileXioAssumption, WorldParts DEF Failed
    <3>2. w.fx.rpc.st = "done" => y.rc = w.fx.rpc.result /\ w.fx.rpc.result <= Len(t)
      BY <1>2, <1>7
    <3>3. w.fx.rpc.st # "done" => y.rc = w.fx.last
      BY <1>7
    <3> HIDE DEF t
    <3> QED BY <2>2, <3>1, <3>2, <3>3
  <2>4. ASSUME y.rc >= 0
        PROVE  /\ d \in Seq(Int) /\ Len(d) = y.rc
               /\ \A c \in Int : Lined(w, c) =>
                     Run(d, Ahead(w, c)) /\ y.fx.pos = Ahead(w, c) + y.rc
    <3>1. t \in Seq(Int) /\ y.rc \in Nat
      BY <2>3, <2>4
    <3>2. /\ d \in Seq(Int) /\ Len(d) = y.rc
          /\ y.rc <= Len(t) => \A a \in Int : Run(t, a) => Run(d, a)
          /\ t = <<>> => \A a \in Int : a + y.rc = 0 => Run(d, a)
      <4> HIDE DEF d, t
      <4> QED BY <2>1, <3>1, HeldParts
    <3>3. ASSUME NEW c \in Int, Lined(w, c)
          PROVE  Run(d, Ahead(w, c)) /\ y.fx.pos = Ahead(w, c) + y.rc
      <4>1. CASE w.fx.rpc.st = "done"
        <5>1. Arrived(w) /\ y.rc = w.fx.rpc.result
          BY <1>7, <2>4, <4>1 DEF Arrived
        <5>2. Run(t, Ahead(w, c)) /\ Len(t) = y.rc /\ w.fx.pos = Ahead(w, c) + y.rc
          BY <1>4, <3>3, <5>1
        <5>3. Run(d, Ahead(w, c))
          <6> HIDE DEF d, t
          <6> QED BY <1>9, <2>3, <3>2, <4>1, <5>2
        <5> QED BY <1>5, <1>7, <5>2, <5>3
      <4>2. CASE w.fx.rpc.st # "done"
        <5>1. ~Arrived(w) /\ y.rc = w.fx.last /\ w.fx.rpc.st = "none"
          BY <1>1, <1>7, <4>2, RequestParts DEF Arrived, Busy
        <5>2. t = <<>> /\ w.fx.pos = 0 /\ Ahead(w, c) + w.fx.last = 0
          BY <1>4, <3>3, <5>1 DEF Forgotten
        <5>3. Run(d, Ahead(w, c))
          <6> HIDE DEF d, t
          <6> QED BY <1>9, <3>2, <5>1, <5>2
        <5>4. y.fx.pos = Ahead(w, c) + y.rc
          BY <1>5, <1>7, <5>1, <5>2
        <5> QED BY <5>3, <5>4
      <4> QED BY <4>1, <4>2
    <3> QED BY <3>2, <3>3
  <2> HIDE DEF d
  <2>5. y.fx.file = w.fx.file /\ SameCache(y, w) /\ \A r \in Slots : r # s => y.ra.slot[r] = w.ra.slot[r]
    BY <1>5, <1>7
  <2> HIDE DEF s
  <2> QED BY <2>3, <2>4, <2>5
<1>8. ASSUME Busy(w), y.rc \in {Failed} \cup (0..BatchUnits),
             NEW v, ServedBy(w, v, y.rc), SameFile(y, v), y.ra = v.ra
      PROVE  Goal
  <2>1. w.fx.rpc.st = "queued" /\ w.fx.rpc.kind = "read" /\ w.fx.rpc.slot = s
    BY <1>2, <1>8 DEF Busy
  <2>2. CASE y.rc = Failed
    <3>1. SameFile(v, w) /\ v.ra = w.ra
      BY <1>8, <2>2 DEF ServedBy
    <3>2. SameFile(y, w) /\ y.ra = w.ra
      BY <1>8, <3>1 DEF SameFile
    <3>3. Failed \in Int /\ ~(Failed >= 0)
      BY DEF Failed
    <3> QED BY <1>5, <2>2, <3>2, <3>3
  <2>3. CASE y.rc # Failed
    <3> DEFINE k == y.rc
               f == w.fx.file
               p == w.fx.pos
               j == p + k
               t == SubSeq(f, p + 1, j)
    <3>1. /\ k \in Nat /\ v.fx.pos = p + k /\ v.fx.pos <= Len(f) /\ v.fx.file = f
          /\ v.ra = [w.ra EXCEPT !.slot[s] = [data |-> t, off |-> w.ra.slot[s].off]]
      BY <1>8, <2>1, <2>3, FileXioAssumption DEF ServedBy
    <3>2. p \in Nat /\ f \in Seq(Int) /\ j \in Int /\ j <= Len(f) /\ j - p = k
      BY <1>1, <3>1
    <3>3. t \in Seq(Int) /\ Len(t) = k
      <4>1. p \in Nat /\ f \in Seq(Int) /\ j \in Int /\ j <= Len(f) /\ j - p = k /\ k \in Nat
        BY <3>1, <3>2
      <4> HIDE DEF f, p, j, k
      <4>2. SubSeq(f, p + 1, j) \in Seq(Int) /\ Len(SubSeq(f, p + 1, j)) = IF p < j THEN j - p ELSE 0
        BY <4>1, Piece
      <4>3. p < j \/ k = 0
        BY <4>1
      <4> QED BY <4>1, <4>2, <4>3
    <3>4. w.ra.slot[s].off \in Nat
      BY <1>1, WorldParts
    <3>5. /\ v.ra.slot[s].data = t /\ SameCache(v, w)
          /\ \A r \in Slots : r # s => v.ra.slot[r] = w.ra.slot[r]
      <4> DEFINE b == [data |-> t, off |-> w.ra.slot[s].off]
                 q == [w.ra EXCEPT !.slot[s] = b]
      <4>1. b \in Buffers /\ b.data = t
        <5> HIDE DEF t, s
        <5> QED BY <3>3, <3>4 DEF Buffers
      <4> HIDE DEF b
      <4>2. /\ q.depth = w.ra.depth /\ q.fd = w.ra.fd /\ q.cur = w.ra.cur
            /\ q.async = w.ra.async /\ q.ready = w.ra.ready /\ q.disabled = w.ra.disabled
            /\ q.slot[s] = b /\ \A r \in Slots : r # s => q.slot[r] = w.ra.slot[r]
        <5>1. w.ra \in Caches /\ s \in Slots /\ b \in Buffers
          BY <1>1, <4>1
        <5> HIDE DEF s, t, f, p, j, k, d
        <5> USE DEF q
        <5>2. q.slot[s] = b /\ \A r \in Slots : r # s => q.slot[r] = w.ra.slot[r]
          BY <5>1, SlotParts, ZenonT(30)
        <5>3. /\ q.depth = w.ra.depth /\ q.fd = w.ra.fd /\ q.cur = w.ra.cur
              /\ q.async = w.ra.async /\ q.ready = w.ra.ready /\ q.disabled = w.ra.disabled
          BY <5>1, SlotParts
        <5> QED BY <5>2, <5>3
      <4>3. v.ra = q
        BY <3>1 DEF b
      <4> HIDE DEF q, t, s
      <4> QED BY <4>1, <4>2, <4>3 DEF SameCache
    <3>6. /\ y.fx.file = w.fx.file /\ y.fx.pos = p + k /\ SameCache(y, w) /\ y.ra.slot[s].data = t
          /\ \A r \in Slots : r # s => y.ra.slot[r] = w.ra.slot[r]
      BY <1>8, <3>1, <3>5 DEF SameFile, SameCache
    <3>7. d \in Seq(Int) /\ Len(d) = k /\ \A a \in Int : Run(t, a) => Run(d, a)
      <4>1. d = Held(t, k)
        BY <3>6
      <4> HIDE DEF d, t, k
      <4>2. k <= Len(t)
        BY <3>1, <3>3
      <4> QED BY <3>1, <3>3, <4>1, <4>2, HeldParts
    <3>8. ASSUME w.fx.file = Units(ImageUnits), NEW c \in Int, Lined(w, c)
          PROVE  Run(d, Ahead(w, c)) /\ y.fx.pos = Ahead(w, c) + k
      <4>1. p = Ahead(w, c)
        BY <1>4, <2>1, <3>8 DEF Arrived
      <4>2. Run(t, p)
        <5>1. ImageUnits \in Nat /\ p + k <= ImageUnits
          BY <3>1, <3>8, FileXioAssumption, UnitsParts
        <5> HIDE DEF k, p
        <5> QED BY <3>1, <3>2, <3>8, <5>1, FileRun
      <4> HIDE DEF d, t, k, p, Ahead, Run
      <4> QED BY <3>2, <3>6, <3>7, <4>1, <4>2
    <3> HIDE DEF d, t
    <3> QED BY <3>1, <3>6, <3>7, <3>8
  <2> QED BY <2>2, <2>3
<1> HIDE DEF d
<1> QED BY <1>3, <1>6, <1>7, <1>8 DEF d

LEMMA SpotSame ==
  ASSUME NEW w, NEW x, x.ra = w.ra, x.fx.pos = w.fx.pos, x.fx.rpc = w.fx.rpc,
         x.fx.last = w.fx.last, x.fx.file = w.fx.file, x.out = w.out, NEW c
  PROVE  Spot(x, c) <=> Spot(w, c)
<1>1. \A a : Lined(x, a) <=> Lined(w, a)
  BY LinedSame
<1> QED BY <1>1 DEF Spot

LEMMA FetchSame ==
  ASSUME NEW w, Fetch(w), NEW x, x.ra = w.ra, x.fx.rpc = w.fx.rpc
  PROVE  Fetch(x)
BY DEF Fetch

(* Only the mode of the client and the result differ.                      *)
LEMMA RetMoves ==
  ASSUME NEW w, Reader(w), NEW n \in Int
  PROVE  LET x == Ret(w, n) IN
         /\ Moves(w, x) /\ x.out = w.out /\ x.ra = w.ra /\ x.fx = w.fx /\ x.rc = n
         /\ \A c : Spot(w, c) => Spot(x, c)
<1> DEFINE x == Ret(w, n)
<1>1. w \in Worlds /\ Sound(w) /\ Fetch(w) /\ ~Queued(w, "write")
  BY ReaderParts
<1>2. /\ x \in Worlds /\ x.fx = w.fx /\ x.wb = w.wb /\ x.ra = w.ra /\ x.rc = n /\ x.out = w.out
  BY <1>1, RetParts
<1> HIDE DEF x
<1>3. SameFile(x, w)
  BY <1>2 DEF SameFile
<1>4. Sound(x)
  BY <1>1, <1>2, <1>3, SoundSame
<1>5. Fetch(x)
  BY <1>1, <1>2, FetchSame
<1>6. \A c : Spot(w, c) => Spot(x, c)
  BY <1>2, SpotSame
<1>7. ~Queued(x, "write")
  BY <1>1, <1>2 DEF Queued
<1>8. Reads(w, x)
  BY <1>2, <1>4, <1>5, <1>7 DEF Reads, Reader
<1>9. Flows(w, x)
  BY <1>6 DEF Flows
<1> QED BY <1>2, <1>6, <1>8, <1>9 DEF Moves, x

LEMMA MovesTwice ==
  ASSUME NEW w, NEW y, NEW x, Moves(w, y), y.rc >= 0, Moves(y, x)
  PROVE  Moves(w, x)
<1>1. Reads(w, x)
  BY DEF Moves, Reads
<1>2. Flows(w, x)
  BY DEF Moves, Flows
<1> QED BY <1>1, <1>2 DEF Moves

LEMMA MovesReader ==
  ASSUME NEW w, NEW x, Moves(w, x)
  PROVE  Reader(x) /\ x.wb = w.wb /\ x.fx.open = w.fx.open /\ x.fx.file = w.fx.file
BY DEF Moves, Reads

LEMMA BuffersParts ==
  /\ EmptySlot \in Buffers /\ EmptySlot.data = <<>> /\ EmptySlot.off = 0 /\ Len(EmptySlot.data) = 0
  /\ \A d \in Seq(Int), n \in Nat :
        LET b == [data |-> d, off |-> n] IN b \in Buffers /\ b.data = d /\ b.off = n
BY DEF EmptySlot, Buffers

LEMMA ArrivedParts ==
  ASSUME NEW r \in Caches, NEW s \in Slots, NEW d \in Seq(Int)
  PROVE  LET q == ArrivedCache(r, s, d) IN
         /\ q \in Caches /\ q.depth = r.depth /\ q.fd = r.fd /\ q.cur = r.cur
         /\ q.async = NoSlot /\ q.ready = s /\ q.disabled = r.disabled
         /\ q.slot[s].data = d /\ q.slot[s].off = 0
         /\ \A t \in Slots : t # s => q.slot[t] = r.slot[t]
<1> DEFINE q1 == [r EXCEPT !.async = NoSlot]
           q2 == [q1 EXCEPT !.ready = s]
           b == [data |-> d, off |-> 0]
           q3 == [q2 EXCEPT !.slot[s] = b]
<1>1. b \in Buffers /\ b.data = d /\ b.off = 0
  BY BuffersParts
<1>2. /\ q1 \in Caches /\ q1.depth = r.depth /\ q1.fd = r.fd /\ q1.cur = r.cur
      /\ q1.async = NoSlot /\ q1.ready = r.ready /\ q1.disabled = r.disabled
      /\ q1.slot = r.slot
  BY RaAsyncParts
<1> HIDE DEF q1, b
<1>3. /\ q2 \in Caches /\ q2.depth = q1.depth /\ q2.fd = q1.fd /\ q2.cur = q1.cur
      /\ q2.async = q1.async /\ q2.ready = s /\ q2.disabled = q1.disabled
      /\ q2.slot = q1.slot
  BY <1>2, ReadyParts
<1> HIDE DEF q2
<1>9. q2 \in Caches /\ b \in Buffers
  BY <1>1, <1>3
<1>4. /\ q3 \in Caches /\ q3.depth = q2.depth /\ q3.fd = q2.fd /\ q3.cur = q2.cur
      /\ q3.async = q2.async /\ q3.ready = q2.ready /\ q3.disabled = q2.disabled
      /\ q3.slot[s] = b /\ \A t \in Slots : t # s => q3.slot[t] = q2.slot[t]
  BY <1>9, SlotParts
<1>5. ArrivedCache(r, s, d) = q3
  BY DEF ArrivedCache, q1, q2, b
<1> HIDE DEF q3
<1> QED BY <1>1, <1>2, <1>3, <1>4, <1>5

LEMMA LostParts ==
  ASSUME NEW r \in Caches, NEW s \in Slots
  PROVE  LET q == LostCache(r, s) IN
         /\ q \in Caches /\ q.depth = r.depth /\ q.fd = r.fd /\ q.cur = r.cur
         /\ q.async = NoSlot /\ q.ready = r.ready /\ q.disabled = r.disabled
         /\ q.slot[s] = EmptySlot
         /\ \A t \in Slots : t # s => q.slot[t] = r.slot[t]
<1> DEFINE q1 == [r EXCEPT !.async = NoSlot]
           q3 == [q1 EXCEPT !.slot[s] = EmptySlot]
<1>1. /\ q1 \in Caches /\ q1.depth = r.depth /\ q1.fd = r.fd /\ q1.cur = r.cur
      /\ q1.async = NoSlot /\ q1.ready = r.ready /\ q1.disabled = r.disabled
      /\ q1.slot = r.slot
  BY RaAsyncParts
<1> HIDE DEF q1
<1>4. EmptySlot \in Buffers
  BY BuffersParts
<1>2. /\ q3 \in Caches /\ q3.depth = q1.depth /\ q3.fd = q1.fd /\ q3.cur = q1.cur
      /\ q3.async = q1.async /\ q3.ready = q1.ready /\ q3.disabled = q1.disabled
      /\ q3.slot[s] = EmptySlot /\ \A t \in Slots : t # s => q3.slot[t] = q1.slot[t]
  BY <1>1, <1>4, SlotParts, SMTT(30)
<1>3. LostCache(r, s) = q3
  BY DEF LostCache, q1
<1> HIDE DEF q3
<1> QED BY <1>1, <1>2, <1>3

LEMMA SwapParts ==
  ASSUME NEW r \in Caches, NEW old \in Slots, NEW s \in Slots
  PROVE  LET q == SwapCache(r, old, s) IN
         /\ q \in Caches /\ q.depth = r.depth /\ q.fd = r.fd /\ q.cur = s
         /\ q.async = r.async /\ q.ready = NoSlot /\ q.disabled = r.disabled
         /\ q.slot[old] = EmptySlot
         /\ \A t \in Slots : t # old => q.slot[t] = r.slot[t]
<1> DEFINE q1 == [r EXCEPT !.ready = NoSlot]
           q2 == [q1 EXCEPT !.cur = s]
           q3 == [q2 EXCEPT !.slot[old] = EmptySlot]
<1>1. /\ q1 \in Caches /\ q1.depth = r.depth /\ q1.fd = r.fd /\ q1.cur = r.cur
      /\ q1.async = r.async /\ q1.ready = NoSlot /\ q1.disabled = r.disabled
      /\ q1.slot = r.slot
  BY ReadyParts
<1> HIDE DEF q1
<1>2. /\ q2 \in Caches /\ q2.depth = q1.depth /\ q2.fd = q1.fd /\ q2.cur = s
      /\ q2.async = q1.async /\ q2.ready = q1.ready /\ q2.disabled = q1.disabled
      /\ q2.slot = q1.slot
  BY <1>1, CurParts
<1> HIDE DEF q2
<1>9. q2 \in Caches /\ EmptySlot \in Buffers
  BY <1>2, BuffersParts
<1>3. /\ q3 \in Caches /\ q3.depth = q2.depth /\ q3.fd = q2.fd /\ q3.cur = q2.cur
      /\ q3.async = q2.async /\ q3.ready = q2.ready /\ q3.disabled = q2.disabled
      /\ q3.slot[old] = EmptySlot /\ \A t \in Slots : t # old => q3.slot[t] = q2.slot[t]
  BY <1>9, SlotParts
<1>4. SwapCache(r, old, s) = q3
  BY DEF SwapCache, q1, q2
<1> HIDE DEF q3
<1> QED BY <1>1, <1>2, <1>3, <1>4

(* Setting the cache of a reader whose prefetch was settled.               *)
LEMMA PutRaReads ==
  ASSUME NEW y, Sound(y), ~Queued(y, "write"), NEW r \in Caches,
         \A t \in Slots : r.slot[t].off <= Len(r.slot[t].data),
         Shape(r), r.async = NoSlot, r.cur # NoSlot => build = "asyncread",
         Queued(y, "read") => /\ r.slot[y.fx.rpc.slot].off = 0
                              /\ r.cur # y.fx.rpc.slot /\ r.ready = NoSlot
  PROVE  LET x == PutRa(y, r) IN
         /\ Reader(x) /\ x.fx = y.fx /\ x.wb = y.wb /\ x.ra = r
         /\ x.out = y.out /\ x.rc = y.rc /\ x \in Worlds
<1> DEFINE x == PutRa(y, r)
<1>1. y \in Worlds
  BY DEF Sound
<1>2. /\ x \in Worlds /\ x.fx = y.fx /\ x.wb = y.wb /\ x.ra = r /\ x.out = y.out /\ x.rc = y.rc
  BY <1>1, PutRaParts DEF SameCall
<1> HIDE DEF x
<1>3. ~Queued(x, "write") /\ (Queued(x, "read") <=> Queued(y, "read"))
  BY <1>2 DEF Queued
<1>4. Sound(x)
  BY <1>2, <1>3 DEF Sound
<1>5. Fetch(x)
  BY <1>2 DEF Fetch
<1> QED BY <1>2, <1>3, <1>4, <1>5 DEF Reader, x

(* The prefetch is settled: it is the refill that is ready, or it is lost. *)
LEMMA RaFinishOutcome ==
  ASSUME NEW w, Reader(w), NEW x \in RaFinish(w)
  PROVE  /\ Moves(w, x) /\ x.out = w.out /\ x.rc \in {Failed} \cup Nat
         /\ x.ra.async = NoSlot /\ x.ra.cur = w.ra.cur /\ x.ra.fd = w.ra.fd
         /\ \A t \in Slots : t # w.ra.async => x.ra.slot[t] = w.ra.slot[t]
         /\ w.ra.async = NoSlot => x.ra = w.ra /\ x.fx = w.fx /\ x.rc = 0
         /\ w.ra.async # NoSlot /\ x.rc >= 0 =>
               /\ x.ra.ready = w.ra.async /\ x.fx.rpc = NoRequest
               /\ x.fx.pos = w.fx.pos \/ Busy(w)
<1>1. /\ w \in Worlds /\ Sound(w) /\ Fetch(w) /\ ~Queued(w, "write") /\ Shape(w.ra)
      /\ w.ra \in Caches /\ w.ra.async \in Slots \cup {NoSlot}
  BY ReaderParts, WorldParts
<1>2. CASE w.ra.async = NoSlot
  <2>1. x = Ret(w, 0) /\ 0 \in Int
    BY <1>2 DEF RaFinish
  <2>2. /\ Moves(w, x) /\ x.out = w.out /\ x.ra = w.ra /\ x.fx = w.fx /\ x.rc = 0
    BY <2>1, RetMoves
  <2> QED BY <1>2, <2>2
<1>3. CASE w.ra.async # NoSlot
  <2> DEFINE s == w.ra.async
  <2>1. s \in Slots
    BY <1>1, <1>3
  <2>2. PICK y \in WaitAsync(w) :
            \/ /\ y.answered /\ y.rc \in 0..BatchUnits
               /\ x = PutRa(SetMode(y, "WAIT"),
                            ArrivedCache(y.ra, s, Held(y.ra.slot[s].data, y.rc)))
            \/ /\ ~(y.answered /\ y.rc \in 0..BatchUnits)
               /\ x = Ret(PutRa(SetMode(y, "WAIT"), LostCache(y.ra, s)), Failed)
    BY <1>1, <1>3, RaFinishCases
  <2> DEFINE d == Held(y.ra.slot[s].data, y.rc)
             u == SetMode(y, "WAIT")
  <2>3. /\ Sound(y) /\ y.wb = w.wb /\ y.out = w.out /\ y.fx.open = w.fx.open
        /\ y.fx.file = w.fx.file /\ SameCache(y, w) /\ y.rc \in Int
        /\ \A t \in Slots : t # s => y.ra.slot[t] = w.ra.slot[t]
        /\ y.fx.rpc = NoRequest \/ (~y.answered /\ y.fx.rpc = w.fx.rpc)
        /\ y.answered /\ y.rc >= 0 =>
             /\ y.fx.rpc = NoRequest /\ d \in Seq(Int) /\ Len(d) = y.rc
             /\ w.fx.file = Units(ImageUnits) =>
                  \A c \in Int : Lined(w, c) =>
                     Run(d, Ahead(w, c)) /\ y.fx.pos = Ahead(w, c) + y.rc
    BY <1>3, WaitReader
  <2>4. y \in Worlds /\ y.ra \in Caches /\ y.ra.async = s /\ Shape(y.ra) /\ build = "asyncread"
    BY <1>1, <1>3, <2>3, WorldParts DEF Sound, SameCache, Fetch
  <2>5. /\ u \in Worlds /\ u.wb = y.wb /\ u.ra = y.ra /\ u.rc = y.rc /\ u.out = y.out
        /\ SameFile(u, y) /\ u.fx.rpc = y.fx.rpc
    BY <2>4, ModeParts DEF SameCall
  <2> HIDE DEF u
  <2>6. Sound(u)
    BY <2>3, <2>5, SoundSame
  <2>7. u.fx.rpc \in {NoRequest, w.fx.rpc} /\ ~Queued(u, "write")
    BY <1>1, <2>3, <2>5 DEF Queued, NoRequest
  <2>8. y.ra.cur = w.ra.cur /\ y.ra.fd = w.ra.fd /\ y.ra.depth = w.ra.depth
        /\ y.ra.ready = NoSlot /\ y.ra.cur # s /\ y.ra.cur # NoSlot
        /\ y.ra.cur \in Slots
    BY <1>1, <1>3, <2>3, <2>4, WorldParts DEF SameCache, Shape
  <2>9. u.fx.open = w.fx.open /\ u.fx.file = w.fx.file /\ u.fx.pos = y.fx.pos
    BY <2>3, <2>5 DEF SameFile
  <2>10. \A t \in Slots : y.ra.slot[t].off <= Len(y.ra.slot[t].data)
    BY <2>4 DEF Shape
  <2>11. CASE y.answered /\ y.rc \in 0..BatchUnits
    <3>0. y.answered /\ y.rc >= 0 /\ y.rc \in Nat
      BY <2>11
    <3> DEFINE q == ArrivedCache(y.ra, s, d)
    <3>1. x = PutRa(u, q)
      BY <2>2, <2>11 DEF u
    <3>2. d \in Seq(Int) /\ Len(d) = y.rc /\ u.fx.rpc = NoRequest /\ y.rc \in Nat
      BY <2>3, <2>5, <3>0
    <3> HIDE DEF d, s
    <3>3. /\ q \in Caches /\ q.depth = y.ra.depth /\ q.fd = y.ra.fd /\ q.cur = y.ra.cur
          /\ q.async = NoSlot /\ q.ready = s /\ q.disabled = y.ra.disabled
          /\ q.slot[s].data = d /\ q.slot[s].off = 0
          /\ \A t \in Slots : t # s => q.slot[t] = y.ra.slot[t]
      BY <2>1, <2>4, <3>2, ArrivedParts
    <3> HIDE DEF q
    <3>4. \A t \in Slots : q.slot[t].off <= Len(q.slot[t].data)
      <4>1. Len(d) \in Nat
        BY <3>2
      <4> TAKE t \in Slots
      <4>2. CASE t = s
        BY <3>3, <4>1, <4>2
      <4>3. CASE t # s
        BY <2>10, <3>3, <4>3
      <4> QED BY <4>2, <4>3
    <3>5. Shape(q)
      BY <2>8, <3>3, <3>4 DEF Shape
    <3>6. ~Queued(u, "read")
      BY <3>2 DEF Queued, NoRequest
    <3>7. /\ Reader(x) /\ x.fx = u.fx /\ x.wb = u.wb /\ x.ra = q /\ x.out = u.out /\ x.rc = u.rc
      BY <2>4, <2>6, <2>7, <3>1, <3>3, <3>4, <3>5, <3>6, PutRaReads
    <3>8. Reads(w, x) /\ x.out = w.out /\ x.rc = y.rc
      BY <2>3, <2>5, <2>8, <2>9, <3>3, <3>7 DEF Reads
    <3>9. ASSUME NEW c \in Int, Spot(w, c)
          PROVE  Spot(x, c)
      <4> DEFINE a == c + Len(w.out)
      <4>1. a \in Int
        BY <1>1, WorldParts
      <4> HIDE DEF a
      <4>2. w.fx.file = Units(ImageUnits) /\ Run(w.out, c) /\ Lined(w, a)
        BY <3>9 DEF Spot, a
      <4>3. Run(d, Ahead(w, a)) /\ y.fx.pos = Ahead(w, a) + y.rc
        BY <2>3, <3>0, <4>1, <4>2 DEF d
      <4>4. x.ra.cur = w.ra.cur /\ x.ra.slot[w.ra.cur] = w.ra.slot[w.ra.cur]
        BY <2>3, <2>8, <3>3, <3>7 DEF s
      <4>5. Unread(x, x.ra.cur) = Unread(w, w.ra.cur) /\ Ahead(x, a) = Ahead(w, a)
        BY <4>4 DEF Unread, Ahead, Remaining
      <4>6. w.ra.cur # NoSlot => Run(Unread(w, w.ra.cur), a)
        BY <2>4, <4>2 DEF Lined, Prefetched
      <4>7. x.ra.ready = s /\ x.ra.async = NoSlot /\ x.ra.slot[s].data = d
            /\ x.fx.rpc = NoRequest /\ x.fx.pos = y.fx.pos
        BY <2>9, <3>2, <3>3, <3>7
      <4>8. s # NoSlot
        BY <1>3 DEF s
      <4>9. Prefetched(x, a)
        <5>1. x.ra.cur # NoSlot => Run(Unread(x, x.ra.cur), a)
          BY <4>4, <4>5, <4>6
        <5>2. /\ Run(x.ra.slot[x.ra.ready].data, Ahead(x, a))
              /\ x.fx.pos = Ahead(x, a) + Len(x.ra.slot[x.ra.ready].data)
          BY <3>2, <4>3, <4>5, <4>7
        <5>3. x.fx.rpc.st # "queued"
          BY <4>7 DEF NoRequest
        <5> QED BY <4>7, <4>8, <5>1, <5>2, <5>3 DEF Prefetched
      <4>10. Lined(x, a)
        BY <2>4, <4>9 DEF Lined
      <4>11. x.fx.file = w.fx.file
        BY <2>9, <3>7
      <4> QED BY <3>8, <4>2, <4>10, <4>11 DEF Spot, a
    <3>10. Moves(w, x)
      BY <2>3, <3>8, <3>9 DEF Moves, Flows
    <3>11. \A t \in Slots : t # s => x.ra.slot[t] = w.ra.slot[t]
      BY <2>3, <3>3, <3>7
    <3>12. x.fx.pos = w.fx.pos \/ Busy(w)
      <4>1. SUFFICES ASSUME ~Busy(w) PROVE x.fx.pos = w.fx.pos
        OBVIOUS
      <4>2. SameFile(y, w)
        BY <1>1, <2>11, <4>1, WaitOutcome
      <4> QED BY <2>9, <3>7, <4>2 DEF SameFile
    <3>13. /\ x.ra.async = NoSlot /\ x.ra.cur = w.ra.cur /\ x.ra.fd = w.ra.fd /\ x.ra.ready = s
           /\ x.fx.rpc = NoRequest /\ x.rc \in Nat
      BY <2>8, <3>2, <3>3, <3>7, <3>8
    <3> QED BY <1>3, <3>8, <3>10, <3>11, <3>12, <3>13 DEF s
  <2>12. CASE ~(y.answered /\ y.rc \in 0..BatchUnits)
    <3> DEFINE q == LostCache(y.ra, s)
               z == PutRa(u, q)
    <3>1. x = Ret(z, Failed)
      BY <2>2, <2>12 DEF u
    <3> HIDE DEF s
    <3>2. /\ q \in Caches /\ q.depth = y.ra.depth /\ q.fd = y.ra.fd /\ q.cur = y.ra.cur
          /\ q.async = NoSlot /\ q.ready = y.ra.ready /\ q.disabled = y.ra.disabled
          /\ q.slot[s] = EmptySlot
          /\ \A t \in Slots : t # s => q.slot[t] = y.ra.slot[t]
      BY <2>1, <2>4, LostParts
    <3> HIDE DEF q
    <3>3. \A t \in Slots : q.slot[t].off <= Len(q.slot[t].data)
      BY <2>10, <3>2, BuffersParts
    <3>4. Shape(q)
      BY <2>8, <3>2, <3>3 DEF Shape
    <3>5. Queued(u, "read") => /\ q.slot[u.fx.rpc.slot].off = 0
                               /\ q.cur # u.fx.rpc.slot /\ q.ready = NoSlot
      <4>1. SUFFICES ASSUME Queued(u, "read")
                     PROVE  /\ q.slot[u.fx.rpc.slot].off = 0
                            /\ q.cur # u.fx.rpc.slot /\ q.ready = NoSlot
        OBVIOUS
      <4>2. u.ra.slot[u.fx.rpc.slot].off = 0 /\ u.ra.cur # u.fx.rpc.slot
        BY <2>6, <4>1 DEF Sound
      <4>3. u.fx.rpc.slot \in Slots
        <5>1. u.fx.rpc \in Requests /\ u.fx.rpc.st # "none"
          BY <2>5, <4>1, WorldParts DEF Queued
        <5> QED BY <5>1, RequestParts
      <4>4. q.slot[u.fx.rpc.slot] \in {EmptySlot, u.ra.slot[u.fx.rpc.slot]}
        BY <2>5, <3>2, <4>3
      <4> QED BY <2>5, <2>8, <3>2, <4>2, <4>4, BuffersParts
    <3>6. /\ Reader(z) /\ z.fx = u.fx /\ z.wb = u.wb /\ z.ra = q /\ z.out = u.out
      BY <2>4, <2>6, <2>7, <3>2, <3>3, <3>4, <3>5, PutRaReads
    <3> HIDE DEF z
    <3>7. Failed \in Int /\ ~(Failed >= 0)
      BY DEF Failed
    <3>8. Moves(z, x) /\ x.out = z.out /\ x.ra = z.ra /\ x.fx = z.fx /\ x.rc = Failed
      BY <3>1, <3>6, <3>7, RetMoves
    <3>9. Reads(w, x)
      BY <2>3, <2>5, <2>8, <2>9, <3>2, <3>6, <3>8 DEF Reads, Moves
    <3>10. Moves(w, x)
      BY <3>7, <3>8, <3>9 DEF Moves, Flows
    <3>11. \A t \in Slots : t # s => x.ra.slot[t] = w.ra.slot[t]
      BY <2>3, <3>2, <3>6, <3>8
    <3>12. /\ x.ra.async = NoSlot /\ x.ra.cur = w.ra.cur /\ x.ra.fd = w.ra.fd
           /\ x.out = w.out
      BY <2>3, <2>5, <2>8, <3>2, <3>6, <3>8
    <3> QED BY <1>3, <3>7, <3>8, <3>10, <3>11, <3>12 DEF s
  <2> QED BY <2>11, <2>12
<1> QED BY <1>2, <1>3

(* A call that waits for the prefetch first leaves the record being handed *)
(* out alone.                                                              *)
LEMMA RestedReader ==
  ASSUME NEW w, Reader(w), NEW v, Rested(w, v)
  PROVE  /\ v.fx.file = w.fx.file /\ SameCache(v, w)
         /\ ~Busy(w) => v.ra = w.ra /\ v.fx.pos = w.fx.pos
         /\ w.ra.cur # NoSlot => v.ra.slot[w.ra.cur] = w.ra.slot[w.ra.cur]
         /\ \A t \in Slots : v.ra.slot[t].off = w.ra.slot[t].off
<1>1. w \in Worlds /\ Sound(w) /\ w.ra \in Caches /\ w.fx.rpc \in Requests /\ ~Queued(w, "write")
  BY ReaderParts, WorldParts
<1>2. SameCache(v, w)
  BY <1>1, RestedCache
<1>3. CASE ~Busy(w)
  <2>1. SameFile(v, w) /\ v.ra = w.ra
    BY <1>3 DEF Rested
  <2> QED BY <1>2, <2>1 DEF SameFile
<1>4. CASE Busy(w)
  <2>1. PICK k \in {Failed} \cup (0..BatchUnits), u \in Worlds :
               ServedBy(w, u, k) /\ SameFile(v, u) /\ v.ra = u.ra
    BY <1>4 DEF Rested
  <2>2. w.fx.rpc.kind = "read" /\ w.fx.rpc.slot \in Slots /\ Queued(w, "read")
    BY <1>1, <1>4, RequestParts DEF Busy, Queued, Calls
  <2>3. w.ra.cur # w.fx.rpc.slot
    BY <1>1, <2>2 DEF Sound
  <2>4. CASE k = Failed
    <3>1. SameFile(u, w) /\ u.ra = w.ra
      BY <2>1, <2>4 DEF ServedBy
    <3> QED BY <1>2, <1>4, <2>1, <3>1 DEF SameFile
  <2>5. CASE k # Failed
    <3> DEFINE s == w.fx.rpc.slot
               d == SubSeq(w.fx.file, w.fx.pos + 1, w.fx.pos + k)
               b == [data |-> d, off |-> w.ra.slot[s].off]
               q == [w.ra EXCEPT !.slot[s] = b]
    <3>1. u.fx.file = w.fx.file /\ u.ra = q
      BY <2>1, <2>2, <2>5 DEF ServedBy
    <3>2. b.off = w.ra.slot[s].off
      OBVIOUS
    <3> HIDE DEF b
    <3>3. w.ra \in [depth : Nat, fd : Fds \cup {0}, cur : Slots \cup {NoSlot},
                    async : Slots \cup {NoSlot}, ready : Slots \cup {NoSlot},
                    disabled : BOOLEAN, slot : [Slots -> Buffers]]
      BY <1>1 DEF Caches
    <3>4. q.slot = [w.ra.slot EXCEPT ![s] = b]
      BY <3>3
    <3>5. q.slot[s] = b /\ \A t \in Slots : t # s => q.slot[t] = w.ra.slot[t]
      BY <2>2, <3>3, <3>4
    <3> HIDE DEF q, s
    <3>6. \A t \in Slots : q.slot[t].off = w.ra.slot[t].off
      BY <3>2, <3>5
    <3>7. w.ra.cur # NoSlot => w.ra.cur \in Slots /\ w.ra.cur # s
      BY <2>3, <3>3 DEF s
    <3>8. v.ra = q /\ v.fx.file = w.fx.file
      BY <2>1, <3>1 DEF SameFile
    <3> QED BY <1>2, <1>4, <3>5, <3>6, <3>7, <3>8
  <2> QED BY <2>4, <2>5
<1> QED BY <1>3, <1>4

LEMMA DisabledParts ==
  ASSUME NEW r \in Caches
  PROVE  LET q == [r EXCEPT !.disabled = TRUE] IN
         /\ q \in Caches /\ q.depth = r.depth /\ q.fd = r.fd /\ q.cur = r.cur
         /\ q.async = r.async /\ q.ready = r.ready /\ q.slot = r.slot
BY DEF Caches

(* What stays when the other buffer is given to a prefetch.                *)
LEMMA SpotAhead ==
  ASSUME NEW w, build = "asyncread", w.ra.async = NoSlot, w.ra.ready = NoSlot, w.ra.cur # NoSlot,
         NEW x, x.fx.file = w.fx.file, x.out = w.out, x.ra.cur = w.ra.cur,
         x.ra.slot[w.ra.cur] = w.ra.slot[w.ra.cur], x.ra.ready = NoSlot,
         x.ra.async = NoSlot => x.fx.rpc.st # "queued",
         x.ra.async # NoSlot => x.fx.rpc.st # "none" /\ ~Arrived(x),
         NEW c, Spot(w, c), ~Busy(w) => x.fx.pos = w.fx.pos,
         ~Busy(w) /\ x.ra.async # NoSlot => x.ra.slot[x.ra.async].data = <<>>
  PROVE  Spot(x, c)
<1> DEFINE a == c + Len(w.out)
<1>1. Prefetched(w, a)
  BY DEF Spot, Lined
<1>2. ~Busy(w)
  BY <1>1 DEF Prefetched, Busy
<1>3. Unread(x, x.ra.cur) = Unread(w, w.ra.cur) /\ Ahead(x, a) = Ahead(w, a)
  BY DEF Unread, Ahead, Remaining
<1>4. Run(Unread(w, w.ra.cur), a) /\ w.fx.pos = Ahead(w, a)
  BY <1>1 DEF Prefetched
<1>5. x.fx.pos = Ahead(x, a) /\ Run(Unread(x, x.ra.cur), a)
  BY <1>2, <1>3, <1>4
<1> HIDE DEF a
<1>6. Prefetched(x, a)
  BY <1>2, <1>5 DEF Prefetched
<1> QED BY <1>6 DEF Spot, Lined, a

LEMMA RaSubmitCases ==
  ASSUME NEW w \in Worlds, NEW s \in Slots, NEW x \in RaSubmit(w, s)
  PROVE  LET e == PutRa(w, [w.ra EXCEPT !.slot[s] = EmptySlot]) IN
         \/ x = w
         \/ /\ ~w.ra.disabled /\ w.ra.async = NoSlot /\ w.ra.ready = NoSlot
            /\ \E y \in SubmitCall(e, "read", s, BatchUnits) :
                  \/ y.rc < 0 /\ x = Ret(PutRa(y, [y.ra EXCEPT !.disabled = TRUE]), w.rc)
                  \/ ~(y.rc < 0) /\ x = Ret(PutRa(y, [y.ra EXCEPT !.async = s]), w.rc)
<1> DEFINE e == PutRa(w, [w.ra EXCEPT !.slot[s] = EmptySlot])
<1>1. CASE w.ra.disabled \/ w.ra.async # NoSlot \/ w.ra.ready # NoSlot
  BY <1>1 DEF RaSubmit
<1>2. CASE ~(w.ra.disabled \/ w.ra.async # NoSlot \/ w.ra.ready # NoSlot)
  <2>1. [w EXCEPT !.ra.slot[s] = EmptySlot] = e
    BY DEF PutRa, Worlds, Caches
  <2> HIDE DEF e
  <2>2. PICK y \in SubmitCall(e, "read", s, BatchUnits) :
          x = IF y.rc < 0 THEN [y EXCEPT !.ra.disabled = TRUE, !.rc = w.rc]
              ELSE [y EXCEPT !.ra.async = s, !.rc = w.rc]
    BY <1>2, <2>1 DEF RaSubmit
  <2>3. [y EXCEPT !.ra.disabled = TRUE, !.rc = w.rc]
          = Ret(PutRa(y, [y.ra EXCEPT !.disabled = TRUE]), w.rc)
    BY DEF PutRa, Ret
  <2>4. [y EXCEPT !.ra.async = s, !.rc = w.rc] = Ret(PutRa(y, [y.ra EXCEPT !.async = s]), w.rc)
    BY DEF PutRa, Ret
  <2>5. \/ y.rc < 0 /\ x = Ret(PutRa(y, [y.ra EXCEPT !.disabled = TRUE]), w.rc)
        \/ ~(y.rc < 0) /\ x = Ret(PutRa(y, [y.ra EXCEPT !.async = s]), w.rc)
    BY <2>2, <2>3, <2>4
  <2> QED BY <1>2, <2>5 DEF e
<1> QED BY <1>1, <1>2

(* The other buffer is given to the next prefetch, or none is started.     *)
LEMMA RaSubmitOutcome ==
  ASSUME NEW w, Reader(w), w.fx.open # 0, w.rc \in Int, NEW s \in Slots,
         w.ra.cur # NoSlot, w.ra.cur # s, NEW x \in RaSubmit(w, s)
  PROVE  /\ Reads(w, x) /\ x.out = w.out /\ x.rc = w.rc
         /\ x.ra.cur = w.ra.cur /\ x.ra.fd = w.ra.fd
         /\ \A c : Spot(w, c) => Spot(x, c)
<1>1. /\ w \in Worlds /\ Sound(w) /\ Fetch(w) /\ ~Queued(w, "write") /\ Shape(w.ra)
      /\ w.ra \in Caches /\ w.ra.cur \in Slots /\ build = "asyncread"
      /\ w.fx.open \in Fds \cup {0}
  BY ReaderParts, WorldParts DEF Fetch
<1>2. CASE x = w
  BY <1>2 DEF Reads
<1> DEFINE r == [w.ra EXCEPT !.slot[s] = EmptySlot]
           e == PutRa(w, r)
<1>3. ASSUME ~w.ra.disabled, w.ra.async = NoSlot, w.ra.ready = NoSlot,
             NEW y \in SubmitCall(e, "read", s, BatchUnits),
             \/ y.rc < 0 /\ x = Ret(PutRa(y, [y.ra EXCEPT !.disabled = TRUE]), w.rc)
             \/ ~(y.rc < 0) /\ x = Ret(PutRa(y, [y.ra EXCEPT !.async = s]), w.rc)
      PROVE  /\ Reads(w, x) /\ x.out = w.out /\ x.rc = w.rc
             /\ x.ra.cur = w.ra.cur /\ x.ra.fd = w.ra.fd
             /\ \A c : Spot(w, c) => Spot(x, c)
  <2>1. w.ra \in Caches /\ EmptySlot \in Buffers
    BY <1>1, BuffersParts
  <2>2. /\ r \in Caches /\ r.depth = w.ra.depth /\ r.fd = w.ra.fd /\ r.cur = w.ra.cur
        /\ r.async = w.ra.async /\ r.ready = w.ra.ready /\ r.disabled = w.ra.disabled
        /\ r.slot[s] = EmptySlot /\ \A t \in Slots : t # s => r.slot[t] = w.ra.slot[t]
    BY <2>1, SlotParts
  <2> HIDE DEF r
  <2>3. \A t \in Slots : r.slot[t].off <= Len(r.slot[t].data)
    BY <1>1, <2>2, BuffersParts DEF Shape
  <2>4. Shape(r)
    BY <1>1, <1>3, <2>2, <2>3 DEF Shape
  <2>5. Queued(w, "read") => /\ r.slot[w.fx.rpc.slot].off = 0
                             /\ r.cur # w.fx.rpc.slot /\ r.ready = NoSlot
    <3>1. SUFFICES ASSUME Queued(w, "read")
                   PROVE  /\ r.slot[w.fx.rpc.slot].off = 0
                          /\ r.cur # w.fx.rpc.slot /\ r.ready = NoSlot
      OBVIOUS
    <3>2. w.ra.slot[w.fx.rpc.slot].off = 0 /\ w.ra.cur # w.fx.rpc.slot
      BY <1>1, <3>1 DEF Sound
    <3>3. w.fx.rpc.slot \in Slots
      BY <1>1, <3>1, WorldParts, RequestParts DEF Queued
    <3>4. r.slot[w.fx.rpc.slot] \in {EmptySlot, w.ra.slot[w.fx.rpc.slot]}
      BY <2>2, <3>3
    <3> QED BY <1>3, <2>2, <3>2, <3>4, BuffersParts
  <2>6. /\ Reader(e) /\ e.fx = w.fx /\ e.wb = w.wb /\ e.ra = r /\ e.out = w.out /\ e \in Worlds
    BY <1>1, <1>3, <2>2, <2>3, <2>4, <2>5, PutRaReads
  <2> HIDE DEF e
  <2>7. BatchUnits \in 1..BatchUnits /\ "read" \in Calls
    BY FileXioAssumption DEF Calls
  <2>8. Requested(e, y, "read", s, BatchUnits)
    BY <1>3, <2>6, <2>7, ReaderParts, SubmitOutcome
  <2>9. PICK v : /\ Rested(e, v) /\ y \in Worlds /\ y.wb = e.wb /\ y.ra = v.ra
                 /\ SameFile(y, v) /\ y.out = e.out
                 /\ \/ /\ y.rc = 0 /\ y.fx.mode = "NOWAIT"
                       /\ y.fx.rpc = [st |-> "queued", kind |-> "read", slot |-> s,
                                      len |-> BatchUnits]
                    \/ /\ y.rc = Failed /\ y.fx.mode = "WAIT" /\ y.fx.rpc = NoRequest
                       /\ Sound(y)
    BY <2>8 DEF Requested
  <2>10. /\ v.fx.file = e.fx.file /\ SameCache(v, e)
         /\ ~Busy(e) => v.ra = e.ra /\ v.fx.pos = e.fx.pos
         /\ e.ra.cur # NoSlot => v.ra.slot[e.ra.cur] = e.ra.slot[e.ra.cur]
         /\ \A t \in Slots : v.ra.slot[t].off = e.ra.slot[t].off
    BY <2>6, <2>9, RestedReader
  <2>11. /\ Sound(v) /\ v \in Worlds /\ v.fx.open = e.fx.open /\ Shape(v.ra) /\ v.ra \in Caches
         /\ v.fx.open # 0 => v.fx.pos <= Len(v.fx.file)
    BY <2>6, <2>9, RestedParts, ReaderParts, WorldParts
  <2>12. /\ y.fx.file = w.fx.file /\ y.fx.open = w.fx.open /\ y.wb = w.wb /\ y.out = w.out
         /\ y.fx.pos = v.fx.pos
    BY <2>6, <2>9, <2>10, <2>11 DEF SameFile
  <2>13. /\ y.ra \in Caches /\ y.ra.depth = w.ra.depth /\ y.ra.fd = w.ra.fd
         /\ y.ra.cur = w.ra.cur /\ y.ra.async = NoSlot /\ y.ra.ready = NoSlot
    BY <1>3, <2>2, <2>6, <2>9, <2>10, <2>11 DEF SameCache
  <2>14. /\ y.ra.slot[w.ra.cur] = w.ra.slot[w.ra.cur] /\ y.ra.slot[s].off = 0
    BY <1>1, <2>2, <2>6, <2>9, <2>10, BuffersParts
  <2>15. ~Busy(w) => y.fx.pos = w.fx.pos
    BY <2>6, <2>10, <2>12 DEF Busy
  <2>16. \A t \in Slots : y.ra.slot[t].off <= Len(y.ra.slot[t].data)
    BY <2>9, <2>11 DEF Shape
  <2>17. CASE y.rc < 0 /\ x = Ret(PutRa(y, [y.ra EXCEPT !.disabled = TRUE]), w.rc)
    <3> DEFINE q == [y.ra EXCEPT !.disabled = TRUE]
               z == PutRa(y, q)
    <3>1. /\ q \in Caches /\ q.depth = y.ra.depth /\ q.fd = y.ra.fd /\ q.cur = y.ra.cur
          /\ q.async = y.ra.async /\ q.ready = y.ra.ready /\ q.slot = y.ra.slot
      BY <2>13, DisabledParts
    <3> HIDE DEF q
    <3>2. y.fx.rpc = NoRequest /\ Sound(y)
      BY <2>9, <2>17
    <3>3. ~Queued(y, "read") /\ ~Queued(y, "write")
      BY <3>2 DEF Queued, NoRequest
    <3>4. Shape(q)
      BY <2>13, <2>16, <3>1 DEF Shape
    <3>5. \A t \in Slots : q.slot[t].off <= Len(q.slot[t].data)
      BY <2>16, <3>1
    <3>6. /\ Reader(z) /\ z.fx = y.fx /\ z.wb = y.wb /\ z.ra = q /\ z.out = y.out
      BY <1>1, <2>13, <3>1, <3>2, <3>3, <3>4, <3>5, PutRaReads
    <3>7. x = Ret(z, w.rc)
      BY <2>17 DEF q
    <3> HIDE DEF z
    <3>8. Moves(z, x) /\ x.out = z.out /\ x.ra = z.ra /\ x.fx = z.fx /\ x.rc = w.rc
      BY <3>6, <3>7, RetMoves
    <3>9. Reads(w, x)
      BY <2>12, <2>13, <3>1, <3>6, <3>8 DEF Reads, Moves
    <3>10. /\ x.ra.cur = w.ra.cur /\ x.ra.ready = NoSlot /\ x.ra.async = NoSlot
           /\ x.ra.slot[w.ra.cur] = w.ra.slot[w.ra.cur] /\ x.fx.file = w.fx.file
           /\ x.out = w.out /\ x.fx.rpc.st # "queued" /\ x.ra.fd = w.ra.fd
           /\ ~Busy(w) => x.fx.pos = w.fx.pos
      BY <2>12, <2>13, <2>14, <2>15, <3>1, <3>2, <3>6, <3>8 DEF NoRequest
    <3>11. \A c : Spot(w, c) => Spot(x, c)
      BY <1>1, <1>3, <3>10, SpotAhead
    <3> QED BY <3>8, <3>9, <3>10, <3>11
  <2>18. CASE ~(y.rc < 0) /\ x = Ret(PutRa(y, [y.ra EXCEPT !.async = s]), w.rc)
    <3> DEFINE q == [y.ra EXCEPT !.async = s]
               z == PutRa(y, q)
    <3>1. /\ q \in Caches /\ q.depth = y.ra.depth /\ q.fd = y.ra.fd /\ q.cur = y.ra.cur
          /\ q.async = s /\ q.ready = y.ra.ready /\ q.slot = y.ra.slot
      BY <2>13, RaAsyncParts
    <3> HIDE DEF q
    <3>2. /\ y.fx.rpc.st = "queued" /\ y.fx.rpc.kind = "read" /\ y.fx.rpc.slot = s
      BY <2>9, <2>18 DEF Failed
    <3>3. /\ z \in Worlds /\ z.fx = y.fx /\ z.wb = y.wb /\ z.ra = q /\ z.out = y.out
      BY <2>9, <3>1, PutRaParts DEF SameCall
    <3>4. x = Ret(z, w.rc)
      BY <2>18 DEF q
    <3> HIDE DEF z
    <3>5. Shape(q)
      BY <1>3, <2>13, <2>16, <3>1 DEF Shape, Slots, NoSlot
    <3>6. Sound(z)
      <4>1. z.fx.open # 0 /\ z.fx.pos <= Len(z.fx.file)
        BY <2>6, <2>10, <2>11, <2>12, <3>3
      <4>2. Queued(z, "read") /\ ~Queued(z, "write")
        BY <3>2, <3>3 DEF Queued
      <4>3. /\ z.ra.slot[z.fx.rpc.slot].off = 0
            /\ z.ra.cur # z.fx.rpc.slot /\ z.ra.ready = NoSlot
        BY <1>3, <2>13, <2>14, <3>1, <3>2, <3>3
      <4> QED BY <1>1, <3>3, <3>5, <4>1, <4>2, <4>3 DEF Sound
    <3>7. Fetch(z)
      BY <1>1, <3>1, <3>2, <3>3 DEF Fetch
    <3>8. ~Queued(z, "write")
      BY <3>2, <3>3 DEF Queued
    <3>9. Reader(z)
      BY <3>6, <3>7, <3>8 DEF Reader
    <3>10. Moves(z, x) /\ x.out = z.out /\ x.ra = z.ra /\ x.fx = z.fx /\ x.rc = w.rc
      BY <3>4, <3>9, RetMoves
    <3>11. Reads(w, x)
      BY <2>12, <2>13, <3>1, <3>3, <3>10 DEF Reads, Moves
    <3>12. /\ x.ra.cur = w.ra.cur /\ x.ra.ready = NoSlot /\ x.ra.async # NoSlot
           /\ x.ra.slot[w.ra.cur] = w.ra.slot[w.ra.cur] /\ x.fx.file = w.fx.file
           /\ x.out = w.out /\ ~Arrived(x) /\ x.fx.rpc.st # "none" /\ x.ra.fd = w.ra.fd
           /\ ~Busy(w) => x.fx.pos = w.fx.pos
           /\ ~Busy(w) /\ x.ra.async # NoSlot => x.ra.slot[x.ra.async].data = <<>>
      <4>1. s # NoSlot
        BY DEF Slots, NoSlot
      <4>3. x.ra.async = s /\ x.fx.rpc.st = "queued"
        BY <3>1, <3>2, <3>3, <3>10
      <4>4. ~Busy(w) => x.ra.slot[s].data = <<>>
        <5>1. ~Busy(w) => y.ra.slot[s] = r.slot[s]
          BY <2>6, <2>9, <2>10 DEF Busy
        <5>2. x.ra.slot[s] = y.ra.slot[s]
          BY <3>1, <3>3, <3>10
        <5> QED BY <2>2, <5>1, <5>2 DEF EmptySlot
      <4>2. ~Arrived(x)
        BY <3>2, <3>3, <3>10 DEF Arrived
      <4> QED BY <2>12, <2>13, <2>14, <2>15, <3>1, <3>3, <3>10, <4>1, <4>2, <4>3, <4>4
    <3>13. \A c : Spot(w, c) => Spot(x, c)
      BY <1>1, <1>3, <3>12, SpotAhead
    <3> QED BY <3>10, <3>11, <3>12, <3>13
  <2> QED BY <1>3, <2>17, <2>18
<1>4. \/ x = w
      \/ /\ ~w.ra.disabled /\ w.ra.async = NoSlot /\ w.ra.ready = NoSlot
         /\ \E y \in SubmitCall(e, "read", s, BatchUnits) :
               \/ y.rc < 0 /\ x = Ret(PutRa(y, [y.ra EXCEPT !.disabled = TRUE]), w.rc)
               \/ ~(y.rc < 0) /\ x = Ret(PutRa(y, [y.ra EXCEPT !.async = s]), w.rc)
  BY <1>1, RaSubmitCases
<1> HIDE DEF e
<1> QED BY <1>2, <1>3, <1>4

LEMMA OutParts ==
  ASSUME NEW w \in Worlds, NEW n \in Int, NEW o \in Seq(Int)
  PROVE  LET x == PutOut(w, n, o) IN
         /\ x \in Worlds /\ x.fx = w.fx /\ x.wb = w.wb /\ x.ra = w.ra /\ x.rc = n /\ x.out = o
BY DEF PutOut, Worlds

(* Worlds that agree on everything but the data handed out.                *)
LEMMA ReaderSame ==
  ASSUME NEW w, Reader(w), NEW x \in Worlds, x.fx = w.fx, x.wb = w.wb, x.ra = w.ra
  PROVE  Reader(x) /\ Reads(w, x)
<1>1. Sound(w) /\ Fetch(w) /\ ~Queued(w, "write")
  BY ReaderParts
<1>2. SameFile(x, w)
  BY DEF SameFile
<1>3. Sound(x)
  BY <1>1, <1>2, SoundSame
<1>4. Fetch(x)
  BY <1>1, FetchSame
<1>5. ~Queued(x, "write")
  BY <1>1 DEF Queued
<1> QED BY <1>3, <1>4, <1>5 DEF Reader, Reads

LEMMA TakeCase ==
  ASSUME NEW w \in Worlds, NEW s \in Slots, NEW n \in Nat
  PROVE  Take(w, s, n) = PutRa(PutOut(w, n, w.out \o SubSeq(Unread(w, s), 1, n)),
                               [w.ra EXCEPT !.slot[s] = [data |-> w.ra.slot[s].data,
                                                         off |-> w.ra.slot[s].off + n]])
<1> DEFINE o == w.out \o SubSeq(Unread(w, s), 1, n)
           b == [data |-> w.ra.slot[s].data, off |-> w.ra.slot[s].off + n]
<1>1. w.ra.slot \in [Slots -> Buffers] /\ w.ra \in Caches
  BY WorldParts
<1>2. w.ra.slot[s] \in [data : Seq(Int), off : Nat]
  BY <1>1 DEF Buffers
<1>3. b = [w.ra.slot[s] EXCEPT !.off = @ + n]
  <2> DEFINE t == w.ra.slot[s]
             m == t.off + n
  <2>1. t \in [data : Seq(Int), off : Nat]
    BY <1>2
  <2> HIDE DEF t, m
  <2>2. [data |-> t.data, off |-> m] = [t EXCEPT !.off = m]
    BY <2>1
  <2> QED BY <2>2 DEF t, m
<1>4. Take(w, s, n) = [w EXCEPT !.rc = n, !.out = o, !.ra.slot[s].off = @ + n]
  BY DEF Take
<1> HIDE DEF o, b
<1>5. [w EXCEPT !.rc = n, !.out = o, !.ra.slot[s].off = @ + n]
        = [w EXCEPT !.rc = n, !.out = o, !.ra.slot[s] = b]
  BY <1>1, <1>3 DEF Worlds, Caches
<1>6. [w EXCEPT !.rc = n, !.out = o, !.ra.slot[s] = b]
        = PutRa(PutOut(w, n, o), [w.ra EXCEPT !.slot[s] = b])
  BY DEF PutRa, PutOut, Worlds
<1> QED BY <1>4, <1>5, <1>6 DEF o, b

LEMMA BufferRest ==
  ASSUME NEW d \in Seq(Int), NEW o \in Nat, NEW n \in Nat, o + n <= Len(d), NEW a \in Int,
         Run(SubSeq(d, o + 1, Len(d)), a)
  PROVE  Run(SubSeq(d, o + n + 1, Len(d)), a + n)
<1> DEFINE k == Len(d)
           s == SubSeq(d, o + 1, k)
           t == SubSeq(d, o + n + 1, k)
<1>1. k \in Nat /\ o + n \in Nat /\ o + n <= k /\ o <= k
  OBVIOUS
<1>2. /\ Len(s) = IF o < k THEN k - o ELSE 0
      /\ \A i \in 1..(k - o) : s[i] = d[o + i]
  <2> HIDE DEF k
  <2>1. k \in Int /\ k <= Len(d)
    BY <1>1 DEF k
  <2> QED BY <2>1, Piece
<1>3. /\ Len(t) = IF o + n < k THEN k - (o + n) ELSE 0
      /\ \A i \in 1..(k - (o + n)) : t[i] = d[(o + n) + i]
  <2> DEFINE m == o + n
  <2>1. k \in Int /\ k <= Len(d) /\ m \in Nat
    BY <1>1
  <2> HIDE DEF k, m
  <2>2. /\ Len(SubSeq(d, m + 1, k)) = IF m < k THEN k - m ELSE 0
        /\ \A i \in 1..(k - m) : SubSeq(d, m + 1, k)[i] = d[m + i]
    BY <2>1, Piece
  <2> QED BY <2>2 DEF m
<1>4. \A i \in 1..Len(s) : s[i] = a + i
  BY DEF Run
<1> HIDE DEF s, t, k
<1>5. ASSUME NEW i \in 1..Len(t) PROVE t[i] = (a + n) + i
  <2>1. i \in 1..(k - (o + n)) /\ n + i \in 1..(k - o) /\ o < k
    BY <1>1, <1>3, <1>5
  <2>2. t[i] = d[(o + n) + i] /\ s[n + i] = d[o + (n + i)]
    BY <1>2, <1>3, <2>1
  <2>3. s[n + i] = a + (n + i)
    BY <1>2, <1>4, <2>1
  <2>4. (o + n) + i = o + (n + i) /\ a + (n + i) = (a + n) + i
    BY <1>1, <2>1
  <2> QED BY <2>2, <2>3, <2>4
<1> QED BY <1>5 DEF Run, t, k

(* Part of the buffer that is being consumed is handed out.                *)
LEMMA TakeOutcome ==
  ASSUME NEW w, Reader(w), NEW s \in Slots, NEW n \in 0..Remaining(w, s),
         s = w.ra.cur \/ (build # "asyncread" /\ s = 0), NEW x, x = Take(w, s, n)
  PROVE  /\ Moves(w, x) /\ x.rc = n /\ Len(x.out) = Len(w.out) + n /\ x.fx = w.fx
         /\ SameCache(x, w) /\ Remaining(x, s) = Remaining(w, s) - n
         /\ \A t \in Slots : t # s => x.ra.slot[t] = w.ra.slot[t]
<1> DEFINE d == w.ra.slot[s].data
           f == w.ra.slot[s].off
           u == Unread(w, s)
           o == w.out \o SubSeq(u, 1, n)
           b == [data |-> d, off |-> f + n]
           q == [w.ra EXCEPT !.slot[s] = b]
           z == PutOut(w, n, o)
<1>1. /\ w \in Worlds /\ Sound(w) /\ Fetch(w) /\ ~Queued(w, "write") /\ Shape(w.ra)
      /\ w.ra \in Caches /\ d \in Seq(Int) /\ f \in Nat /\ f <= Len(d) /\ w.out \in Seq(Int)
      /\ u \in Seq(Int) /\ Remaining(w, s) \in Nat /\ Len(u) = Remaining(w, s)
  BY ReaderParts, WorldParts
<1>2. n \in Nat /\ n \in 0..Len(u) /\ Remaining(w, s) = Len(d) - f /\ f + n <= Len(d)
  BY <1>1, SMTT(30) DEF Remaining
<1>3. x = PutRa(z, q)
  BY <1>1, <1>2, TakeCase
<1>4. SubSeq(u, 1, n) \in Seq(Int) /\ Len(SubSeq(u, 1, n)) = n
      /\ \A a \in Int : Run(u, a) => Run(SubSeq(u, 1, n), a)
  <2> HIDE DEF u
  <2> QED BY <1>1, <1>2, RunCut
<1>5. o \in Seq(Int) /\ Len(o) = Len(w.out) + n /\ Len(w.out) \in Nat
      /\ \A a \in Int : Run(w.out, a) /\ Run(u, a + Len(w.out)) => Run(o, a)
  <2> DEFINE t == SubSeq(u, 1, n)
  <2> HIDE DEF t, u
  <2>1. t \in Seq(Int) /\ Len(t) = n /\ \A a \in Int : Run(u, a) => Run(t, a)
    BY <1>4 DEF t
  <2>2. /\ w.out \o t \in Seq(Int) /\ Len(w.out \o t) = Len(w.out) + Len(t)
        /\ Len(w.out) \in Nat
        /\ \A a \in Int : Run(w.out, a) /\ Run(t, a + Len(w.out)) => Run(w.out \o t, a)
    BY <1>1, <2>1, RunJoin
  <2>3. ASSUME NEW a \in Int, Run(w.out, a), Run(u, a + Len(w.out)) PROVE Run(w.out \o t, a)
    BY <2>1, <2>2, <2>3
  <2> QED BY <2>1, <2>2, <2>3 DEF t
<1> HIDE DEF o
<1>6. /\ z \in Worlds /\ z.fx = w.fx /\ z.wb = w.wb /\ z.ra = w.ra /\ z.rc = n /\ z.out = o
  <2>1. w \in Worlds /\ n \in Nat /\ o \in Seq(Int)
    BY <1>1, <1>2, <1>5
  <2>2. n \in Int
    BY <2>1
  <2> QED BY <2>1, <2>2, OutParts
<1>7. b \in Buffers /\ b.data = d /\ b.off = f + n
  <2>1. d \in Seq(Int) /\ f \in Nat /\ n \in Nat
    BY <1>1, <1>2
  <2> DEFINE e == f + n
  <2> HIDE DEF d, f
  <2>2. e \in Nat
    BY <2>1
  <2> HIDE DEF e
  <2>3. [data |-> d, off |-> e] \in Buffers
    BY <2>1, <2>2 DEF Buffers
  <2> QED BY <2>3 DEF e
<1> HIDE DEF b, z
<1>23. w.ra \in Caches /\ b \in Buffers
  BY <1>1, <1>7
<1>8. /\ q \in Caches /\ q.depth = w.ra.depth /\ q.fd = w.ra.fd /\ q.cur = w.ra.cur
      /\ q.async = w.ra.async /\ q.ready = w.ra.ready /\ q.disabled = w.ra.disabled
      /\ q.slot[s] = b /\ \A t \in Slots : t # s => q.slot[t] = w.ra.slot[t]
  BY <1>23, SlotParts
<1> HIDE DEF q
<1>9. /\ x \in Worlds /\ x.fx = w.fx /\ x.wb = w.wb /\ x.ra = q /\ x.rc = n /\ x.out = o
  BY <1>3, <1>6, <1>8, PutRaParts DEF SameCall
<1>10. \A t \in Slots : q.slot[t].off <= Len(q.slot[t].data)
  BY <1>1, <1>2, <1>7, <1>8 DEF Shape
<1>11. w.ra.cur # NoSlot => build = "asyncread"
  BY <1>1 DEF Fetch
<1>12. Shape(q)
  <2>1. w.ra.ready # NoSlot => w.ra.ready \in Slots /\ w.ra.ready # s
    <3>1. w.ra.ready # NoSlot => w.ra.ready \in Slots /\ w.ra.ready # w.ra.cur /\ w.ra.cur # NoSlot
      BY <1>1, WorldParts DEF Shape
    <3> QED BY <1>11, <3>1
  <2>2. w.ra.ready # NoSlot => q.slot[w.ra.ready].off = 0
    BY <1>1, <1>8, <2>1 DEF Shape
  <2>3. \A t \in Slots : q.slot[t].off <= Len(q.slot[t].data)
    BY <1>10
  <2> QED BY <1>1, <1>8, <2>2, <2>3 DEF Shape
<1>13. Queued(w, "read") => /\ q.slot[w.fx.rpc.slot].off = 0
                            /\ q.cur # w.fx.rpc.slot /\ q.ready = NoSlot
  <2>1. SUFFICES ASSUME Queued(w, "read")
                 PROVE  /\ q.slot[w.fx.rpc.slot].off = 0
                        /\ q.cur # w.fx.rpc.slot /\ q.ready = NoSlot
    OBVIOUS
  <2>2. /\ w.ra.slot[w.fx.rpc.slot].off = 0 /\ w.ra.cur # w.fx.rpc.slot
        /\ w.ra.ready = NoSlot /\ build = "asyncread"
    BY <1>1, <2>1 DEF Sound
  <2>3. w.fx.rpc.slot \in Slots
    BY <1>1, <2>1, WorldParts, RequestParts DEF Queued
  <2> QED BY <1>8, <2>2, <2>3
<1>14. Sound(x)
  <2>1. /\ x.fx.open # 0 => x.fx.pos <= Len(x.fx.file)
        /\ x.fx.open = 0 => x.fx.rpc.st # "queued"
    BY <1>1, <1>9 DEF Sound
  <2>2. ~Queued(x, "write") /\ (Queued(x, "read") => Queued(w, "read"))
    BY <1>1, <1>9 DEF Queued
  <2>3. Queued(w, "read") => build = "asyncread"
    BY <1>1 DEF Sound
  <2> QED BY <1>9, <1>12, <1>13, <2>1, <2>2, <2>3 DEF Sound
<1>15. Fetch(x)
  <2>1. w.ra.async # NoSlot => w.ra.async \in Slots /\ w.ra.async # s
    <3>1. w.ra.async # NoSlot => w.ra.async \in Slots /\ w.ra.async # w.ra.cur /\ w.ra.cur # NoSlot
      BY <1>1, WorldParts DEF Shape
    <3> QED BY <1>11, <3>1
  <2>2. w.ra.async # NoSlot => x.ra.slot[w.ra.async] = w.ra.slot[w.ra.async]
    BY <1>8, <1>9, <2>1
  <2> QED BY <1>1, <1>8, <1>9, <2>2 DEF Fetch
<1>16. ~Queued(x, "write")
  BY <1>1, <1>9 DEF Queued
<1>17. Reads(w, x)
  BY <1>8, <1>9, <1>14, <1>15, <1>16 DEF Reads, Reader
<1>18. Unread(x, s) = SubSeq(d, f + n + 1, Len(d)) /\ Remaining(x, s) = Remaining(w, s) - n
  <2>1. x.ra.slot[s].data = d /\ x.ra.slot[s].off = f + n
    BY <1>7, <1>8, <1>9
  <2>6. d \in Seq(Int) /\ f \in Nat /\ n \in Nat
    BY <1>1, <1>2
  <2>7. Remaining(w, s) = Len(d) - f
    BY <1>2
  <2> HIDE DEF d, f
  <2>2. Len(d) \in Nat /\ f \in Nat /\ n \in Nat /\ Remaining(w, s) = Len(d) - f
    BY <2>6, <2>7
  <2>3. Unread(x, s) = SubSeq(d, f + n + 1, Len(d))
    BY <2>1 DEF Unread
  <2>4. Remaining(x, s) = Len(d) - (f + n)
    BY <2>1 DEF Remaining
  <2> QED BY <2>2, <2>3, <2>4
<1>19. \A a \in Int : Run(u, a) => Run(Unread(x, s), a + n)
  <2> TAKE a \in Int
  <2>1. SUFFICES ASSUME Run(u, a) PROVE Run(Unread(x, s), a + n)
    OBVIOUS
  <2>2. Run(SubSeq(d, f + 1, Len(d)), a)
    BY <2>1 DEF Unread
  <2> HIDE DEF d, f, u
  <2> QED BY <1>1, <1>2, <1>18, <2>2, BufferRest
<1>20. ASSUME NEW c \in Int, Spot(w, c) PROVE Spot(x, c)
  <2> DEFINE a == c + Len(w.out)
  <2>1. a \in Int /\ w.fx.file = Units(ImageUnits) /\ Run(w.out, c) /\ Lined(w, a)
    BY <1>5, <1>20 DEF Spot
  <2>2. Run(u, a)
    BY <1>11, <2>1 DEF Lined, Prefetched, Slots, NoSlot
  <2>3. Run(o, c) /\ c + Len(o) = a + n
    BY <1>2, <1>5, <2>1, <2>2
  <2>4. Run(Unread(x, s), a + n)
    BY <1>19, <2>1, <2>2
  <2> HIDE DEF a
  <2>5. (a + n) + Remaining(x, s) = a + Remaining(w, s)
    BY <1>1, <1>2, <1>18, <2>1, SMTT(30)
  <2>6. Lined(x, a + n)
    <3>1. CASE build # "asyncread"
      <4>1. s = 0
        BY <1>11, <3>1 DEF Slots, NoSlot
      <4>2. w.fx.pos = a + Remaining(w, 0)
        BY <2>1, <3>1 DEF Lined
      <4> QED BY <1>9, <2>4, <2>5, <3>1, <4>1, <4>2 DEF Lined
    <3>2. CASE build = "asyncread"
      <4>1. s = w.ra.cur /\ w.ra.cur # NoSlot
        BY <3>2 DEF Slots, NoSlot
      <4>2. Prefetched(w, a)
        BY <2>1, <3>2 DEF Lined
      <4>3. x.ra.cur = s /\ x.ra.async = w.ra.async /\ x.ra.ready = w.ra.ready
            /\ (Arrived(x) <=> Arrived(w))
        BY <1>8, <1>9, <4>1 DEF Arrived
      <4>4. Ahead(x, a + n) = Ahead(w, a)
        BY <2>5, <4>1, <4>3 DEF Ahead
      <4>5. /\ w.ra.async # NoSlot => x.ra.slot[w.ra.async] = w.ra.slot[w.ra.async]
            /\ w.ra.ready # NoSlot => x.ra.slot[w.ra.ready] = w.ra.slot[w.ra.ready]
        BY <1>1, <1>8, <1>9, <4>1, WorldParts DEF Shape
      <4>6. Prefetched(x, a + n)
        <5>1. Run(Unread(x, x.ra.cur), a + n)
          BY <2>4, <4>3
        <5>2. w.ra.ready # NoSlot =>
                /\ Run(x.ra.slot[w.ra.ready].data, Ahead(x, a + n))
                /\ x.fx.pos = Ahead(x, a + n) + Len(x.ra.slot[w.ra.ready].data)
          BY <1>9, <4>2, <4>4, <4>5 DEF Prefetched
        <5>3. w.ra.async # NoSlot /\ Arrived(w) =>
                /\ Run(x.ra.slot[w.ra.async].data, Ahead(x, a + n))
                /\ Len(x.ra.slot[w.ra.async].data) = x.fx.rpc.result
                /\ x.fx.pos = Ahead(x, a + n) + x.fx.rpc.result
          BY <1>9, <4>2, <4>4, <4>5 DEF Prefetched
        <5>4. /\ w.ra.async # NoSlot /\ ~Arrived(w) =>
                    /\ x.ra.slot[w.ra.async].data = <<>>
                    /\ IF x.fx.rpc.st = "none" THEN Forgotten(x, Ahead(x, a + n))
                       ELSE x.fx.pos = Ahead(x, a + n)
              /\ w.ra.async = NoSlot => x.fx.rpc.st # "queued"
              /\ w.ra.async = NoSlot /\ w.ra.ready = NoSlot => x.fx.pos = Ahead(x, a + n)
          BY <1>9, <4>2, <4>4, <4>5 DEF Prefetched, Forgotten
        <5> QED BY <4>3, <5>1, <5>2, <5>3, <5>4 DEF Prefetched
      <4> QED BY <3>2, <4>6 DEF Lined
    <3> QED BY <3>1, <3>2
  <2> QED BY <1>9, <2>1, <2>3, <2>6 DEF Spot
<1>21. Moves(w, x)
  BY <1>2, <1>9, <1>17, <1>20 DEF Moves, Flows
<1>22. SameCache(x, w)
  BY <1>8, <1>9 DEF SameCache
<1> QED BY <1>5, <1>8, <1>9, <1>18, <1>21, <1>22

(* Reading the file itself.                                                *)
LEMMA ReadReader ==
  ASSUME NEW w, Reader(w), w.fx.open # 0, NEW least \in Nat, NEW room \in Nat, least <= room,
         NEW y \in ReadCalls(w, least, room)
  PROVE  /\ Reads(w, y) /\ SameCache(y, w) /\ y.fx.rpc = NoRequest /\ y.out = w.out
         /\ ~Busy(w) => y.ra = w.ra
         /\ w.ra.cur # NoSlot => y.ra.slot[w.ra.cur] = w.ra.slot[w.ra.cur]
         /\ \A t \in Slots : y.ra.slot[t].off = w.ra.slot[t].off
         /\ y.raw \in Seq(Int) /\ y.rc \in Int /\ (y.rc > 0 => y.rc = Len(y.raw))
         /\ Len(y.raw) <= room
         /\ w.fx.file = Units(ImageUnits) /\ ~Busy(w) =>
               Run(y.raw, w.fx.pos) /\ y.fx.pos = w.fx.pos + Len(y.raw)
<1>1. /\ w \in Worlds /\ Sound(w) /\ Fetch(w) /\ w.fx.pos \in Nat
  BY ReaderParts, WorldParts
<1>2. ReadTo(w, y, least, room)
  BY <1>1, ReadOutcome
<1>3. PICK v : /\ Rested(w, v) /\ Sound(y) /\ y.wb = w.wb /\ y.ra = v.ra
               /\ y.fx.mode = "WAIT" /\ y.fx.rpc = NoRequest /\ y.fx.open = w.fx.open
               /\ y.fx.file = v.fx.file /\ y.out = w.out
               /\ \E k \in 0..room :
                     /\ v.fx.pos + k <= Len(v.fx.file) /\ y.fx.pos = v.fx.pos + k
                     /\ y.raw = SubSeq(v.fx.file, v.fx.pos + 1, v.fx.pos + k)
                     /\ \/ y.rc = Failed
                        \/ y.rc = k /\ least <= k
                        \/ y.rc = 0 /\ k < least /\ v.fx.pos + k = Len(v.fx.file)
  BY <1>2 DEF ReadTo
<1>4. PICK k \in 0..room :
         /\ v.fx.pos + k <= Len(v.fx.file) /\ y.fx.pos = v.fx.pos + k
         /\ y.raw = SubSeq(v.fx.file, v.fx.pos + 1, v.fx.pos + k)
         /\ \/ y.rc = Failed
            \/ y.rc = k /\ least <= k
            \/ y.rc = 0 /\ k < least /\ v.fx.pos + k = Len(v.fx.file)
  BY <1>3
<1>5. /\ v.fx.file = w.fx.file /\ SameCache(v, w)
      /\ ~Busy(w) => v.ra = w.ra /\ v.fx.pos = w.fx.pos
      /\ w.ra.cur # NoSlot => v.ra.slot[w.ra.cur] = w.ra.slot[w.ra.cur]
      /\ \A t \in Slots : v.ra.slot[t].off = w.ra.slot[t].off
  BY <1>3, RestedReader
<1>6. v.fx.file \in Seq(Int) /\ v.fx.pos \in Nat /\ Len(v.fx.file) \in Nat /\ k \in Nat
  BY <1>1, <1>3, <1>4, RestedParts
<1>7. y.raw \in Seq(Int) /\ Len(y.raw) = k
  <2> DEFINE f == v.fx.file
             p == v.fx.pos
             j == p + k
  <2>1. f \in Seq(Int) /\ p \in Nat /\ k \in Nat /\ j \in Int /\ j <= Len(f) /\ j = p + k
    BY <1>4, <1>6
  <2>2. y.raw = SubSeq(f, p + 1, j)
    BY <1>4
  <2> HIDE DEF f, p, j
  <2>3. SubSeq(f, p + 1, j) \in Seq(Int) /\ Len(SubSeq(f, p + 1, j)) = IF p < j THEN j - p ELSE 0
    BY <2>1, Piece
  <2>4. IF p < j THEN j - p = k ELSE k = 0
    BY <2>1
  <2> QED BY <2>2, <2>3, <2>4
<1>8. y.rc \in Int /\ (y.rc > 0 => y.rc = k) /\ k <= room
  <2> DEFINE c == y.rc
  <2>1. c \in {Failed, k, 0} /\ k \in 0..room /\ k \in Nat
    BY <1>4, <1>6
  <2> HIDE DEF c
  <2>2. c \in Int /\ (c > 0 => c = k) /\ k <= room
    BY <2>1 DEF Failed
  <2> QED BY <2>2 DEF c
<1>9. ASSUME w.fx.file = Units(ImageUnits), ~Busy(w)
      PROVE  Run(y.raw, w.fx.pos) /\ y.fx.pos = w.fx.pos + k
  <2> DEFINE p == w.fx.pos
  <2>1. y.raw = SubSeq(Units(ImageUnits), p + 1, p + k) /\ y.fx.pos = p + k
    BY <1>4, <1>5, <1>9
  <2>2. p \in Nat /\ k \in Nat /\ ImageUnits \in Nat /\ p + k <= ImageUnits
    BY <1>1, <1>4, <1>5, <1>6, <1>9, FileXioAssumption, UnitsParts
  <2> HIDE DEF p
  <2>4. Run(SubSeq(Units(ImageUnits), p + 1, p + k), p)
    BY <2>2, FileRun
  <2>3. Run(y.raw, p)
    BY <2>1, <2>4, Zenon
  <2> QED BY <2>1, <2>3 DEF p
<1>10. Fetch(y)
  BY <1>1, <1>3, <1>5 DEF Fetch, SameCache, NoRequest
<1>11. ~Queued(y, "write")
  BY <1>3 DEF Queued, NoRequest
<1>12. SameCache(y, w)
  BY <1>3, <1>5 DEF SameCache
<1>13. Reads(w, y)
  BY <1>3, <1>5, <1>10, <1>11, <1>12 DEF Reads, Reader, SameCache
<1> QED BY <1>3, <1>5, <1>7, <1>8, <1>9, <1>12, <1>13

LEMMA FreshSlot ==
  ASSUME NEW w \in Worlds, NEW s \in Slots, w.ra.slot[s].off = 0
  PROVE  /\ Remaining(w, s) = Len(w.ra.slot[s].data) /\ Remaining(w, s) \in Nat
         /\ \A a \in Int : Run(w.ra.slot[s].data, a) => Run(Unread(w, s), a)
<1> DEFINE d == w.ra.slot[s].data
<1>1. d \in Seq(Int)
  BY WorldParts
<1>2. Unread(w, s) = SubSeq(d, 1, Len(d)) /\ Remaining(w, s) = Len(d) - 0
  BY DEF Unread, Remaining
<1>3. Len(d) \in Nat /\ Len(d) \in 0..Len(d)
  BY <1>1
<1> HIDE DEF d
<1>4. \A a \in Int : Run(d, a) => Run(SubSeq(d, 1, Len(d)), a)
  BY <1>1, <1>3, RunCut
<1>5. Remaining(w, s) = Len(d) /\ Remaining(w, s) \in Nat
  BY <1>2, <1>3
<1> QED BY <1>2, <1>4, <1>5 DEF d

LEMMA FillSyncCases ==
  ASSUME NEW w \in Worlds, NEW s \in Slots, NEW x \in FillSync(w, s)
  PROVE  \E y \in ReadCalls(w, RecordUnits, BatchUnits) :
            x = Ret(PutRa(y, [y.ra EXCEPT !.slot[s] = [data |-> y.raw, off |-> 0]]),
                    IF y.raw = <<>> THEN y.rc ELSE Len(y.raw))
<1>1. PICK y \in ReadCalls(w, RecordUnits, BatchUnits) :
        x = [y EXCEPT !.ra.slot[s] = [data |-> y.raw, off |-> 0],
                      !.rc = IF y.raw = <<>> THEN y.rc ELSE Len(y.raw)]
  BY DEF FillSync
<1> DEFINE b == [data |-> y.raw, off |-> 0]
           n == IF y.raw = <<>> THEN y.rc ELSE Len(y.raw)
<1>2. x = [y EXCEPT !.ra.slot[s] = b, !.rc = n]
  BY <1>1
<1> HIDE DEF b, n
<1>3. [y EXCEPT !.ra.slot[s] = b, !.rc = n] = Ret(PutRa(y, [y.ra EXCEPT !.slot[s] = b]), n)
  BY DEF Ret, PutRa
<1> QED BY <1>2, <1>3 DEF b, n

(* A refill: what is in the slot afterwards is served next.                *)
LEMMA FillSyncOutcome ==
  ASSUME NEW w, Reader(w), w.fx.open # 0, build = "asyncread",
         w.ra.async = NoSlot, w.ra.ready = NoSlot, NEW s \in Slots,
         w.ra.cur = NoSlot \/ (w.ra.cur = s /\ Remaining(w, s) = 0),
         NEW x \in FillSync(w, s),
         NEW z, z = IF x.rc <= 0 THEN x ELSE PutRa(x, [x.ra EXCEPT !.cur = s])
  PROVE  /\ Moves(w, z) /\ z.rc = x.rc /\ z.out = w.out /\ z.ra.fd = w.ra.fd
         /\ z.ra.cur = (IF x.rc <= 0 THEN w.ra.cur ELSE s)
<1>1. w \in Worlds /\ Sound(w) /\ Fetch(w) /\ Shape(w.ra)
  BY ReaderParts
<1>2. PICK y \in ReadCalls(w, RecordUnits, BatchUnits) :
            x = Ret(PutRa(y, [y.ra EXCEPT !.slot[s] = [data |-> y.raw, off |-> 0]]),
                    IF y.raw = <<>> THEN y.rc ELSE Len(y.raw))
  BY <1>1, FillSyncCases
<1>3. RecordUnits \in Nat /\ BatchUnits \in Nat /\ RecordUnits <= BatchUnits
  BY Sizes
<1>4. /\ Reads(w, y) /\ SameCache(y, w) /\ y.fx.rpc = NoRequest /\ y.out = w.out
      /\ ~Busy(w) => y.ra = w.ra
      /\ w.ra.cur # NoSlot => y.ra.slot[w.ra.cur] = w.ra.slot[w.ra.cur]
      /\ \A t \in Slots : y.ra.slot[t].off = w.ra.slot[t].off
      /\ y.raw \in Seq(Int) /\ y.rc \in Int /\ (y.rc > 0 => y.rc = Len(y.raw))
      /\ w.fx.file = Units(ImageUnits) /\ ~Busy(w) =>
            Run(y.raw, w.fx.pos) /\ y.fx.pos = w.fx.pos + Len(y.raw)
  BY <1>3, ReadReader
<1> DEFINE b == [data |-> y.raw, off |-> 0]
           q == [y.ra EXCEPT !.slot[s] = b]
           n == IF y.raw = <<>> THEN y.rc ELSE Len(y.raw)
           o == PutRa(y, q)
<1>5. b \in Buffers /\ b.data = y.raw /\ b.off = 0 /\ Len(y.raw) \in Nat
  BY <1>4, BuffersParts
<1>6. n \in Int /\ (n <= 0 => y.raw = <<>>) /\ (y.raw = <<>> => n <= 0)
  <2>1. y.raw # <<>> => Len(y.raw) > 0
    BY <1>4, EmptySeq
  <2>2. y.raw = <<>> => Len(y.raw) = 0
    OBVIOUS
  <2>3. CASE y.raw = <<>>
    <3>1. n = y.rc
      BY <2>3
    <3> HIDE DEF n
    <3> QED BY <1>4, <2>2, <2>3, <3>1
  <2>4. CASE y.raw # <<>>
    <3>1. n = Len(y.raw)
      BY <2>4
    <3> HIDE DEF n
    <3> QED BY <1>5, <2>1, <2>4, <3>1
  <2> QED BY <2>3, <2>4
<1> HIDE DEF b, n
<1>7. /\ y \in Worlds /\ Sound(y) /\ y.ra \in Caches /\ Shape(y.ra) /\ ~Queued(y, "write")
      /\ y.ra.depth = w.ra.depth /\ y.ra.fd = w.ra.fd /\ y.ra.cur = w.ra.cur
      /\ y.ra.async = NoSlot /\ y.ra.ready = NoSlot
  BY <1>4, ReaderParts, WorldParts DEF Reads, SameCache
<1>8. y.ra \in Caches /\ b \in Buffers
  BY <1>5, <1>7
<1>9. /\ q \in Caches /\ q.depth = y.ra.depth /\ q.fd = y.ra.fd /\ q.cur = y.ra.cur
      /\ q.async = y.ra.async /\ q.ready = y.ra.ready /\ q.disabled = y.ra.disabled
      /\ q.slot[s] = b /\ \A t \in Slots : t # s => q.slot[t] = y.ra.slot[t]
  BY <1>8, SlotParts
<1> HIDE DEF q
<1>10. ~Queued(y, "read")
  BY <1>4 DEF Queued, NoRequest
<1>11. \A t \in Slots : q.slot[t].off <= Len(q.slot[t].data)
  BY <1>5, <1>7, <1>9 DEF Shape
<1>12. x = Ret(o, n) /\ x.rc = n /\ o.ra = q
  <2>1. x = Ret(o, n)
    BY <1>2 DEF q, b, n
  <2>2. o \in Worlds /\ o.ra = q
    BY <1>7, <1>9, PutRaParts
  <2> HIDE DEF o
  <2> QED BY <1>6, <2>1, <2>2, RetParts
<1> DEFINE r == IF n <= 0 THEN q ELSE [q EXCEPT !.cur = s]
           p == PutRa(y, r)
<1>13. /\ r \in Caches /\ r.depth = w.ra.depth /\ r.fd = w.ra.fd
       /\ r.cur = (IF n <= 0 THEN w.ra.cur ELSE s)
       /\ r.async = NoSlot /\ r.ready = NoSlot /\ r.slot = q.slot
  <2>1. CASE n <= 0
    <3>1. r = q
      BY <2>1
    <3> HIDE DEF r
    <3> QED BY <1>7, <1>9, <2>1, <3>1
  <2>2. CASE ~(n <= 0)
    <3> DEFINE q1 == [q EXCEPT !.cur = s]
    <3>1. r = q1
      BY <2>2
    <3>2. /\ q1 \in Caches /\ q1.depth = q.depth /\ q1.fd = q.fd /\ q1.cur = s
          /\ q1.async = q.async /\ q1.ready = q.ready /\ q1.slot = q.slot
      BY <1>9, CurParts
    <3> HIDE DEF r, q1
    <3> QED BY <1>7, <1>9, <2>2, <3>1, <3>2
  <2> QED BY <2>1, <2>2
<1>14. z = Ret(p, n)
  <2>1. CASE n <= 0
    <3>1. z = x /\ r = q
      BY <1>12, <2>1
    <3> QED BY <1>12, <3>1
  <2>2. CASE ~(n <= 0)
    <3>1. z = PutRa(x, [x.ra EXCEPT !.cur = s]) /\ r = [q EXCEPT !.cur = s]
      BY <1>12, <2>2
    <3>2. o \in Worlds /\ x.ra = o.ra
      BY <1>6, <1>7, <1>9, <1>12, PutRaParts, RetParts
    <3>3. z = PutRa(Ret(PutRa(y, q), n), r)
      BY <1>12, <3>1, <3>2
    <3> HIDE DEF r, q
    <3>4. PutRa(Ret(PutRa(y, q), n), r) = Ret(PutRa(y, r), n)
      BY <1>7 DEF PutRa, Ret, Worlds
    <3> QED BY <3>3, <3>4
  <2> QED BY <2>1, <2>2
<1> HIDE DEF r
<1>15. Shape(r)
  BY <1>11, <1>13 DEF Shape
<1>16. \A t \in Slots : r.slot[t].off <= Len(r.slot[t].data)
  BY <1>11, <1>13
<1>17. /\ Reader(p) /\ p.fx = y.fx /\ p.wb = y.wb /\ p.ra = r /\ p.out = y.out /\ p \in Worlds
  BY <1>7, <1>10, <1>13, <1>15, <1>16, PutRaReads
<1> HIDE DEF p
<1>18. Moves(p, z) /\ z.out = p.out /\ z.ra = p.ra /\ z.fx = p.fx /\ z.rc = n
  BY <1>6, <1>14, <1>17, RetMoves
<1>19. Reads(w, z)
  BY <1>4, <1>13, <1>17, <1>18 DEF Reads, Moves
<1>20. ASSUME NEW c \in Int, Spot(w, c) PROVE Spot(z, c)
  <2> DEFINE a == c + Len(w.out)
  <2>1. a \in Int /\ w.fx.file = Units(ImageUnits) /\ Run(w.out, c) /\ Prefetched(w, a)
    BY <1>1, <1>20, WorldParts DEF Spot, Lined
  <2> HIDE DEF a
  <2>2. ~Busy(w) /\ w.fx.pos = Ahead(w, a) /\ Ahead(w, a) = a
    BY <2>1 DEF Prefetched, Busy, Ahead
  <2>3. Run(y.raw, a) /\ y.fx.pos = a + Len(y.raw)
    BY <1>4, <2>1, <2>2
  <2>4. z.ra = r /\ z.fx = y.fx /\ z.ra.slot[s] = b /\ z \in Worlds
    BY <1>9, <1>13, <1>17, <1>18, <1>19, ReaderParts DEF Reads
  <2>5. Remaining(z, s) = Len(y.raw) /\ Run(Unread(z, s), a)
    BY <1>5, <2>1, <2>3, <2>4, FreshSlot
  <2>6. z.ra.cur # NoSlot => z.ra.cur = s
    BY <1>13, <2>4
  <2>7. z.ra.cur = NoSlot => Len(y.raw) = 0
    BY <1>6, <1>13, <2>4 DEF Slots, NoSlot
  <2>8. z.fx.pos = Ahead(z, a)
    BY <1>5, <2>1, <2>3, <2>4, <2>5, <2>6, <2>7 DEF Ahead
  <2>9. z.fx.rpc.st # "queued"
    BY <1>4, <2>4 DEF NoRequest
  <2>10. Prefetched(z, a)
    BY <1>13, <2>4, <2>5, <2>6, <2>8, <2>9 DEF Prefetched
  <2>11. z.out = w.out /\ z.fx.file = w.fx.file
    BY <1>4, <1>17, <1>18, <1>19 DEF Reads
  <2> QED BY <2>1, <2>10, <2>11 DEF Spot, Lined, a
<1>21. Moves(w, z)
  BY <1>6, <1>18, <1>19, <1>20 DEF Moves, Flows
<1> QED BY <1>4, <1>12, <1>13, <1>17, <1>18, <1>21

(* On to the refill that is ready.                                         *)
LEMMA SwapOutcome ==
  ASSUME NEW w, Reader(w), w.rc \in Int, w.ra.cur # NoSlot, Remaining(w, w.ra.cur) = 0,
         w.ra.async = NoSlot, w.ra.ready # NoSlot,
         NEW y, y = PutRa(w, SwapCache(w.ra, w.ra.cur, w.ra.ready))
  PROVE  /\ Reads(w, y) /\ y.out = w.out /\ y.rc = w.rc /\ y.fx = w.fx
         /\ y.ra.cur = w.ra.ready /\ y.ra.fd = w.ra.fd /\ y.ra.async = NoSlot
         /\ y.ra.ready = NoSlot /\ y.ra.slot[w.ra.ready] = w.ra.slot[w.ra.ready]
         /\ Remaining(y, w.ra.ready) = Len(w.ra.slot[w.ra.ready].data)
         /\ \A c \in Int : Spot(w, c) => Spot(y, c)
<1> DEFINE old == w.ra.cur
           s == w.ra.ready
           q == SwapCache(w.ra, old, s)
<1>1. /\ w \in Worlds /\ Sound(w) /\ Fetch(w) /\ ~Queued(w, "write") /\ Shape(w.ra)
      /\ w.ra \in Caches /\ old \in Slots /\ s \in Slots /\ build = "asyncread"
  BY ReaderParts, WorldParts DEF Fetch
<1>2. s # old /\ w.ra.slot[s].off = 0 /\ w.ra.slot[s].data \in Seq(Int)
  BY <1>1, WorldParts DEF Shape
<1>3. \A t \in Slots : w.ra.slot[t].off <= Len(w.ra.slot[t].data)
  BY <1>1 DEF Shape
<1>4. ~Queued(w, "read")
  BY <1>1 DEF Sound
<1>5. y = PutRa(w, q)
  OBVIOUS
<1>6. Remaining(w, old) = 0
  OBVIOUS
<1> HIDE DEF old, s
<1>7. /\ q \in Caches /\ q.depth = w.ra.depth /\ q.fd = w.ra.fd /\ q.cur = s
      /\ q.async = w.ra.async /\ q.ready = NoSlot /\ q.disabled = w.ra.disabled
      /\ q.slot[old] = EmptySlot
      /\ \A t \in Slots : t # old => q.slot[t] = w.ra.slot[t]
  BY <1>1, SwapParts, ZenonT(30)
<1> HIDE DEF q
<1>8. \A t \in Slots : q.slot[t].off <= Len(q.slot[t].data)
  BY <1>3, <1>7, BuffersParts
<1>9. s # NoSlot /\ q.async = NoSlot
  BY <1>1, <1>7 DEF Slots, NoSlot
<1>10. Shape(q)
  BY <1>7, <1>8, <1>9 DEF Shape
<1>11. /\ Reader(y) /\ y.fx = w.fx /\ y.wb = w.wb /\ y.ra = q /\ y.out = w.out
       /\ y.rc = w.rc /\ y \in Worlds
  BY <1>1, <1>4, <1>5, <1>7, <1>8, <1>9, <1>10, PutRaReads
<1>12. Reads(w, y)
  BY <1>7, <1>11 DEF Reads
<1>13. q.slot[s] = w.ra.slot[s]
  BY <1>1, <1>2, <1>7
<1>14. /\ Remaining(y, s) = Len(w.ra.slot[s].data)
       /\ \A a \in Int : Run(w.ra.slot[s].data, a) => Run(Unread(y, s), a)
  <2>1. y.ra.slot[s] = w.ra.slot[s] /\ y.ra.slot[s].off = 0
    BY <1>2, <1>11, <1>13
  <2> QED BY <1>1, <1>11, <2>1, FreshSlot
<1>15. ASSUME NEW c \in Int, Spot(w, c) PROVE Spot(y, c)
  <2> DEFINE a == c + Len(w.out)
  <2>1. a \in Int /\ w.fx.file = Units(ImageUnits) /\ Run(w.out, c) /\ Prefetched(w, a)
    BY <1>1, <1>15, WorldParts DEF Spot, Lined
  <2> HIDE DEF a
  <2>2. Ahead(w, a) = a
    BY <1>6, <2>1 DEF Ahead, old
  <2>3. /\ Run(w.ra.slot[s].data, a) /\ w.fx.pos = a + Len(w.ra.slot[s].data)
        /\ w.fx.rpc.st # "queued"
    BY <2>1, <2>2 DEF Prefetched, s
  <2>4. Ahead(y, a) = a + Len(w.ra.slot[s].data)
    BY <1>7, <1>9, <1>11, <1>14 DEF Ahead
  <2>5. Run(Unread(y, y.ra.cur), a)
    BY <1>7, <1>11, <1>14, <2>1, <2>3
  <2>6. y.fx.pos = Ahead(y, a)
    BY <1>11, <2>3, <2>4
  <2>7. Prefetched(y, a)
    BY <1>7, <1>9, <1>11, <2>3, <2>5, <2>6 DEF Prefetched
  <2> QED BY <1>1, <1>11, <2>1, <2>7 DEF Spot, Lined, a
<1> QED BY <1>7, <1>9, <1>11, <1>12, <1>13, <1>14, <1>15 DEF s

LEMMA NextSlotOutcome ==
  ASSUME NEW w, Reader(w), w.fx.open # 0, w.ra.cur # NoSlot, Remaining(w, w.ra.cur) = 0,
         NEW x \in NextSlot(w)
  PROVE  /\ Moves(w, x) /\ x.out = w.out /\ x.ra.fd = w.ra.fd
         /\ x.rc > 0 => x.ra.cur # NoSlot
<1> DEFINE old == w.ra.cur
           Put(v) == [v EXCEPT !.ra.ready = NoSlot, !.ra.cur = v.ra.ready, !.ra.slot[old] = EmptySlot]
           Swap(v) == LET s == v.ra.ready
                          y == [v EXCEPT !.ra.ready = NoSlot, !.ra.cur = s,
                                         !.ra.slot[old] = EmptySlot]
                      IN IF v.ra.slot[s].data = <<>> THEN {Ret(y, 0)} ELSE RaSubmit(Ret(y, 1), old)
           Prefetch(v) == IF v.rc <= 0 THEN {v} ELSE RaSubmit(v, 1 - old)
           Go(v) == IF v.ra.ready # NoSlot THEN Swap(v) ELSE After(FillSync(v, old), Prefetch)
<1>1. /\ w \in Worlds /\ Sound(w) /\ Shape(w.ra) /\ old \in Slots /\ build = "asyncread"
  BY ReaderParts, WorldParts DEF Reader, Fetch
<1>2. NextSlot(w) = Then(RaFinish(w), Go)
  BY DEF NextSlot
<1> HIDE DEF Go
<1>3. PICK f \in RaFinish(w) : x \in IF f.rc < 0 THEN {f} ELSE Go(f)
  BY <1>2 DEF Then
<1>4. /\ Moves(w, f) /\ f.out = w.out /\ f.rc \in {Failed} \cup Nat
      /\ f.ra.async = NoSlot /\ f.ra.cur = w.ra.cur /\ f.ra.fd = w.ra.fd
      /\ \A t \in Slots : t # w.ra.async => f.ra.slot[t] = w.ra.slot[t]
  BY RaFinishOutcome
<1>5. CASE f.rc < 0
  <2>1. x = f /\ ~(x.rc > 0)
    BY <1>3, <1>4, <1>5 DEF Failed
  <2> QED BY <1>4, <2>1
<1>6. CASE ~(f.rc < 0)
  <2>1. x \in Go(f) /\ f.rc \in Nat
    BY <1>3, <1>4, <1>6 DEF Failed
  <2>2. Reader(f) /\ f.fx.open # 0 /\ f.ra.cur = old /\ f.ra.cur # NoSlot /\ f \in Worlds
    BY <1>4, MovesReader, ReaderParts
  <2>3. Remaining(f, old) = 0
    <3>1. old # w.ra.async
      BY <1>1 DEF Shape, Slots, NoSlot
    <3> QED BY <1>1, <1>4, <3>1 DEF Remaining
  <2>4. CASE f.ra.ready # NoSlot
    <3> DEFINE s == f.ra.ready
               q == SwapCache(f.ra, old, s)
               y == PutRa(f, q)
    <3>1. Put(f) = y
      <4>1. f.ra \in Caches
        BY <2>2, WorldParts
      <4> QED BY <1>1, <2>2, <4>1 DEF PutRa, SwapCache, Worlds, Caches
    <3>2. x \in IF f.ra.slot[s].data = <<>> THEN {Ret(y, 0)} ELSE RaSubmit(Ret(y, 1), old)
      BY <2>1, <2>4, <3>1 DEF Go
    <3> HIDE DEF y
    <3>3. /\ Reads(f, y) /\ y.out = f.out /\ y.rc = f.rc /\ y.fx = f.fx
          /\ y.ra.cur = s /\ y.ra.fd = f.ra.fd
          /\ \A c \in Int : Spot(f, c) => Spot(y, c)
      <4>1. y = PutRa(f, SwapCache(f.ra, f.ra.cur, f.ra.ready))
        BY <2>2 DEF y
      <4>2. /\ Reader(f) /\ f.rc \in Int /\ f.ra.cur # NoSlot /\ Remaining(f, f.ra.cur) = 0
            /\ f.ra.async = NoSlot /\ f.ra.ready # NoSlot
        BY <1>4, <2>1, <2>2, <2>3, <2>4
      <4> QED BY <4>1, <4>2, SwapOutcome
    <3>4. Moves(f, y) /\ Reader(y) /\ s # NoSlot /\ s # old
      BY <2>1, <2>2, <2>4, <3>3, ReaderParts DEF Moves, Flows, Reads, Shape
    <3> HIDE DEF s
    <3>5. CASE f.ra.slot[s].data = <<>>
      <4>1. x = Ret(y, 0) /\ 0 \in Int
        BY <3>2, <3>5
      <4>2. Moves(y, x) /\ x.out = y.out /\ x.ra = y.ra /\ x.rc = 0
        BY <3>4, <4>1, RetMoves
      <4>3. Moves(f, x)
        BY <2>1, <3>3, <3>4, <4>2, MovesTwice
      <4>4. Moves(w, x)
        BY <1>4, <2>1, <4>3, MovesTwice
      <4> QED BY <1>4, <3>3, <4>2, <4>4
    <3>6. CASE f.ra.slot[s].data # <<>>
      <4> DEFINE z == Ret(y, 1)
      <4>1. x \in RaSubmit(z, old) /\ 1 \in Int
        BY <3>2, <3>6
      <4>2. Moves(y, z) /\ z.out = y.out /\ z.ra = y.ra /\ z.fx = y.fx /\ z.rc = 1
        BY <3>4, RetMoves
      <4> HIDE DEF z
      <4>3. Reader(z) /\ z.fx.open # 0 /\ z.rc \in Int /\ z.ra.cur = s
        BY <2>2, <3>3, <4>2, MovesReader
      <4>4. /\ Reads(z, x) /\ x.out = z.out /\ x.rc = z.rc
            /\ x.ra.cur = z.ra.cur /\ x.ra.fd = z.ra.fd
            /\ \A c : Spot(z, c) => Spot(x, c)
        BY <1>1, <3>4, <4>1, <4>3, RaSubmitOutcome
      <4>5. Moves(z, x)
        BY <4>2, <4>4 DEF Moves, Flows
      <4>6. Moves(y, x)
        BY <4>2, <4>5, MovesTwice
      <4>7. Moves(f, x)
        BY <2>1, <3>3, <3>4, <4>6, MovesTwice
      <4>8. Moves(w, x)
        BY <1>4, <2>1, <4>7, MovesTwice
      <4> QED BY <1>4, <3>3, <3>4, <4>2, <4>3, <4>4, <4>8
    <3> QED BY <3>5, <3>6
  <2>5. CASE f.ra.ready = NoSlot
    <3>1. x \in After(FillSync(f, old), Prefetch)
      BY <2>1, <2>5 DEF Go
    <3> HIDE DEF Prefetch
    <3>2. PICK y \in FillSync(f, old) : x \in Prefetch(y)
      BY <3>1 DEF After
    <3> DEFINE z == IF y.rc <= 0 THEN y ELSE PutRa(y, [y.ra EXCEPT !.cur = old])
    <3>3. /\ Moves(f, z) /\ z.rc = y.rc /\ z.out = f.out /\ z.ra.fd = f.ra.fd
          /\ z.ra.cur = (IF y.rc <= 0 THEN f.ra.cur ELSE old)
      <4>1. z = IF y.rc <= 0 THEN y ELSE PutRa(y, [y.ra EXCEPT !.cur = old])
        OBVIOUS
      <4> HIDE DEF z, old
      <4>2. /\ Reader(f) /\ f.fx.open # 0 /\ build = "asyncread" /\ f.ra.async = NoSlot
            /\ f.ra.ready = NoSlot /\ old \in Slots /\ f.ra.cur = old /\ Remaining(f, old) = 0
        BY <1>1, <1>4, <2>2, <2>3, <2>5
      <4> QED BY <3>2, <4>1, <4>2, FillSyncOutcome, SMTT(30)
    <3>4. z = y
      <4>1. CASE y.rc <= 0
        BY <4>1
      <4>2. CASE ~(y.rc <= 0)
        <5>1. y.ra.cur = old /\ y \in Worlds /\ y.ra \in Caches
          <6>1. PICK u \in ReadCalls(f, RecordUnits, BatchUnits) :
                  y = Ret(PutRa(u, [u.ra EXCEPT !.slot[old] = [data |-> u.raw, off |-> 0]]),
                          IF u.raw = <<>> THEN u.rc ELSE Len(u.raw))
            BY <1>1, <2>2, <3>2, FillSyncCases
          <6>2. RecordUnits \in Nat /\ BatchUnits \in Nat /\ RecordUnits <= BatchUnits
            BY Sizes
          <6>3. Reads(f, u) /\ SameCache(u, f) /\ u.raw \in Seq(Int) /\ u.rc \in Int
            BY <2>2, <6>2, ReadReader
          <6>4. u \in Worlds /\ u.ra \in Caches /\ u.ra.cur = old
            BY <2>2, <6>3, ReaderParts, WorldParts DEF Reads, SameCache
          <6> DEFINE b == [data |-> u.raw, off |-> 0]
                     q == [u.ra EXCEPT !.slot[old] = b]
                     n == IF u.raw = <<>> THEN u.rc ELSE Len(u.raw)
          <6>5. b \in Buffers /\ n \in Int
            BY <6>3, BuffersParts
          <6>6. y = Ret(PutRa(u, q), n)
            BY <6>1
          <6> HIDE DEF b, n, old
          <6>7. q \in Caches /\ q.cur = u.ra.cur
            BY <1>1, <6>4, <6>5, SlotParts
          <6> HIDE DEF q
          <6>8. PutRa(u, q) \in Worlds /\ PutRa(u, q).ra = q
            BY <6>4, <6>7, PutRaParts
          <6>9. y \in Worlds /\ y.ra = q
            BY <6>5, <6>6, <6>8, RetParts
          <6> QED BY <6>4, <6>7, <6>9
        <5>2. [y.ra EXCEPT !.cur = old] = y.ra
          BY <5>1 DEF Caches
        <5>3. PutRa(y, y.ra) = y
          BY <5>1 DEF PutRa, Worlds
        <5> QED BY <4>2, <5>2, <5>3
      <4> QED BY <4>1, <4>2
    <3> HIDE DEF z
    <3>5. CASE y.rc <= 0
      <4>1. x = y
        BY <3>2, <3>5 DEF Prefetch
      <4>2. Moves(w, x)
        BY <1>4, <2>1, <3>3, <3>4, <4>1, MovesTwice
      <4> QED BY <1>4, <3>3, <3>4, <3>5, <4>1, <4>2
    <3>6. CASE ~(y.rc <= 0)
      <4>1. x \in RaSubmit(y, 1 - old) /\ 1 - old \in Slots /\ old # 1 - old
        BY <1>1, <3>2, <3>6 DEF Prefetch, Slots
      <4>2. Reader(y) /\ y.fx.open # 0 /\ y.rc \in Int /\ y.ra.cur = old
        BY <2>2, <3>3, <3>4, <3>6, MovesReader DEF Moves
      <4>3. /\ Reads(y, x) /\ x.out = y.out /\ x.rc = y.rc
            /\ x.ra.cur = y.ra.cur /\ x.ra.fd = y.ra.fd
            /\ \A c : Spot(y, c) => Spot(x, c)
        BY <1>1, <4>1, <4>2, RaSubmitOutcome
      <4>4. Moves(y, x) /\ y.rc >= 0
        BY <3>6, <4>2, <4>3 DEF Moves, Flows
      <4>5. Moves(f, x)
        BY <3>3, <3>4, <4>4, MovesTwice
      <4>6. Moves(w, x)
        BY <1>4, <2>1, <4>5, MovesTwice
      <4> QED BY <1>4, <3>3, <3>4, <4>2, <4>3, <4>6
    <3> QED BY <3>5, <3>6
  <2> QED BY <2>4, <2>5
<1> QED BY <1>5, <1>6

LEMMA HandsAfter ==
  ASSUME NEW w, NEW y, NEW x, Moves(w, y), y.out = w.out, y.rc >= 0, Hands(y, x)
  PROVE  Hands(w, x)
<1>1. Moves(w, x)
  BY MovesTwice DEF Hands
<1> QED BY <1>1 DEF Hands

LEMMA DirectOutcome ==
  ASSUME NEW w, Reader(w), w.fx.open # 0, Short(w), NEW n \in Nat, NEW y \in ReadCalls(w, n, n),
         NEW m \in Int, NEW z, z = Appended(y, m)
  PROVE  Directed(w, z, m, y.raw) /\ Len(y.raw) \in 0..n /\ y.rc \in Int
         /\ (y.rc > 0 => y.rc = Len(y.raw))
<1>1. /\ w \in Worlds /\ Sound(w) /\ Fetch(w) /\ Shape(w.ra) /\ w.out \in Seq(Int)
      /\ w.ra.cur \in Slots \cup {NoSlot} /\ ~Queued(w, "write")
      /\ w.fx.rpc \in Requests
  BY ReaderParts, WorldParts
<1>2. /\ Reads(w, y) /\ SameCache(y, w) /\ y.fx.rpc = NoRequest /\ y.out = w.out
      /\ ~Busy(w) => y.ra = w.ra
      /\ w.ra.cur # NoSlot => y.ra.slot[w.ra.cur] = w.ra.slot[w.ra.cur]
      /\ y.raw \in Seq(Int) /\ y.rc \in Int /\ (y.rc > 0 => y.rc = Len(y.raw))
      /\ Len(y.raw) <= n
      /\ w.fx.file = Units(ImageUnits) /\ ~Busy(w) =>
            Run(y.raw, w.fx.pos) /\ y.fx.pos = w.fx.pos + Len(y.raw)
  BY ReadReader
<1> DEFINE o == y.out \o y.raw
<1>3. o \in Seq(Int) /\ Len(o) = Len(w.out) + Len(y.raw) /\ Len(w.out) \in Nat /\ Len(y.raw) \in Nat
      /\ \A a \in Int : Run(w.out, a) /\ Run(y.raw, a + Len(w.out)) => Run(o, a)
  BY <1>1, <1>2, RunJoin
<1> HIDE DEF o
<1>4. y \in Worlds /\ Reader(y)
  BY <1>2, ReaderParts DEF Reads
<1>5. z = PutOut(y, m, o)
  BY DEF o, Appended
<1>6. /\ z \in Worlds /\ z.fx = y.fx /\ z.wb = y.wb /\ z.ra = y.ra /\ z.rc = m /\ z.out = o
  BY <1>3, <1>4, <1>5, OutParts
<1>7. Reads(y, z)
  BY <1>4, <1>6, ReaderSame
<1>8. Reads(w, z)
  BY <1>2, <1>7 DEF Reads
<1>9. SameCache(z, w)
  BY <1>2, <1>6 DEF SameCache
<1>10. build # "asyncread" => ~Busy(w)
  BY <1>1, RequestParts DEF Sound, Queued, Busy, Calls
<1>11. Short(z)
  <2>1. CASE build = "asyncread"
    BY <1>2, <1>6, <1>9, <2>1 DEF Short, SameCache, Remaining
  <2>2. CASE build # "asyncread"
    BY <1>2, <1>6, <1>10, <2>2 DEF Short, Remaining
  <2> QED BY <2>1, <2>2
<1>12. ASSUME NEW c \in Int, Spot(w, c) PROVE Spot(z, c)
  <2> DEFINE a == c + Len(w.out)
             b == a + Len(y.raw)
  <2> DEFINE l == Len(w.out)
             k == Len(y.raw)
             g == Len(o)
  <2>7. l \in Nat /\ k \in Nat /\ g = l + k
    BY <1>3
  <2>8. a \in Int /\ b \in Int /\ c + g = b
    <3> HIDE DEF l, k, g
    <3>1. a = c + l /\ b = a + k
      BY DEF l, k
    <3> HIDE DEF a, b
    <3> QED BY <2>7, <3>1
  <2>9. w.fx.file = Units(ImageUnits) /\ Run(w.out, c) /\ Lined(w, a)
    BY <1>12 DEF Spot
  <2>1. a \in Int /\ w.fx.file = Units(ImageUnits) /\ Run(w.out, c) /\ Lined(w, a) /\ b \in Int
    BY <2>8, <2>9
  <2>2. ~Busy(w) /\ w.fx.pos = a
    <3>1. CASE build = "asyncread"
      BY <2>1, <3>1 DEF Lined, Prefetched, Short, Ahead, Busy
    <3>2. CASE build # "asyncread"
      BY <1>10, <2>1, <3>2 DEF Lined, Short
    <3> QED BY <3>1, <3>2
  <2>3. Run(y.raw, a) /\ z.fx.pos = b
    BY <1>2, <1>6, <2>1, <2>2
  <2>10. Run(o, c)
    BY <1>3, <2>9, <2>3
  <2>11. c + Len(o) = b
    BY <2>8
  <2>4. Run(o, c) /\ c + Len(o) = b
    BY <2>10, <2>11
  <2> HIDE DEF a, b
  <2>5. Lined(z, b)
    <3>1. ASSUME NEW s \in Slots, Remaining(z, s) = 0 PROVE Run(Unread(z, s), b)
      <4>1. Len(Unread(z, s)) = 0
        BY <1>8, <3>1, ReaderParts DEF Reads
      <4> QED BY <4>1 DEF Run
    <3>2. CASE build = "asyncread"
      <4>1. z.ra.async = NoSlot /\ z.ra.ready = NoSlot
            /\ (z.ra.cur # NoSlot => Remaining(z, z.ra.cur) = 0)
        BY <1>11, <3>2 DEF Short
      <4>2. z.ra.cur \in Slots \cup {NoSlot}
        BY <1>1, <1>9 DEF SameCache
      <4>3. z.fx.rpc.st # "queued"
        BY <1>2, <1>6 DEF NoRequest
      <4>4. Ahead(z, b) = b
        BY <2>1, <4>1 DEF Ahead
      <4>5. Prefetched(z, b)
        BY <2>3, <3>1, <4>1, <4>2, <4>3, <4>4 DEF Prefetched
      <4> QED BY <3>2, <4>5 DEF Lined
    <3>3. CASE build # "asyncread"
      <4>1. Remaining(z, 0) = 0 /\ 0 \in Slots
        BY <1>11, <3>3 DEF Short, Slots
      <4> QED BY <2>1, <2>3, <3>1, <3>3, <4>1 DEF Lined
    <3> QED BY <3>2, <3>3
  <2>6. z.fx.file = w.fx.file
    BY <1>8 DEF Reads
  <2>12. z.out = o
    BY <1>6
  <2>13. Lined(z, c + Len(z.out))
    BY <2>4, <2>5, <2>12, Zenon
  <2>14. Run(z.out, c) /\ z.fx.file = Units(ImageUnits)
    BY <2>4, <2>6, <2>9, <2>12
  <2> QED BY <2>13, <2>14, Zenon DEF Spot
<1>13. Len(y.raw) \in 0..n
  <2> DEFINE k == Len(y.raw)
  <2>1. k \in Nat /\ k <= n
    BY <1>2, <1>3
  <2> HIDE DEF k
  <2>2. k \in 0..n
    BY <2>1
  <2> QED BY <2>2 DEF k
<1>14. z.fx.rpc = NoRequest /\ z.rc = m /\ Len(z.out) = Len(w.out) + Len(y.raw)
  BY <1>2, <1>3, <1>6

<1>15. Directed(w, z, m, y.raw)
  BY <1>2, <1>8, <1>9, <1>11, <1>12, <1>14 DEF Directed
<1> QED BY <1>2, <1>13, <1>15

LEMMA DropCacheParts ==
  ASSUME NEW r \in Caches, NEW s \in Slots
  PROVE  LET q == DropCache(r, s) IN
         /\ q \in Caches /\ q.depth = r.depth /\ q.fd = r.fd /\ q.cur = NoSlot
         /\ q.async = r.async /\ q.ready = r.ready /\ q.slot[s] = EmptySlot
         /\ \A t \in Slots : t # s => q.slot[t] = r.slot[t]
<1> DEFINE q1 == [r EXCEPT !.slot[s] = EmptySlot]
           q2 == [q1 EXCEPT !.cur = NoSlot]
<1>1. EmptySlot \in Buffers
  BY BuffersParts
<1>2. /\ q1 \in Caches /\ q1.depth = r.depth /\ q1.fd = r.fd
      /\ q1.async = r.async /\ q1.ready = r.ready
      /\ q1.slot[s] = EmptySlot /\ \A t \in Slots : t # s => q1.slot[t] = r.slot[t]
  BY <1>1, SlotParts
<1> HIDE DEF q1
<1>3. NoSlot \in Slots \cup {NoSlot} /\ q1 \in Caches
  BY <1>2
<1>4. /\ q2 \in Caches /\ q2.depth = q1.depth /\ q2.fd = q1.fd /\ q2.cur = NoSlot
      /\ q2.async = q1.async /\ q2.ready = q1.ready /\ q2.slot = q1.slot
  BY <1>3, CurParts
<1>5. DropCache(r, s) = q2
  BY DEF DropCache, q1
<1> HIDE DEF q2
<1> QED BY <1>2, <1>4, <1>5

(* The buffer that was consumed is given up.                               *)
LEMMA DropOutcome ==
  ASSUME NEW w, Reader(w), Short(w), w.fx.rpc = NoRequest, NEW s \in Slots, w.ra.cur = s,
         NEW y, y = PutRa(w, DropCache(w.ra, s))
  PROVE  /\ Reads(w, y) /\ y.out = w.out /\ y.rc = w.rc /\ y.ra.fd = w.ra.fd
         /\ \A c \in Int : Spot(w, c) => Spot(y, c)
<1>1. /\ w \in Worlds /\ Sound(w) /\ Fetch(w) /\ Shape(w.ra) /\ ~Queued(w, "write")
      /\ w.ra \in Caches /\ build = "asyncread" /\ Len(w.out) \in Nat
  BY ReaderParts, WorldParts DEF Fetch, Slots, NoSlot
<1>2. w.ra.async = NoSlot /\ w.ra.ready = NoSlot /\ Remaining(w, s) = 0
  BY <1>1 DEF Short, Slots, NoSlot
<1> DEFINE q == DropCache(w.ra, s)
<1>3. /\ q \in Caches /\ q.depth = w.ra.depth /\ q.fd = w.ra.fd /\ q.cur = NoSlot
      /\ q.async = w.ra.async /\ q.ready = w.ra.ready /\ q.slot[s] = EmptySlot
      /\ \A t \in Slots : t # s => q.slot[t] = w.ra.slot[t]
  BY <1>1, DropCacheParts
<1>4. y = PutRa(w, q)
  OBVIOUS
<1> HIDE DEF q
<1>5. \A t \in Slots : q.slot[t].off <= Len(q.slot[t].data)
  BY <1>1, <1>3, BuffersParts DEF Shape
<1>6. Shape(q)
  BY <1>2, <1>3, <1>5 DEF Shape
<1>7. ~Queued(w, "read")
  BY DEF Queued, NoRequest
<1>8. /\ Reader(y) /\ y.fx = w.fx /\ y.wb = w.wb /\ y.ra = q /\ y.out = w.out
      /\ y.rc = w.rc /\ y \in Worlds
  BY <1>1, <1>2, <1>3, <1>4, <1>5, <1>6, <1>7, PutRaReads
<1>9. Reads(w, y)
  BY <1>3, <1>8 DEF Reads
<1>10. ASSUME NEW c \in Int, Spot(w, c) PROVE Spot(y, c)
  <2> DEFINE a == c + Len(w.out)
  <2>1. a \in Int /\ w.fx.file = Units(ImageUnits) /\ Run(w.out, c) /\ Prefetched(w, a)
    BY <1>1, <1>10 DEF Spot, Lined
  <2> HIDE DEF a
  <2>2. w.fx.pos = a /\ w.fx.rpc.st # "queued"
    BY <1>2, <2>1 DEF Prefetched, Ahead, Slots, NoSlot
  <2>4. y.ra.cur = NoSlot /\ y.ra.async = NoSlot /\ y.ra.ready = NoSlot /\ y.fx = w.fx
    BY <1>2, <1>3, <1>8
  <2>5. Ahead(y, a) = a
    BY <2>1, <2>4 DEF Ahead
  <2>3. Prefetched(y, a)
    BY <2>2, <2>4, <2>5 DEF Prefetched
  <2> QED BY <1>1, <1>8, <2>1, <2>3 DEF Spot, Lined, a
<1> QED BY <1>3, <1>8, <1>9, <1>10

LEMMA HandsOver ==
  ASSUME NEW w, NEW y, NEW x, Moves(w, y), y.rc >= 0, Reads(y, x), x.rc \in Nat,
         \A c \in Int : Spot(y, c) => Spot(x, c),
         x.rc <= RecordUnits, Len(x.out) = Len(w.out) + x.rc,
         x.rc < RecordUnits => Short(x)
  PROVE  Hands(w, x)
<1>1. Moves(y, x)
  BY DEF Moves, Flows
<1>2. Moves(w, x)
  BY <1>1, MovesTwice
<1> QED BY <1>2 DEF Hands

LEMMA DroppedCase ==
  ASSUME NEW w \in Worlds, NEW s \in Slots
  PROVE  Dropped(w, s) = PutRa(w, DropCache(w.ra, s))
<1>1. w.ra \in Caches
  BY WorldParts
<1> QED BY <1>1 DEF Dropped, PutRa, DropCache, Worlds, Caches

(* The rest of the record straight from the file; the buffer is given up   *)
(* when the record is whole.                                               *)
LEMMA TailOutcome ==
  ASSUME NEW w, NEW y, Moves(w, y), y.rc >= 0, Short(y), y.fx.open # 0,
         NEW s \in Slots, y.ra.cur = s, NEW h \in 0..RecordUnits,
         Len(y.out) = Len(w.out) + h, Len(w.out) \in Nat,
         NEW z \in DirectSet(y, h),
         NEW x, x = z \/ (z.rc = RecordUnits /\ x = Dropped(z, s))
  PROVE  Hands(w, x) /\ x.ra.fd = y.ra.fd
<1>1. Reader(y)
  BY MovesReader
<1>2. RecordUnits \in Nat
  BY FileXioAssumption
<1> DEFINE n == RecordUnits - h
<1>3. n \in Nat /\ h \in Nat
  BY <1>2
<1> HIDE DEF n
<1>4. PICK d \in ReadCalls(y, n, n) : z = [d EXCEPT !.out = @ \o d.raw, !.rc = h + Len(d.raw)]
  BY DEF DirectSet, n
<1> DEFINE m == h + Len(d.raw)
<1>5. z = Appended(d, m)
  BY <1>4, Zenon DEF PutOut, Appended
<1>6. Len(d.raw) \in Nat
  <2>1. d.raw \in Seq(Int)
    BY <1>1, <1>3, ReadReader
  <2> QED BY <2>1
<1>7. m \in Int
  <2> HIDE DEF m
  <2>1. m = h + Len(d.raw)
    BY DEF m
  <2> QED BY <1>3, <1>6, <2>1
<1> HIDE DEF m
<1>7a. Directed(y, z, m, d.raw) /\ Len(d.raw) \in 0..n
  BY <1>1, <1>3, <1>5, <1>7, DirectOutcome
<1>8. /\ Reads(y, z) /\ Short(z) /\ z.rc = m /\ Len(z.out) = Len(y.out) + Len(d.raw)
      /\ SameCache(z, y) /\ z.fx.rpc = NoRequest /\ Len(d.raw) \in 0..n
      /\ \A c \in Int : Spot(y, c) => Spot(z, c)
  BY <1>7a DEF Directed
<1>9. m \in Nat /\ m <= RecordUnits /\ Len(z.out) = Len(w.out) + m
  <2> DEFINE l == Len(w.out)
             g == Len(y.out)
             e == Len(z.out)
             k == Len(d.raw)
  <2>1. l \in Nat /\ g = l + h /\ e = g + k /\ m = h + k /\ k \in 0..n /\ n = RecordUnits - h
    BY <1>8 DEF m, n
  <2> HIDE DEF l, g, e, k
  <2>2. m \in Nat /\ m <= RecordUnits /\ e = l + m
    BY <1>2, <1>3, <2>1
  <2> QED BY <2>2 DEF e, l
<1>10. CASE x = z
  <2>1. Hands(w, z)
    BY <1>8, <1>9, HandsOver
  <2> QED BY <1>5, <1>8, <1>10, <2>1 DEF SameCache
<1>11. CASE z.rc = RecordUnits /\ x = Dropped(z, s)
  <2>1. Reader(z) /\ z \in Worlds
    BY <1>8, ReaderParts DEF Reads
  <2> DEFINE u == PutRa(z, DropCache(z.ra, s))
  <2>2. x = u
    BY <1>5, <1>11, <2>1, DroppedCase
  <2>3. z.ra.cur = s /\ z.ra.fd = y.ra.fd
    BY <1>8 DEF SameCache
  <2>4. /\ Reads(z, u) /\ u.out = z.out /\ u.rc = z.rc /\ u.ra.fd = z.ra.fd
        /\ \A c \in Int : Spot(z, c) => Spot(u, c)
    BY <1>8, <2>1, <2>3, DropOutcome
  <2> HIDE DEF u
  <2>5. Reads(y, u)
    BY <1>8, <2>4 DEF Reads
  <2>6. u.rc = RecordUnits /\ u.rc = m
    BY <1>5, <1>8, <1>11, <2>4
  <2>7. /\ u.rc \in Nat /\ u.rc <= RecordUnits /\ Len(u.out) = Len(w.out) + u.rc
        /\ ~(u.rc < RecordUnits)
    BY <1>2, <1>9, <2>4, <2>6
  <2>8. \A c \in Int : Spot(y, c) => Spot(u, c)
    BY <1>8, <2>4
  <2>9. Hands(w, u)
    BY <2>5, <2>7, <2>8, HandsOver
  <2> QED BY <2>2, <2>3, <2>4, <2>9
<1> QED BY <1>10, <1>11

LEMMA BumpedBuffer ==
  ASSUME NEW r \in Caches, NEW s \in Slots, NEW k \in Nat
  PROVE  /\ [data |-> r.slot[s].data, off |-> r.slot[s].off + k] \in Buffers
         /\ SubSeq(r.slot[s].data, r.slot[s].off + 1, Len(r.slot[s].data)) \in Seq(Int)
<1>1. r.slot[s] \in Buffers
  BY DEF Caches
<1>2. r.slot[s].data \in Seq(Int) /\ r.slot[s].off \in Nat
  BY <1>1 DEF Buffers
<1>3. r.slot[s].off + k \in Nat
  BY <1>2
<1>4. [data |-> r.slot[s].data, off |-> r.slot[s].off + k] \in Buffers
  BY <1>2, <1>3 DEF Buffers
<1>5. SubSeq(r.slot[s].data, r.slot[s].off + 1, Len(r.slot[s].data)) \in Seq(Int)
  <2> DEFINE d == r.slot[s].data
             j == r.slot[s].off
  <2> HIDE DEF d, j
  <2>1. d \in Seq(Int) /\ j \in Nat
    BY <1>2 DEF d, j
  <2>2. SubSeq(d, j + 1, Len(d)) \in Seq(Int)
    BY <2>1
  <2> QED BY <2>2 DEF d, j
<1> QED BY <1>4, <1>5

LEMMA SameCaches ==
  ASSUME NEW p \in Caches, NEW q \in Caches, p.depth = q.depth, p.fd = q.fd, p.cur = q.cur,
         p.async = q.async, p.ready = q.ready, p.disabled = q.disabled,
         \A t \in Slots : p.slot[t] = q.slot[t]
  PROVE  p = q
<1>1. p.slot \in [Slots -> Buffers] /\ q.slot \in [Slots -> Buffers]
  BY DEF Caches
<1>2. p.slot = q.slot
  BY <1>1
<1> QED BY <1>2 DEF Caches

LEMMA JoinTakeCase ==
  ASSUME NEW f \in Worlds, NEW old \in Slots, NEW s \in Slots, s # old,
         f.ra.slot[s].off <= Len(f.ra.slot[s].data), NEW n \in Nat, NEW k \in 0..Remaining(f, s)
  PROVE  JoinTake(f, old, n, s, k) = Ret(Take(PutRa(f, SwapCache(f.ra, old, s)), s, k), n + k)
<1>1. f.ra \in Caches
  BY WorldParts
<1>0. Unread(f, s) \in Seq(Int) /\ f.out \in Seq(Int) /\ k \in 0..Len(Unread(f, s)) /\ k \in Nat
  <2>1. f.out \in Seq(Int)
    BY WorldParts
  <2>2. /\ Unread(f, s) \in Seq(Int) /\ Len(Unread(f, s)) = Remaining(f, s)
        /\ Remaining(f, s) \in Nat
    BY UnreadParts
  <2>3. k \in 0..Remaining(f, s)
    OBVIOUS
  <2> HIDE DEF Remaining
  <2> QED BY <2>1, <2>2, <2>3
<1> DEFINE q == SwapCache(f.ra, old, s)
           g == PutRa(f, q)
           o == f.out \o SubSeq(Unread(f, s), 1, k)
           b == [data |-> f.ra.slot[s].data, off |-> f.ra.slot[s].off + k]
           r == [f.ra EXCEPT !.slot[s] = b]
<1>2. q \in Caches /\ q.slot[s] = f.ra.slot[s]
  BY <1>1, SwapParts
<1>3. Take(f, s, k) = PutRa(PutOut(f, k, o), r)
  <2>1. f \in Worlds /\ s \in Slots /\ k \in Nat
    BY <1>0
  <2> QED BY <2>1, TakeCase, Zenon
<1> DEFINE r1 == [r EXCEPT !.ready = NoSlot, !.cur = s, !.slot[old] = EmptySlot]
<1>4. JoinTake(f, old, n, s, k) = PutRa(PutOut(f, n + k, o), r1)
  <2> HIDE DEF o, r
  <2>1. JoinTake(f, old, n, s, k) =
          [PutRa(PutOut(f, k, o), r) EXCEPT !.ra.ready = NoSlot, !.ra.cur = s,
                                            !.ra.slot[old] = EmptySlot, !.rc = n + k]
    BY <1>3 DEF JoinTake
  <2>2. r \in Caches
    <3>1. b \in Buffers
      BY <1>1, BumpedBuffer
    <3> HIDE DEF b
    <3> QED BY <1>1, <3>1, SlotParts DEF r
  <2>3. o \in Seq(Int) /\ k \in Int /\ n + k \in Int
    <3> DEFINE u == Unread(f, s)
    <3> HIDE DEF u
    <3>1. u \in Seq(Int) /\ f.out \in Seq(Int) /\ k \in 0..Len(u)
      BY <1>0 DEF u
    <3>2. SubSeq(u, 1, k) \in Seq(Int)
      BY <3>1, RunCut
    <3>3. f.out \o SubSeq(u, 1, k) \in Seq(Int)
      BY <3>1, <3>2
    <3>4. o \in Seq(Int)
      BY <3>3 DEF o, u
    <3> QED BY <1>0, <3>4
  <2> DEFINE e == PutOut(f, k, o)
             v == PutRa(e, r)
  <2>4. e \in Worlds
    BY <2>3, OutParts
  <2>5. v \in Worlds /\ v.ra = r
    <3> HIDE DEF e
    <3> QED BY <2>2, <2>4, PutRaParts
  <2>6. JoinTake(f, old, n, s, k) = Ret(PutRa(v, r1), n + k)
    <3>1. JoinTake(f, old, n, s, k) =
            [v EXCEPT !.ra.ready = NoSlot, !.ra.cur = s, !.ra.slot[old] = EmptySlot, !.rc = n + k]
      BY <2>1
    <3> HIDE DEF v, r
    <3> QED BY <2>5, <3>1 DEF Ret, PutRa, Worlds, Caches
  <2> HIDE DEF r1
  <2> QED BY <2>6 DEF PutRa, PutOut, Ret, Worlds
<1>5. g \in Worlds /\ g.out = f.out /\ g.ra = q
  BY <1>2, PutRaParts DEF SameCall
<1>6. Unread(g, s) = Unread(f, s)
  BY <1>2, <1>5 DEF Unread
<1> DEFINE q1 == [q EXCEPT !.slot[s] = b]
<1>7. Take(g, s, k) = PutRa(PutOut(g, k, o), q1)
  <2>1. Take(g, s, k) = PutRa(PutOut(g, k, g.out \o SubSeq(Unread(g, s), 1, k)),
                              [g.ra EXCEPT !.slot[s] = [data |-> g.ra.slot[s].data,
                                                        off |-> g.ra.slot[s].off + k]])
    <3>1. g \in Worlds /\ s \in Slots /\ k \in Nat
      BY <1>0, <1>5
    <3> HIDE DEF g
    <3> QED BY <3>1, TakeCase
  <2> HIDE DEF g, q
  <2> QED BY <1>2, <1>5, <1>6, <2>1
<1>8. Ret(Take(g, s, k), n + k) = PutRa(PutOut(f, n + k, o), q1)
  <2> HIDE DEF o, q1, q
  <2>1. Ret(Take(g, s, k), n + k) = Ret(PutRa(PutOut(PutRa(f, q), k, o), q1), n + k)
    BY <1>7
  <2> QED BY <2>1 DEF PutRa, PutOut, Ret, Worlds
<1>9. r1 = q1
  <2> DEFINE a1 == [r EXCEPT !.ready = NoSlot]
             a2 == [a1 EXCEPT !.cur = s]
             a3 == [a2 EXCEPT !.slot[old] = EmptySlot]
  <2>1. b \in Buffers /\ EmptySlot \in Buffers
    BY <1>1, BumpedBuffer, BuffersParts
  <2>2. r1 = a3
    OBVIOUS
  <2> HIDE DEF b, r1
  <2>3. /\ r \in Caches /\ r.depth = f.ra.depth /\ r.fd = f.ra.fd /\ r.async = f.ra.async
        /\ r.disabled = f.ra.disabled
        /\ r.slot[s] = b /\ \A t \in Slots : t # s => r.slot[t] = f.ra.slot[t]
    BY <1>1, <2>1, SlotParts
  <2> HIDE DEF r
  <2>4. /\ a1 \in Caches /\ a1.depth = r.depth /\ a1.fd = r.fd /\ a1.async = r.async
        /\ a1.ready = NoSlot /\ a1.disabled = r.disabled /\ a1.slot = r.slot
    BY <2>3, ReadyParts
  <2> HIDE DEF a1
  <2>5. /\ a2 \in Caches /\ a2.depth = r.depth /\ a2.fd = r.fd /\ a2.async = r.async
        /\ a2.ready = NoSlot /\ a2.disabled = r.disabled /\ a2.slot = r.slot /\ a2.cur = s
    BY <2>4, CurParts
  <2> HIDE DEF a2
  <2>6. a2 \in Caches /\ EmptySlot \in Buffers
    BY <2>1, <2>5
  <2>7. /\ a3 \in Caches /\ a3.depth = a2.depth /\ a3.fd = a2.fd /\ a3.async = a2.async
        /\ a3.ready = a2.ready /\ a3.disabled = a2.disabled /\ a3.cur = a2.cur
        /\ a3.slot[old] = EmptySlot /\ \A t \in Slots : t # old => a3.slot[t] = a2.slot[t]
    BY <2>6, SlotParts
  <2> HIDE DEF a3
  <2>8. /\ q.depth = f.ra.depth /\ q.fd = f.ra.fd /\ q.cur = s /\ q.async = f.ra.async
        /\ q.ready = NoSlot /\ q.disabled = f.ra.disabled /\ q.slot[old] = EmptySlot
        /\ \A t \in Slots : t # old => q.slot[t] = f.ra.slot[t]
    <3>1. f.ra \in Caches /\ old \in Slots /\ s \in Slots
      BY <1>1
    <3>2. q.depth = f.ra.depth /\ q.fd = f.ra.fd /\ q.cur = s
      BY <3>1, SwapParts
    <3>3. q.async = f.ra.async /\ q.ready = NoSlot /\ q.disabled = f.ra.disabled
      BY <3>1, SwapParts
    <3>4. q.slot[old] = EmptySlot
      BY <3>1, SwapParts
    <3>5. \A t \in Slots : t # old => q.slot[t] = f.ra.slot[t]
      BY <3>1, SwapParts
    <3> QED BY <3>2, <3>3, <3>4, <3>5
  <2> HIDE DEF q
  <2>9. q \in Caches /\ b \in Buffers
    BY <1>2, <2>1
  <2>10. /\ q1 \in Caches /\ q1.depth = q.depth /\ q1.fd = q.fd /\ q1.async = q.async
         /\ q1.ready = q.ready /\ q1.disabled = q.disabled /\ q1.cur = q.cur
         /\ q1.slot[s] = b /\ \A t \in Slots : t # s => q1.slot[t] = q.slot[t]
    BY <2>9, SlotParts
  <2> HIDE DEF q1
  <2>11. \A t \in Slots : a3.slot[t] = q1.slot[t]
    BY <2>3, <2>5, <2>7, <2>8, <2>10
  <2>12. a3 = q1
    BY <2>3, <2>5, <2>7, <2>8, <2>10, <2>11, SameCaches
  <2> QED BY <2>2, <2>12
<1> HIDE DEF r1, q1, o, q, g
<1> QED BY <1>4, <1>8, <1>9 DEF g, q

LEMMA JoinCases ==
  ASSUME NEW w, NEW x \in JoinSlots(w)
  PROVE  LET old == w.ra.cur
             n == Remaining(w, old) IN
         \E f \in RaFinish(Take(w, old, n)) :
            \/ f.rc < 0 /\ x = f
            \/ ~(f.rc < 0) /\ f.ra.ready = NoSlot /\ x \in JoinNone(f, old, n)
            \/ ~(f.rc < 0) /\ f.ra.ready # NoSlot /\ x \in JoinReady(f, old, n)
<1> DEFINE old == w.ra.cur
           n == Remaining(w, old)
           T == RaFinish(Take(w, old, n))
           B(f) == IF f.rc < 0 THEN {f}
                   ELSE IF f.ra.ready = NoSlot THEN JoinNone(f, old, n) ELSE JoinReady(f, old, n)
<1>1. JoinSlots(w) = UNION {B(f) : f \in T}
  BY Zenon DEF JoinSlots, Then, JoinNone, JoinReady, JoinTake, JoinShort, DirectSet, Dropped
<1> HIDE DEF T
<1>2. PICK f \in T : x \in B(f)
  BY <1>1
<1>3. \/ f.rc < 0 /\ x = f
      \/ ~(f.rc < 0) /\ f.ra.ready = NoSlot /\ x \in JoinNone(f, old, n)
      \/ ~(f.rc < 0) /\ f.ra.ready # NoSlot /\ x \in JoinReady(f, old, n)
  BY <1>2
<1> QED BY <1>3 DEF T

(* The refill that was ready becomes the current one, and what there is of *)
(* the record is handed out.                                               *)
LEMMA JoinTakeOutcome ==
  ASSUME NEW w, NEW f, Moves(w, f), f.rc >= 0, NEW old \in Slots, NEW s \in Slots,
         f.ra.cur = old, f.ra.ready = s, f.ra.async = NoSlot, Remaining(f, old) = 0,
         NEW n \in Nat, NEW k \in 0..Remaining(f, s), NEW y, y = JoinTake(f, old, n, s, k)
  PROVE  Joins(w, f, y, s, n + k, k) /\ s # old
<1>1. Reader(f) /\ f.rc \in Int
  BY MovesReader DEF Moves
<1>2. /\ f \in Worlds /\ f.ra.slot[s].off <= Len(f.ra.slot[s].data)
      /\ Shape(f.ra) /\ Remaining(f, s) \in Nat
  BY <1>1, ReaderParts
<1>3. s # NoSlot /\ old # NoSlot
  BY DEF Slots, NoSlot
<1>4. s # old /\ f.ra.slot[s].off = 0
  BY <1>2, <1>3 DEF Shape
<1>5. Remaining(f, s) = Len(f.ra.slot[s].data)
  BY <1>2, <1>4, FreshSlot
<1> DEFINE g == PutRa(f, SwapCache(f.ra, old, s))
           h == Take(g, s, k)
<1>6. y = Ret(h, n + k)
  BY <1>2, <1>4, JoinTakeCase
<1>7. /\ Reads(f, g) /\ g.out = f.out /\ g.rc = f.rc /\ g.fx = f.fx
      /\ g.ra.cur = s /\ g.ra.fd = f.ra.fd /\ g.ra.async = NoSlot /\ g.ra.ready = NoSlot
      /\ Remaining(g, s) = Len(f.ra.slot[s].data)
      /\ \A c \in Int : Spot(f, c) => Spot(g, c)
  BY <1>1, <1>3, SwapOutcome
<1> HIDE DEF g
<1>8. Moves(f, g)
  BY <1>1, <1>7 DEF Moves, Flows
<1>9. Reader(g) /\ k \in 0..Remaining(g, s) /\ s = g.ra.cur
  BY <1>5, <1>7, <1>8, MovesReader
<1>10. /\ Moves(g, h) /\ h.rc = k /\ Len(h.out) = Len(g.out) + k /\ h.fx = g.fx
       /\ SameCache(h, g) /\ Remaining(h, s) = Remaining(g, s) - k
  BY <1>9, TakeOutcome
<1> HIDE DEF h
<1>11. Moves(w, h)
  BY <1>1, <1>7, <1>8, <1>10, MovesTwice
<1>12. Reader(h) /\ h.rc >= 0 /\ n + k \in Int
  BY <1>2, <1>10, <1>11, MovesReader
<1>13. /\ Moves(h, y) /\ y.out = h.out /\ y.ra = h.ra /\ y.fx = h.fx /\ y.rc = n + k
  BY <1>6, <1>12, RetMoves
<1>14. Moves(w, y)
  BY <1>11, <1>12, <1>13, MovesTwice
<1>15. Remaining(y, s) = Remaining(h, s)
  BY <1>13 DEF Remaining
<1>16. Remaining(y, s) = Remaining(f, s) - k
  BY <1>5, <1>7, <1>10, <1>15
<1>17. Len(y.out) = Len(f.out) + k
  BY <1>7, <1>10, <1>13
<1>18. y.ra.cur = s /\ y.ra.fd = f.ra.fd /\ y.ra.async = NoSlot /\ y.ra.ready = NoSlot
  BY <1>7, <1>10, <1>13 DEF SameCache
<1>19. y.fx = f.fx
  BY <1>7, <1>10, <1>13
<1> QED BY <1>4, <1>13, <1>14, <1>16, <1>17, <1>18, <1>19 DEF Joins

(* A record that crosses two refills.                                      *)
LEMMA JoinOutcome ==
  ASSUME NEW w, Reader(w), w.fx.open # 0, w.ra.cur # NoSlot, Remaining(w, w.ra.cur) < RecordUnits,
         NEW x \in JoinSlots(w)
  PROVE  Hands(w, x) /\ x.ra.fd = w.ra.fd
<1> DEFINE old == w.ra.cur
           n == Remaining(w, old)
           t == Take(w, old, n)
           l == Len(w.out)
<1>1. w \in Worlds /\ w.ra.cur \in Slots \cup {NoSlot} /\ w.out \in Seq(Int) /\ RecordUnits \in Nat
      /\ Shape(w.ra) /\ Fetch(w)
  BY ReaderParts, WorldParts, FileXioAssumption
<1>2. old \in Slots /\ l \in Nat /\ build = "asyncread" /\ old # NoSlot /\ old # w.ra.async
  BY <1>1 DEF Fetch, Shape
<1>3. n \in Nat /\ n \in 0..Remaining(w, old) /\ n < RecordUnits
  <2>1. Remaining(w, old) \in Nat
    BY <1>2, ReaderParts
  <2> DEFINE m == Remaining(w, old)
  <2> HIDE DEF m
  <2>2. m \in Nat /\ m < RecordUnits
    BY <2>1 DEF m
  <2>3. m \in 0..m
    BY <2>2
  <2> QED BY <2>2, <2>3 DEF m
<1>4. PICK f \in RaFinish(t) :
         \/ f.rc < 0 /\ x = f
         \/ ~(f.rc < 0) /\ f.ra.ready = NoSlot /\ x \in JoinNone(f, old, n)
         \/ ~(f.rc < 0) /\ f.ra.ready # NoSlot /\ x \in JoinReady(f, old, n)
  BY JoinCases
<1>5. /\ Moves(w, t) /\ t.rc = n /\ Len(t.out) = l + n /\ t.fx = w.fx
      /\ SameCache(t, w) /\ Remaining(t, old) = n - n
  <2> HIDE DEF n
  <2> QED BY <1>2, <1>3, TakeOutcome DEF n
<1> HIDE DEF t
<1>6. Reader(t) /\ t.rc >= 0 /\ Remaining(t, old) = 0
  BY <1>3, <1>5, MovesReader
<1>7. /\ Moves(t, f) /\ f.out = t.out /\ f.rc \in {Failed} \cup Nat
      /\ f.ra.async = NoSlot /\ f.ra.cur = t.ra.cur /\ f.ra.fd = t.ra.fd
      /\ \A b \in Slots : b # t.ra.async => f.ra.slot[b] = t.ra.slot[b]
  BY <1>6, RaFinishOutcome
<1>8. /\ f.ra.cur = old /\ f.ra.fd = w.ra.fd /\ f.ra.slot[old] = t.ra.slot[old]
      /\ f.fx.open # 0
  BY <1>2, <1>5, <1>7 DEF SameCache, Moves, Reads
<1>9. Remaining(f, old) = 0
  BY <1>6, <1>8 DEF Remaining
<1> HIDE DEF old, n, l
<1>10. Moves(w, f)
  BY <1>5, <1>6, <1>7, MovesTwice
<1>11. CASE f.rc < 0 /\ x = f
  BY <1>8, <1>10, <1>11, <1>7 DEF Hands, Failed
<1>12. CASE ~(f.rc < 0) /\ f.ra.ready = NoSlot /\ x \in JoinNone(f, old, n)
  <2>1. f.rc >= 0 /\ Short(f) /\ n \in 0..RecordUnits /\ Len(f.out) = Len(w.out) + n
        /\ Len(w.out) \in Nat
    BY <1>1, <1>2, <1>3, <1>5, <1>7, <1>8, <1>9, <1>12 DEF Short, Failed, l
  <2>2. PICK z \in DirectSet(f, n) : x = IF z.rc = RecordUnits THEN Dropped(z, old) ELSE z
    BY <1>12 DEF JoinNone
  <2>3. x = z \/ (z.rc = RecordUnits /\ x = Dropped(z, old))
    BY <2>2
  <2>4. Hands(w, x) /\ x.ra.fd = f.ra.fd
    BY <1>2, <1>8, <1>10, <2>1, <2>3, TailOutcome
  <2> QED BY <1>8, <2>4
<1>13. CASE ~(f.rc < 0) /\ f.ra.ready # NoSlot /\ x \in JoinReady(f, old, n)
  <2> DEFINE s == f.ra.ready
             r == Remaining(f, s)
             k == Lesser(r, RecordUnits - n)
             y == JoinTake(f, old, n, s, k)
  <2>1. f.rc >= 0 /\ Reader(f) /\ s \in Slots /\ s = f.ra.ready
    <3>1. Reader(f) /\ f \in Worlds
      BY <1>10, MovesReader, ReaderParts
    <3>2. f.ra.ready \in Slots \cup {NoSlot}
      BY <3>1, WorldParts
    <3> QED BY <1>7, <1>13, <3>1, <3>2 DEF Failed
  <2>2. r \in Nat
    BY <2>1, ReaderParts
  <2>3. k \in 0..r /\ k \in 0..(RecordUnits - n) /\ (n + k # RecordUnits => k = r)
    <3> HIDE DEF r
    <3> QED BY <1>1, <1>3, <2>2 DEF Lesser
  <2>4. x \in IF n + k = RecordUnits THEN RaSubmit(y, old)
              ELSE IF f.ra.slot[s].data = <<>> THEN {y}
              ELSE JoinShort(y, s, n + k)
    BY <1>13 DEF JoinReady
  <2> HIDE DEF k
  <2>5. /\ Moves(w, y) /\ y.rc = n + k /\ Len(y.out) = Len(f.out) + k /\ y.fx = f.fx
        /\ y.ra.cur = s /\ y.ra.fd = f.ra.fd /\ s # old
        /\ y.ra.async = NoSlot /\ y.ra.ready = NoSlot
        /\ Remaining(y, s) = r - k
    <3>1. Joins(w, f, y, s, n + k, k) /\ s # old
      BY <1>2, <1>3, <1>7, <1>8, <1>9, <1>10, <2>1, <2>3, JoinTakeOutcome
    <3> HIDE DEF y
    <3> QED BY <3>1 DEF Joins
  <2> HIDE DEF y, r, s
  <2>6. Reader(y) /\ y.fx.open # 0
    BY <1>8, <2>5, MovesReader
  <2>7. n + k \in Nat /\ n + k \in 0..RecordUnits /\ Len(y.out) = l + (n + k) /\ y.rc >= 0
    <3> DEFINE a == Len(t.out)
               e == Len(y.out)
    <3>1. a = l + n /\ e = a + k
      BY <1>5, <1>7, <2>5
    <3> HIDE DEF a, e
    <3>2. n + k \in Nat /\ n + k \in 0..RecordUnits /\ e = l + (n + k) /\ k \in Nat
      BY <1>1, <1>2, <1>3, <2>2, <2>3, <3>1
    <3> QED BY <2>5, <3>2 DEF e
  <2>8. n + k = RecordUnits \/ Short(y)
    <3>1. ASSUME n + k # RecordUnits PROVE Remaining(y, s) = 0
      BY <2>2, <2>3, <2>5, <3>1
    <3> QED BY <1>2, <2>5, <3>1 DEF Short
  <2>9. CASE n + k = RecordUnits
    <3>1. x \in RaSubmit(y, old)
      BY <2>4, <2>9
    <3>2. y.rc \in Int /\ y.ra.cur # NoSlot /\ y.ra.cur # old
      BY <2>1, <2>5 DEF Moves, Slots, NoSlot
    <3>3. /\ Reads(y, x) /\ x.out = y.out /\ x.rc = y.rc /\ x.ra.fd = y.ra.fd
          /\ \A c : Spot(y, c) => Spot(x, c)
      BY <1>2, <2>6, <3>1, <3>2, RaSubmitOutcome
    <3>4. x.rc = n + k /\ x.rc \in Nat /\ x.rc <= RecordUnits /\ ~(x.rc < RecordUnits)
          /\ Len(x.out) = Len(w.out) + x.rc
      BY <1>1, <2>5, <2>7, <2>9, <3>3 DEF l
    <3>5. Hands(w, x)
      BY <2>5, <2>7, <3>3, <3>4, HandsOver
    <3> QED BY <1>8, <2>5, <3>3, <3>5
  <2>10. CASE n + k # RecordUnits /\ x = y
    <3>1. Short(y) /\ y.rc \in Nat /\ y.rc <= RecordUnits /\ Len(y.out) = Len(w.out) + y.rc
      BY <1>1, <2>5, <2>7, <2>8, <2>10 DEF l
    <3>2. Hands(w, y)
      BY <2>5, <3>1 DEF Hands
    <3> QED BY <1>8, <2>5, <2>10, <3>2
  <2>11. CASE n + k # RecordUnits /\ x \in JoinShort(y, s, n + k)
    <3>1. PICK z \in DirectSet(y, n + k) :
             x = IF z.rc = RecordUnits /\ Remaining(z, s) = 0 THEN Dropped(z, s) ELSE z
      BY <2>11 DEF JoinShort
    <3>2. x = z \/ (z.rc = RecordUnits /\ x = Dropped(z, s))
      BY <3>1
    <3>3. Short(y) /\ Len(y.out) = Len(w.out) + (n + k) /\ Len(w.out) \in Nat
      BY <1>2, <2>7, <2>8, <2>11 DEF l
    <3>4. Hands(w, x) /\ x.ra.fd = y.ra.fd
      BY <2>1, <2>5, <2>6, <2>7, <3>2, <3>3, TailOutcome
    <3> QED BY <1>8, <2>5, <3>4
  <2> QED BY <2>4, <2>9, <2>10, <2>11
<1> QED BY <1>4, <1>11, <1>12, <1>13

LEMMA ModeReads ==
  ASSUME NEW w, Reader(w), NEW m \in {"WAIT", "NOWAIT"}
  PROVE  LET x == SetMode(w, m) IN
         /\ Reads(w, x) /\ x \in Worlds /\ SameFile(x, w) /\ x.fx.rpc = w.fx.rpc /\ x.ra = w.ra
         /\ x.rc = w.rc /\ x.out = w.out /\ x.fx.mode = m
         /\ \A c : Spot(w, c) => Spot(x, c)
<1> DEFINE x == SetMode(w, m)
<1>1. w \in Worlds /\ Sound(w) /\ Fetch(w) /\ ~Queued(w, "write")
  BY ReaderParts
<1>2. /\ x \in Worlds /\ x.wb = w.wb /\ x.ra = w.ra /\ SameCall(x, w) /\ SameFile(x, w)
      /\ x.fx.mode = m /\ x.fx.rpc = w.fx.rpc
  BY <1>1, ModeParts
<1> HIDE DEF x
<1>3. Sound(x)
  BY <1>1, <1>2, SoundSame
<1>4. Fetch(x) /\ ~Queued(x, "write")
  BY <1>1, <1>2, FetchSame DEF Queued
<1>5. Reads(w, x)
  BY <1>2, <1>3, <1>4 DEF Reads, Reader, SameFile
<1>6. \A c : Spot(w, c) => Spot(x, c)
  BY <1>2, SpotSame DEF SameFile, SameCall
<1>7. x.rc = w.rc /\ x.out = w.out
  BY <1>2 DEF SameCall
<1> QED BY <1>2, <1>5, <1>6, <1>7 DEF x

LEMMA RaDrainOutcome ==
  ASSUME NEW w, Reader(w), NEW x \in RaDrain(w)
  PROVE  DrainedTo(w, x)
<1>1. w \in Worlds /\ Fetch(w) /\ w.ra.async \in Slots \cup {NoSlot}
  BY ReaderParts, WorldParts
<1>2. CASE build # "asyncread"
  <2> DEFINE y == Ret(w, 0)
  <2>1. x = y
    BY <1>2 DEF RaDrain
  <2>2. Moves(w, y) /\ y.out = w.out /\ y.ra = w.ra /\ y.fx = w.fx /\ y.rc = 0
    BY RetMoves
  <2> HIDE DEF y
  <2>3. w.ra.async = NoSlot
    BY <1>1, <1>2 DEF Fetch
  <2> QED BY <2>1, <2>2, <2>3 DEF DrainedTo, Busy
<1>3. CASE build = "asyncread"
  <2>1. PICK f \in RaFinish(w) : x = Ret(SetMode(f, "WAIT"), Lesser(f.rc, 0))
    BY <1>3 DEF RaDrain
  <2>2. /\ Moves(w, f) /\ f.out = w.out /\ f.rc \in {Failed} \cup Nat
        /\ f.ra.async = NoSlot /\ f.ra.cur = w.ra.cur /\ f.ra.fd = w.ra.fd
        /\ \A t \in Slots : t # w.ra.async => f.ra.slot[t] = w.ra.slot[t]
        /\ w.ra.async = NoSlot => f.ra = w.ra /\ f.fx = w.fx /\ f.rc = 0
        /\ w.ra.async # NoSlot /\ f.rc >= 0 =>
              f.fx.rpc = NoRequest /\ (f.fx.pos = w.fx.pos \/ Busy(w))
    BY RaFinishOutcome
  <2> DEFINE g == SetMode(f, "WAIT")
             k == Lesser(f.rc, 0)
  <2>3. Reader(f)
    BY <2>2, MovesReader
  <2>4. /\ Reads(f, g) /\ SameFile(g, f) /\ g.fx.rpc = f.fx.rpc /\ g.ra = f.ra
        /\ g.rc = f.rc /\ g.out = f.out /\ \A c : Spot(f, c) => Spot(g, c)
    BY <2>3, ModeReads
  <2> HIDE DEF g
  <2>5. k \in {0, Failed} /\ k \in Int /\ (k >= 0 => k = 0 /\ f.rc >= 0)
    BY <2>2 DEF Lesser, Failed
  <2>6. Reader(g) /\ x = Ret(g, k)
    BY <2>1, <2>4 DEF Reads, g
  <2> HIDE DEF k
  <2>7. /\ Moves(g, x) /\ x.out = g.out /\ x.ra = g.ra /\ x.fx = g.fx /\ x.rc = k
        /\ \A c : Spot(g, c) => Spot(x, c)
    BY <2>5, <2>6, RetMoves
  <2>8. Reads(w, x)
    BY <2>2, <2>4, <2>7 DEF Moves, Reads
  <2>9. Moves(w, x)
    BY <2>2, <2>4, <2>5, <2>7, <2>8 DEF Moves, Flows
  <2>10. x.rc = 0 /\ ~Busy(w) => x.fx.pos = w.fx.pos /\ ~Busy(x)
    <3>1. ASSUME x.rc = 0, ~Busy(w) PROVE x.fx.pos = w.fx.pos /\ ~Busy(x)
      <4>1. f.rc >= 0
        BY <2>5, <2>7, <3>1
      <4>2. f.fx.pos = w.fx.pos /\ f.fx.rpc.st # "queued"
        BY <2>2, <3>1, <4>1 DEF Busy, NoRequest
      <4> QED BY <2>4, <2>7, <4>2 DEF Busy, SameFile
    <3> QED BY <3>1
  <2>11. w.ra.async = NoSlot => x.ra = w.ra /\ x.fx.pos = w.fx.pos /\ x.fx.rpc = w.fx.rpc
    BY <2>2, <2>4, <2>7 DEF SameFile
  <2> QED BY <2>2, <2>4, <2>5, <2>7, <2>9, <2>10, <2>11 DEF DrainedTo
<1> QED BY <1>2, <1>3

LEMMA NewCacheParts ==
  ASSUME NEW r \in Caches, NEW fd \in Fds \cup {0}
  PROVE  LET q == NewCache(r, fd) IN
         /\ q \in Caches /\ q.depth = r.depth /\ q.fd = fd /\ q.cur = NoSlot
         /\ q.async = NoSlot /\ q.ready = NoSlot
         /\ \A s \in Slots : q.slot[s] = EmptySlot
<1>1. EmptySlot \in Buffers /\ r.depth \in Nat
  BY BuffersParts DEF Caches
<1>2. [s \in Slots |-> EmptySlot] \in [Slots -> Buffers]
  BY <1>1
<1> QED BY <1>1, <1>2 DEF NewCache, RaInit, Caches

(* The cache starts anew.                                                  *)
LEMMA AnewOutcome ==
  ASSUME NEW w, Reader(w), NEW fd \in Fds \cup {0}, NEW y, y = PutRa(w, NewCache(w.ra, fd))
  PROVE  Anew(w, y, fd)
<1>1. w \in Worlds /\ Sound(w) /\ ~Queued(w, "write") /\ w.ra \in Caches /\ w.fx.rpc \in Requests
  BY ReaderParts, WorldParts
<1> DEFINE q == NewCache(w.ra, fd)
<1>2. /\ q \in Caches /\ q.depth = w.ra.depth /\ q.fd = fd /\ q.cur = NoSlot
      /\ q.async = NoSlot /\ q.ready = NoSlot
      /\ \A s \in Slots : q.slot[s] = EmptySlot
  BY <1>1, NewCacheParts
<1>3. y = PutRa(w, q)
  OBVIOUS
<1> HIDE DEF q
<1>4. \A s \in Slots : q.slot[s].off = 0 /\ q.slot[s].off <= Len(q.slot[s].data)
                       /\ q.slot[s].data = <<>>
  BY <1>2, BuffersParts
<1>5. Shape(q)
  BY <1>2, <1>4 DEF Shape
<1>6. Queued(w, "read") => /\ q.slot[w.fx.rpc.slot].off = 0
                           /\ q.cur # w.fx.rpc.slot /\ q.ready = NoSlot
  <2>1. Queued(w, "read") => w.fx.rpc.slot \in Slots
    BY <1>1, RequestParts DEF Queued
  <2>2. NoSlot \notin Slots
    BY DEF NoSlot, Slots
  <2> QED BY <1>2, <1>4, <2>1, <2>2
<1>7. /\ Reader(y) /\ y.fx = w.fx /\ y.wb = w.wb /\ y.ra = q
      /\ y.out = w.out /\ y.rc = w.rc /\ y \in Worlds
  BY <1>1, <1>2, <1>3, <1>4, <1>5, <1>6, PutRaReads
<1>8. Reads(w, y)
  BY <1>2, <1>7 DEF Reads
<1>9. ASSUME ~Busy(w), NEW c \in Int, w.fx.pos = c, w.out = <<>>, w.fx.file = Units(ImageUnits)
      PROVE  Spot(y, c)
  <2>1. y.out = <<>> /\ y.fx.pos = c /\ y.fx.rpc.st # "queued" /\ y.fx.file = Units(ImageUnits)
    BY <1>7, <1>9 DEF Busy
  <2>2. Run(y.out, c) /\ c + Len(y.out) = c
    BY <2>1 DEF Run
  <2>3. CASE build = "asyncread"
    <3>1. Ahead(y, c) = c
      BY <1>2, <1>7 DEF Ahead
    <3>2. Prefetched(y, c)
      BY <1>2, <1>7, <2>1, <3>1 DEF Prefetched
    <3> QED BY <2>1, <2>2, <2>3, <3>2 DEF Spot, Lined
  <2>4. CASE build # "asyncread"
    <3>1. 0 \in Slots
      BY DEF Slots
    <3>2. Remaining(y, 0) = 0
      BY <1>2, <1>7, <3>1, BuffersParts DEF Remaining
    <3>3. Len(Unread(y, 0)) = 0
      BY <1>7, <3>1, <3>2, ReaderParts
    <3>4. Run(Unread(y, 0), c)
      BY <3>3 DEF Run
    <3>5. Lined(y, c)
      BY <2>1, <2>4, <3>2, <3>4 DEF Lined
    <3> QED BY <2>1, <2>2, <3>5 DEF Spot
  <2> QED BY <2>3, <2>4
<1> QED BY <1>2, <1>7, <1>8, <1>9 DEF Anew

LEMMA ResetCase ==
  ASSUME NEW w \in Worlds, NEW fd
  PROVE  [ResetCacheState(w) EXCEPT !.ra.fd = fd] = PutRa(w, NewCache(w.ra, fd))
BY DEF ResetCacheState, PutRa, NewCache, Worlds

LEMMA HereSpot ==
  ASSUME NEW w, w.out = <<>>, w.ra.fd = w.fx.open, NEW c \in Int, Positioned(w, c)
  PROVE  Spot(w, c)
<1>1. Run(w.out, c) /\ c + Len(w.out) = c
  BY DEF Run
<1>2. Lined(w, c) /\ w.fx.file = Units(ImageUnits)
  BY DEF Positioned
<1> QED BY <1>1, <1>2 DEF Spot

LEMMA TurnOutcome ==
  ASSUME NEW w, Reader(w),
         NEW x \in IF w.ra.fd # w.fx.open
                   THEN {IF y.rc < 0 THEN y ELSE [ResetCacheState(y) EXCEPT !.ra.fd = w.fx.open] :
                            y \in RaDrain(w)}
                   ELSE {Ret(w, 0)}
  PROVE  Turned(w, x)
<1>1. w \in Worlds /\ w.fx.open \in Fds \cup {0}
  BY ReaderParts, WorldParts
<1>2. CASE w.ra.fd = w.fx.open
  <2> DEFINE y == Ret(w, 0)
  <2>1. x = y
    BY <1>2
  <2>2. /\ Moves(w, y) /\ y.out = w.out /\ y.ra = w.ra /\ y.fx = w.fx /\ y.rc = 0
        /\ \A c : Spot(w, c) => Spot(y, c)
    BY RetMoves
  <2> HIDE DEF y
  <2>3. \A c \in Int : w.out = <<>> /\ Positioned(w, c) => Spot(y, c)
    BY <1>2, <2>2, HereSpot
  <2> QED BY <1>2, <2>1, <2>2, <2>3 DEF Turned, Moves
<1>3. CASE w.ra.fd # w.fx.open
  <2>1. PICK y \in RaDrain(w) :
           x = IF y.rc < 0 THEN y ELSE [ResetCacheState(y) EXCEPT !.ra.fd = w.fx.open]
    BY <1>3
  <2>2. DrainedTo(w, y)
    BY RaDrainOutcome
  <2>3. Moves(w, y) /\ Reads(w, y) /\ y.rc \in {0, Failed} /\ y.out = w.out
    BY <2>2 DEF DrainedTo, Moves
  <2>4. CASE y.rc < 0
    BY <2>1, <2>3, <2>4 DEF Turned, Failed
  <2>5. CASE ~(y.rc < 0)
    <3>1. y.rc = 0 /\ Reader(y) /\ y \in Worlds
      BY <2>3, <2>5, MovesReader, ReaderParts DEF Failed
    <3> DEFINE z == PutRa(y, NewCache(y.ra, w.fx.open))
    <3>2. x = z
      BY <2>1, <2>5, <3>1, ResetCase
    <3>3. /\ Reads(y, z) /\ z.rc = y.rc /\ z.out = y.out /\ z.ra.fd = w.fx.open
          /\ ~Busy(y) => \A c \in Int : y.fx.pos = c /\ y.out = <<>> /\ y.fx.file = Units(ImageUnits)
                           => Spot(z, c)
      <4> DEFINE d == w.fx.open
      <4>1. z = PutRa(y, NewCache(y.ra, d)) /\ d \in Fds \cup {0}
        BY <1>1
      <4> HIDE DEF d, z
      <4>2. Anew(y, z, d)
        BY <3>1, <4>1, AnewOutcome
      <4> QED BY <4>2 DEF d, Anew
    <3> HIDE DEF z
    <3>4. Reads(w, z)
      BY <2>3, <3>3 DEF Reads
    <3>5. ASSUME NEW c \in Int, w.out = <<>>, Positioned(w, c) PROVE Spot(z, c)
      <4>1. w.fx.pos = c /\ ~Busy(w) /\ w.fx.file = Units(ImageUnits)
        BY <1>3, <3>5 DEF Positioned, Busy
      <4>2. y.fx.pos = c /\ ~Busy(y) /\ y.fx.file = Units(ImageUnits) /\ y.out = <<>>
        BY <2>2, <2>3, <3>1, <3>5, <4>1 DEF DrainedTo, Reads
      <4> QED BY <3>3, <4>2
    <3>6. z.rc = 0 /\ z.out = w.out
      BY <2>3, <3>1, <3>3
    <3> QED BY <3>2, <3>3, <3>4, <3>5, <3>6 DEF Turned
  <2> QED BY <2>4, <2>5
<1> QED BY <1>2, <1>3

(* There is a current refill, or the file has ended.                       *)
LEMMA EnsureOutcome ==
  ASSUME NEW w, Reader(w), w.fx.open # 0, build = "asyncread",
         NEW x \in IF w.ra.cur = NoSlot
                   THEN UNION {IF z.rc <= 0 THEN {z} ELSE RaSubmit(z, 1) :
                                  z \in {IF y.rc <= 0 THEN y ELSE [y EXCEPT !.ra.cur = 0] :
                                            y \in FillSync(w, 0)}}
                   ELSE IF Remaining(w, w.ra.cur) = 0 THEN NextSlot(w)
                   ELSE {Ret(w, 1)}
  PROVE  Moves(w, x) /\ x.out = w.out /\ x.ra.fd = w.ra.fd /\ (x.rc > 0 => x.ra.cur # NoSlot)
<1>1. CASE w.ra.cur = NoSlot
  <2>1. PICK z \in {IF y.rc <= 0 THEN y ELSE [y EXCEPT !.ra.cur = 0] : y \in FillSync(w, 0)} :
           x \in IF z.rc <= 0 THEN {z} ELSE RaSubmit(z, 1)
    BY <1>1
  <2>2. PICK y \in FillSync(w, 0) : z = IF y.rc <= 0 THEN y ELSE [y EXCEPT !.ra.cur = 0]
    BY <2>1
  <2>3. z = IF y.rc <= 0 THEN y ELSE PutRa(y, [y.ra EXCEPT !.cur = 0])
    BY <2>2, Zenon DEF PutRa
  <2>4. w.ra.async = NoSlot /\ w.ra.ready = NoSlot /\ 0 \in Slots /\ 0 # NoSlot
    BY <1>1, ReaderParts DEF Shape, Slots, NoSlot
  <2>5. /\ Moves(w, z) /\ z.rc = y.rc /\ z.out = w.out /\ z.ra.fd = w.ra.fd
        /\ z.ra.cur = (IF y.rc <= 0 THEN w.ra.cur ELSE 0)
    <3> DEFINE o == 0
    <3>1. y \in FillSync(w, o) /\ o \in Slots
      BY <2>4
    <3>2. z = IF y.rc <= 0 THEN y ELSE PutRa(y, [y.ra EXCEPT !.cur = o])
      BY <2>3
    <3>3. o = 0
      OBVIOUS
    <3> HIDE DEF o
    <3>4. Moves(w, z) /\ z.rc = y.rc /\ z.out = w.out /\ z.ra.fd = w.ra.fd
          /\ z.ra.cur = (IF y.rc <= 0 THEN w.ra.cur ELSE o)
      BY <1>1, <2>4, <3>1, <3>2, FillSyncOutcome
    <3> QED BY <3>3, <3>4
  <2>6. CASE z.rc <= 0
    <3>1. x = z
      BY <2>1, <2>6
    <3>2. z.rc \in Int
      BY <2>5 DEF Moves
    <3> QED BY <2>5, <2>6, <3>1, <3>2
  <2>7. CASE ~(z.rc <= 0)
    <3>1. x \in RaSubmit(z, 1) /\ z.ra.cur = 0 /\ z.rc \in Int /\ 1 \in Slots /\ 0 # 1
      BY <2>1, <2>5, <2>7 DEF Slots, Moves
    <3>2. Reader(z) /\ z.fx.open # 0
      BY <2>5, MovesReader
    <3>3. /\ Reads(z, x) /\ x.out = z.out /\ x.rc = z.rc
          /\ x.ra.cur = z.ra.cur /\ x.ra.fd = z.ra.fd
          /\ \A c : Spot(z, c) => Spot(x, c)
      BY <2>4, <3>1, <3>2, RaSubmitOutcome
    <3>4. Moves(z, x)
      BY <3>1, <3>3 DEF Moves, Flows
    <3>5. z.rc >= 0
      BY <2>7, <3>1
    <3>6. Moves(w, x)
      BY <2>5, <3>4, <3>5, MovesTwice
    <3> QED BY <2>4, <2>5, <3>1, <3>3, <3>6
  <2> QED BY <2>6, <2>7
<1>2. CASE w.ra.cur # NoSlot /\ Remaining(w, w.ra.cur) = 0
  BY <1>2, NextSlotOutcome
<1>3. CASE w.ra.cur # NoSlot /\ Remaining(w, w.ra.cur) # 0
  <2> DEFINE y == Ret(w, 1)
  <2>1. x = y
    BY <1>3
  <2>2. Moves(w, y) /\ y.out = w.out /\ y.ra = w.ra
    BY RetMoves
  <2> HIDE DEF y
  <2> QED BY <1>3, <2>1, <2>2
<1> QED BY <1>1, <1>2, <1>3

(* A record from the current refill, or from where it ends.                *)
LEMMA ServeOut ==
  ASSUME NEW w, Reader(w), w.fx.open # 0, w.rc \in Int, w.rc > 0 => w.ra.cur # NoSlot,
         NEW x \in IF w.rc <= 0 THEN {w}
                   ELSE IF Remaining(w, w.ra.cur) >= RecordUnits
                   THEN {Take(w, w.ra.cur, RecordUnits)}
                   ELSE JoinSlots(w)
  PROVE  HandsFrom(w, x)
<1>1. w.ra.cur \in Slots \cup {NoSlot} /\ RecordUnits \in Nat
  BY ReaderParts, WorldParts, FileXioAssumption
<1>2. CASE w.rc <= 0
  BY <1>2 DEF HandsFrom
<1>3. CASE ~(w.rc <= 0)
  <2>0. w.rc > 0
    BY <1>3
  <2> DEFINE s == w.ra.cur
             r == Remaining(w, s)
  <2>1. s \in Slots /\ s = w.ra.cur /\ s # NoSlot
    BY <1>1, <1>3
  <2>2. r \in Nat
    BY <2>1, ReaderParts
  <2>3. CASE r >= RecordUnits
    <3>1. x = Take(w, s, RecordUnits)
      BY <1>3, <2>3
    <3>2. RecordUnits \in 0..r
      <4> HIDE DEF r
      <4> QED BY <1>1, <2>2, <2>3
    <3>3. /\ Moves(w, x) /\ x.rc = RecordUnits /\ Len(x.out) = Len(w.out) + RecordUnits
          /\ SameCache(x, w)
      BY <2>1, <3>1, <3>2, TakeOutcome
    <3>4. ~(x.rc < RecordUnits) /\ x.rc <= RecordUnits
      BY <1>1, <3>3
    <3> QED BY <2>0, <3>3, <3>4 DEF Hands, SameCache, HandsFrom
  <2>4. CASE ~(r >= RecordUnits)
    <3>1. x \in JoinSlots(w)
      BY <1>3, <2>4
    <3>2. r < RecordUnits
      <4> HIDE DEF r
      <4> QED BY <1>1, <2>2, <2>4
    <3> QED BY <2>0, <2>1, <3>1, <3>2, JoinOutcome DEF HandsFrom
  <2> QED BY <2>3, <2>4
<1> QED BY <1>2, <1>3

LEMMA AsyncReadOutcome ==
  ASSUME NEW w, Reader(w), w.fx.open # 0, build = "asyncread", w.out = <<>>,
         NEW x \in AsyncRead(w, w.fx.open)
  PROVE  Serves(w, x)
<1> DEFINE fd == w.fx.open
           Switch == IF w.ra.fd # fd
                     THEN {IF y.rc < 0 THEN y ELSE [ResetCacheState(y) EXCEPT !.ra.fd = fd] :
                              y \in RaDrain(w)}
                     ELSE {Ret(w, 0)}
           First(y) == {IF z.rc <= 0 THEN z ELSE [z EXCEPT !.ra.cur = 0] : z \in FillSync(y, 0)}
           Ensure(y) == IF y.ra.cur = NoSlot
                        THEN UNION {IF z.rc <= 0 THEN {z} ELSE RaSubmit(z, 1) : z \in First(y)}
                        ELSE IF Remaining(y, y.ra.cur) = 0 THEN NextSlot(y)
                        ELSE {Ret(y, 1)}
           Serve(y) == IF y.rc <= 0 THEN {y}
                       ELSE IF Remaining(y, y.ra.cur) >= RecordUnits
                       THEN {Take(y, y.ra.cur, RecordUnits)}
                       ELSE JoinSlots(y)
           Ensured == UNION {IF y.rc < 0 THEN {y} ELSE Ensure(y) : y \in Switch}
<1>1. AsyncRead(w, fd) = UNION {Serve(y) : y \in Ensured}
  BY DEF AsyncRead, After, Then
<1>2. PICK e \in Ensured : x \in Serve(e)
  <2> HIDE DEF Ensured, Serve
  <2> QED BY <1>1
<1>3. PICK t \in Switch : e \in IF t.rc < 0 THEN {t} ELSE Ensure(t)
  <2> HIDE DEF Switch, Ensure
  <2> QED BY <1>2
<1>4. Turned(w, t)
  BY <1>3, TurnOutcome
<1>5. Reads(w, t) /\ t.rc \in Int /\ t.out = <<>> /\ Reader(t) /\ t.fx.open # 0
  BY <1>4 DEF Turned, Reads
<1>6. x \in Serve(e)
  BY <1>2
<1>7. CASE t.rc < 0
  <2>1. e = t
    BY <1>3, <1>7
  <2>2. t.rc <= 0
    BY <1>5, <1>7
  <2>3. x = t
    BY <1>6, <2>1, <2>2
  <2>4. ~(t.rc >= 0) /\ ~(t.rc > 0)
    BY <1>5, <1>7
  <2> QED BY <1>5, <2>3, <2>4 DEF Serves
<1>8. CASE ~(t.rc < 0)
  <2>1. e \in Ensure(t) /\ t.rc >= 0
    BY <1>3, <1>5, <1>8
  <2>2. Moves(t, e) /\ e.out = t.out /\ e.ra.fd = t.ra.fd /\ (e.rc > 0 => e.ra.cur # NoSlot)
    BY <1>5, <2>1, EnsureOutcome
  <2>3. Reader(e) /\ e.fx.open # 0 /\ e.rc \in Int
    BY <1>5, <2>2, MovesReader DEF Moves
  <2>4. HandsFrom(e, x)
    BY <1>6, <2>2, <2>3, ServeOut
  <2>5. t.ra.fd = w.fx.open /\ \A c \in Int : Positioned(w, c) => Spot(t, c)
    BY <1>4, <2>1 DEF Turned
  <2>6. x.ra.fd = w.fx.open
    BY <2>2, <2>4, <2>5 DEF HandsFrom
  <2>7. CASE x = e /\ e.rc <= 0
    <3>1. Reads(w, e)
      BY <1>5, <2>2 DEF Moves, Reads
    <3>2. e.rc >= 0 => \A c \in Int : Positioned(w, c) => Spot(e, c)
      BY <2>2, <2>5 DEF Moves, Flows
    <3>3. ~(e.rc > 0)
      BY <2>3, <2>7
    <3> QED BY <2>3, <2>6, <2>7, <3>1, <3>2, <3>3 DEF Serves
  <2>8. CASE e.rc > 0 /\ Hands(e, x)
    <3>1. Moves(e, x) /\ x.rc \in Int /\ e.rc >= 0
      BY <2>3, <2>8 DEF Hands, Moves
    <3>2. Moves(t, x)
      BY <2>2, <3>1, MovesTwice
    <3>3. Reads(w, x)
      BY <1>5, <3>2 DEF Moves, Reads
    <3>4. x.rc >= 0 => \A c \in Int : Positioned(w, c) => Spot(x, c)
      BY <2>5, <3>2 DEF Moves, Flows
    <3>5. ASSUME x.rc > 0
          PROVE  Len(x.out) = x.rc /\ x.rc <= RecordUnits /\ (x.rc < RecordUnits => Short(x))
      <4>1. /\ Len(x.out) = Len(e.out) + x.rc /\ x.rc <= RecordUnits
            /\ (x.rc < RecordUnits => Short(x))
        BY <2>8, <3>5 DEF Hands
      <4>2. Len(e.out) = 0
        BY <1>5, <2>2
      <4>3. Len(x.out) = x.rc
        BY <3>1, <4>1, <4>2
      <4> QED BY <4>1, <4>3
    <3> QED BY <2>6, <3>1, <3>3, <3>4, <3>5 DEF Serves
  <2> QED BY <2>4, <2>7, <2>8 DEF HandsFrom
<1> QED BY <1>7, <1>8

LEMMA SyncQuiet ==
  ASSUME NEW w, Reader(w), build # "asyncread"
  PROVE  /\ ~Busy(w) /\ w.ra.cur = NoSlot /\ w.ra.async = NoSlot /\ w.ra.ready = NoSlot
         /\ 0 \in Slots /\ 0 # NoSlot
<1>1. w \in Worlds /\ Sound(w) /\ Fetch(w) /\ Shape(w.ra) /\ ~Queued(w, "write")
      /\ w.fx.rpc \in Requests
  BY ReaderParts, WorldParts
<1>2. ~Busy(w)
  BY <1>1, RequestParts DEF Sound, Queued, Busy, Calls
<1> QED BY <1>1, <1>2 DEF Fetch, Shape, Slots, NoSlot

LEMMA SyncTurn ==
  ASSUME NEW w, Reader(w), build # "asyncread", w.rc = 0, w.out = <<>>,
         NEW v, v = IF w.ra.fd # w.fx.open
                    THEN [ResetCacheState(w) EXCEPT !.ra.fd = w.fx.open] ELSE w
  PROVE  Turned(w, v) /\ v.rc = 0
<1>1. w \in Worlds /\ w.fx.open \in Fds \cup {0} /\ ~Busy(w)
  BY ReaderParts, WorldParts, SyncQuiet
<1>2. CASE w.ra.fd = w.fx.open
  <2>1. v = w
    BY <1>2
  <2>2. Reads(w, w)
    BY DEF Reads
  <2>3. \A c \in Int : w.out = <<>> /\ Positioned(w, c) => Spot(w, c)
    BY <1>2, HereSpot
  <2> QED BY <1>2, <2>1, <2>2, <2>3 DEF Turned
<1>3. CASE w.ra.fd # w.fx.open
  <2> DEFINE d == w.fx.open
  <2>1. v = PutRa(w, NewCache(w.ra, d)) /\ d \in Fds \cup {0}
    BY <1>1, <1>3, ResetCase
  <2> HIDE DEF d
  <2>2. Anew(w, v, d)
    BY <2>1, AnewOutcome
  <2>3. \A c \in Int : w.out = <<>> /\ Positioned(w, c) => Spot(v, c)
    BY <1>1, <1>3, <2>2 DEF Positioned, Anew
  <2> QED BY <2>2, <2>3 DEF Turned, d, Anew
<1> QED BY <1>2, <1>3

LEMMA RefillOutcome ==
  ASSUME NEW w, Reader(w), w.fx.open # 0, build # "asyncread",
         Len(Unread(w, 0)) < RecordUnits,
         NEW r \in ReadCalls(w, RecordUnits - Len(Unread(w, 0)), BatchUnits - Len(Unread(w, 0))),
         NEW y, y = PutRa(r, [r.ra EXCEPT !.slot[0] = [data |-> Unread(w, 0) \o r.raw, off |-> 0]])
  PROVE  /\ Refilled(w, y, Len(Unread(w, 0) \o r.raw)) /\ y.rc = r.rc /\ r.rc \in Int
         /\ r.rc > 0 => Unread(w, 0) \o r.raw # <<>>
<1> DEFINE left == Unread(w, 0)
           k == Len(left)
           d == left \o r.raw
           b == [data |-> d, off |-> 0]
           q == [r.ra EXCEPT !.slot[0] = b]
<1>1. /\ ~Busy(w) /\ w.ra.cur = NoSlot /\ w.ra.async = NoSlot /\ w.ra.ready = NoSlot
      /\ 0 \in Slots /\ 0 # NoSlot
  BY SyncQuiet
<1>2. left \in Seq(Int) /\ k = Remaining(w, 0) /\ k \in Nat /\ Len(w.out) \in Nat
  BY <1>1, ReaderParts, WorldParts
<1>3. RecordUnits - k \in Nat /\ BatchUnits - k \in Nat /\ RecordUnits - k <= BatchUnits - k
  <2>1. k < RecordUnits
    OBVIOUS
  <2> HIDE DEF k
  <2> QED BY <1>2, <2>1, Sizes
<1>4. r \in ReadCalls(w, RecordUnits - k, BatchUnits - k)
  OBVIOUS
<1> HIDE DEF left
<1>5. k = Len(left) /\ y = PutRa(r, q)
  BY DEF left
<1> HIDE DEF k
<1>6. /\ Reads(w, r) /\ SameCache(r, w) /\ r.fx.rpc = NoRequest /\ r.out = w.out
      /\ r.ra = w.ra /\ r.raw \in Seq(Int) /\ r.rc \in Int /\ (r.rc > 0 => r.rc = Len(r.raw))
      /\ w.fx.file = Units(ImageUnits) =>
            Run(r.raw, w.fx.pos) /\ r.fx.pos = w.fx.pos + Len(r.raw)
  BY <1>1, <1>3, <1>4, ReadReader
<1>7. d \in Seq(Int) /\ Len(d) = k + Len(r.raw) /\ Len(r.raw) \in Nat
      /\ \A a \in Int : Run(left, a) /\ Run(r.raw, a + k) => Run(d, a)
  BY <1>2, <1>5, <1>6, RunJoin
<1> HIDE DEF d
<1>8. b \in Buffers /\ b.data = d /\ b.off = 0
  BY <1>7, BuffersParts
<1> HIDE DEF b
<1>9. r \in Worlds /\ Reader(r) /\ r.ra \in Caches /\ Sound(r) /\ ~Queued(r, "write") /\ Shape(r.ra)
  BY <1>6, ReaderParts, WorldParts DEF Reads
<1> DEFINE o == 0
<1>10. o \in Slots /\ r.ra \in Caches /\ b \in Buffers /\ q = [r.ra EXCEPT !.slot[o] = b]
  BY <1>1, <1>8, <1>9
<1> HIDE DEF o, q
<1>11. /\ q \in Caches /\ q.depth = r.ra.depth /\ q.fd = r.ra.fd /\ q.cur = r.ra.cur
       /\ q.async = r.ra.async /\ q.ready = r.ra.ready
       /\ q.slot[o] = b /\ \A t \in Slots : t # o => q.slot[t] = r.ra.slot[t]
  BY <1>10, SlotParts
<1>12. \A t \in Slots : q.slot[t].off <= Len(q.slot[t].data)
  BY <1>7, <1>8, <1>9, <1>11 DEF Shape
<1>13. q.cur = NoSlot /\ q.async = NoSlot /\ q.ready = NoSlot
  BY <1>1, <1>6, <1>11
<1>14. Shape(q)
  BY <1>12, <1>13 DEF Shape
<1>15. /\ Reader(y) /\ y.fx = r.fx /\ y.wb = r.wb /\ y.ra = q
       /\ y.out = r.out /\ y.rc = r.rc /\ y \in Worlds
  <2>1. ~Queued(r, "read")
    BY <1>6 DEF Queued, NoRequest
  <2> QED BY <1>5, <1>9, <1>11, <1>12, <1>13, <1>14, <2>1, PutRaReads
<1>16. Reads(w, y)
  BY <1>6, <1>11, <1>15 DEF Reads
<1>17. y.ra.slot[0].data = d /\ y.ra.slot[0].off = 0
  BY <1>8, <1>11, <1>15 DEF o
<1>18. Remaining(y, 0) = Len(d) /\ \A a \in Int : Run(d, a) => Run(Unread(y, 0), a)
  BY <1>1, <1>15, <1>17, FreshSlot
<1>19. ASSUME NEW c \in Int, Spot(w, c) PROVE Spot(y, c)
  <2> DEFINE a == c + Len(w.out)
  <2>1. a \in Int /\ w.fx.file = Units(ImageUnits) /\ Run(w.out, c) /\ Lined(w, a)
    BY <1>2, <1>19 DEF Spot
  <2> HIDE DEF a
  <2>2. Run(left, a) /\ w.fx.pos = a + k
    BY <1>2, <2>1 DEF Lined, left
  <2>3. Run(r.raw, a + k) /\ r.fx.pos = (a + k) + Len(r.raw)
    BY <1>6, <2>1, <2>2
  <2>4. Run(d, a)
    BY <1>7, <2>1, <2>2, <2>3
  <2>5. r.fx.pos = a + Len(d)
    <3> DEFINE l == Len(r.raw)
               g == Len(d)
    <3>1. g = k + l /\ l \in Nat /\ r.fx.pos = (a + k) + l
      BY <1>7, <2>3
    <3> HIDE DEF l, g
    <3>2. r.fx.pos = a + g
      BY <1>2, <2>1, <3>1
    <3> QED BY <3>2 DEF g
  <2>6. Lined(y, a)
    BY <1>15, <1>18, <2>1, <2>4, <2>5 DEF Lined
  <2>7. y.out = w.out /\ y.fx.file = w.fx.file
    BY <1>6, <1>15, <1>16 DEF Reads
  <2> QED BY <2>1, <2>6, <2>7 DEF Spot, a
<1>20. r.rc > 0 => d # <<>>
  <2>1. ASSUME r.rc > 0, d = <<>> PROVE FALSE
    <3>1. Len(d) = 0 /\ r.rc = Len(r.raw)
      BY <1>6, <2>1
    <3> QED BY <1>2, <1>7, <2>1, <3>1
  <2> QED BY <2>1
<1>21. Refilled(w, y, Len(d))
  BY <1>6, <1>11, <1>15, <1>16, <1>18, <1>19 DEF Refilled
<1> QED BY <1>6, <1>15, <1>20, <1>21 DEF d, left

LEMMA ServeSync ==
  ASSUME NEW w, Reader(w), build # "asyncread",
         NEW x, x = Take(w, 0, Lesser(RecordUnits, Remaining(w, 0)))
  PROVE  Hands(w, x) /\ x.ra.fd = w.ra.fd
<1> DEFINE s == 0
           r == Remaining(w, s)
           k == Lesser(RecordUnits, r)
<1>1. s \in Slots /\ (build # "asyncread" /\ s = 0) /\ RecordUnits \in Nat
  BY SyncQuiet, FileXioAssumption
<1>2. r \in Nat
  BY <1>1, ReaderParts
<1>3. k \in 0..r /\ k <= RecordUnits /\ (k < RecordUnits => k = r) /\ k \in Nat
  <2> HIDE DEF r
  <2> QED BY <1>1, <1>2 DEF Lesser
<1>4. x = Take(w, s, k) /\ r = Remaining(w, s)
  OBVIOUS
<1> HIDE DEF k, r, s
<1>5. /\ Moves(w, x) /\ x.rc = k /\ Len(x.out) = Len(w.out) + k
      /\ SameCache(x, w) /\ Remaining(x, s) = r - k
  BY <1>1, <1>3, <1>4, TakeOutcome
<1>6. k < RecordUnits => Short(x)
  <2>1. ASSUME k < RecordUnits PROVE Remaining(x, 0) = 0
    <3>1. k = r /\ r - k = 0
      BY <1>2, <1>3, <2>1
    <3> QED BY <1>5, <3>1 DEF s
  <2> QED BY <1>1, <2>1 DEF Short
<1> QED BY <1>3, <1>5, <1>6 DEF Hands, SameCache

LEMMA ServesFrom ==
  ASSUME NEW w, w.out = <<>>, NEW v, Turned(w, v), v.rc >= 0,
         NEW y, Reads(v, y), y.out = v.out, y.ra.fd = v.ra.fd,
         \A c \in Int : Spot(v, c) => Spot(y, c),
         NEW x, \/ Hands(y, x) /\ x.ra.fd = y.ra.fd
                \/ x = y /\ x.rc \in Int /\ ~(x.rc > 0)
  PROVE  Serves(w, x)
<1>1. v.ra.fd = w.fx.open /\ \A c \in Int : Positioned(w, c) => Spot(v, c)
  BY DEF Turned
<1>2. Reads(w, y)
  BY DEF Turned, Reads
<1>3. y.out = <<>> /\ y.ra.fd = w.fx.open
  BY <1>1 DEF Turned
<1>4. CASE Hands(y, x) /\ x.ra.fd = y.ra.fd
  <2>1. Reads(w, x) /\ x.rc \in Int
    BY <1>2, <1>4 DEF Hands, Moves, Reads
  <2>2. x.rc >= 0 => \A c \in Int : Positioned(w, c) => Spot(x, c)
    BY <1>1, <1>4 DEF Hands, Moves, Flows
  <2>3. ASSUME x.rc > 0
        PROVE  Len(x.out) = x.rc /\ x.rc <= RecordUnits /\ (x.rc < RecordUnits => Short(x))
    <3>1. Len(x.out) = Len(y.out) + x.rc /\ x.rc <= RecordUnits /\ (x.rc < RecordUnits => Short(x))
      BY <1>4, <2>3 DEF Hands
    <3>2. Len(y.out) = 0
      BY <1>3
    <3>3. Len(x.out) = x.rc
      BY <2>1, <3>1, <3>2
    <3> QED BY <3>1, <3>3
  <2> QED BY <1>3, <1>4, <2>1, <2>2, <2>3 DEF Serves
<1>5. CASE x = y /\ x.rc \in Int /\ ~(x.rc > 0)
  BY <1>1, <1>2, <1>3, <1>5 DEF Serves
<1> QED BY <1>4, <1>5

LEMMA SyncReadOutcome ==
  ASSUME NEW w, Reader(w), w.fx.open # 0, build # "asyncread", w.out = <<>>, w.rc = 0,
         NEW x \in SyncRead(w, w.fx.open)
  PROVE  Serves(w, x)
<1> DEFINE fd == w.fx.open
           v == IF w.ra.fd # fd THEN [ResetCacheState(w) EXCEPT !.ra.fd = fd] ELSE w
           left == Unread(v, 0)
           k == Len(left)
           Serve(y) == Take(y, 0, Lesser(RecordUnits, Remaining(y, 0)))
           Put(r) == [r EXCEPT !.ra.slot[0] = [data |-> left \o r.raw, off |-> 0]]
           Refill(r) == IF left \o r.raw = <<>> THEN Put(r) ELSE Serve(Put(r))
<1>1. x \in IF k >= RecordUnits THEN {Serve(v)}
            ELSE {Refill(r) : r \in ReadCalls(v, RecordUnits - k, BatchUnits - k)}
  BY DEF SyncRead
<1>2. Turned(w, v) /\ v.rc = 0
  <2>1. v = IF w.ra.fd # w.fx.open
            THEN [ResetCacheState(w) EXCEPT !.ra.fd = w.fx.open] ELSE w
    OBVIOUS
  <2> HIDE DEF v
  <2> QED BY <2>1, SyncTurn
<1> HIDE DEF v
<1>3. Reads(w, v) /\ Reader(v) /\ v.fx.open # 0 /\ v.rc >= 0
  BY <1>2 DEF Turned, Reads
<1>4. CASE k >= RecordUnits
  <2>1. x = Serve(v)
    BY <1>1, <1>4
  <2>2. Hands(v, x) /\ x.ra.fd = v.ra.fd
    BY <1>3, <2>1, ServeSync
  <2>3. Reads(v, v)
    BY <1>3 DEF Reads
  <2> QED BY <1>2, <1>3, <2>2, <2>3, ServesFrom
<1>5. CASE ~(k >= RecordUnits)
  <2>1. PICK r \in ReadCalls(v, RecordUnits - k, BatchUnits - k) : x = Refill(r)
    BY <1>1, <1>5
  <2> DEFINE y == Put(r)
             d == left \o r.raw
  <2>2. y = PutRa(r, [r.ra EXCEPT !.slot[0] = [data |-> d, off |-> 0]])
    BY Zenon DEF PutRa
  <2>3. k < RecordUnits
    <3>1. k \in Nat /\ RecordUnits \in Nat
      <4>1. left \in Seq(Int)
        BY <1>3, SyncQuiet, ReaderParts
      <4> HIDE DEF left
      <4> QED BY <4>1, FileXioAssumption
    <3> HIDE DEF k
    <3> QED BY <1>5, <3>1
  <2>4. x = IF d = <<>> THEN y ELSE Serve(y)
    BY <2>1
  <2> HIDE DEF y
  <2>5. Refilled(v, y, Len(d)) /\ y.rc = r.rc /\ r.rc \in Int /\ (r.rc > 0 => d # <<>>)
    BY <1>3, <2>2, <2>3, RefillOutcome
  <2>6. Reads(v, y) /\ y.out = v.out /\ y.ra.fd = v.ra.fd /\ Reader(y)
        /\ \A c \in Int : Spot(v, c) => Spot(y, c)
    BY <2>5 DEF Refilled, Reads
  <2>7. CASE d = <<>>
    <3>1. x = y /\ x.rc \in Int /\ ~(x.rc > 0)
      BY <2>4, <2>5, <2>7
    <3> QED BY <1>2, <1>3, <2>6, <3>1, ServesFrom
  <2>8. CASE d # <<>>
    <3>1. x = Serve(y)
      BY <2>4, <2>8
    <3>2. Hands(y, x) /\ x.ra.fd = y.ra.fd
      BY <2>6, <3>1, ServeSync
    <3> QED BY <1>2, <1>3, <2>6, <3>2, ServesFrom
  <2> QED BY <2>7, <2>8
<1> QED BY <1>4, <1>5

LEMMA RestOutcome ==
  ASSUME NEW w, Reader(w), w.fx.open # 0, Short(w), w.ra.depth # 0,
         NEW n \in Nat, n > 0, n # RecordUnits, NEW x \in WrapRead(w, n)
  PROVE  Rests(w, x, n)
<1> DEFINE Direct(y) == {[z EXCEPT !.out = @ \o z.raw] : z \in ReadCalls(y, n, n)}
<1>1. WrapRead(w, n) = UNION {IF y.rc < 0 THEN {y} ELSE Direct(y) : y \in RaDrain(w)}
  BY DEF WrapRead, Then
<1>2. PICK y \in RaDrain(w) : x \in IF y.rc < 0 THEN {y} ELSE Direct(y)
  <2> HIDE DEF Direct
  <2> QED BY <1>1
<1>3. DrainedTo(w, y)
  BY RaDrainOutcome
<1>4. Moves(w, y) /\ Reads(w, y) /\ y.rc \in {0, Failed} /\ y.out = w.out /\ y.ra.fd = w.ra.fd
  BY <1>3 DEF DrainedTo, Moves
<1>5. CASE y.rc < 0
  <2>1. x = y /\ y.rc = Failed /\ y.rc # n /\ y.rc \in Int
    BY <1>2, <1>4, <1>5 DEF Failed
  <2> QED BY <1>4, <2>1 DEF Rests
<1>6. CASE ~(y.rc < 0)
  <2>1. y.rc = 0 /\ Reader(y) /\ y.fx.open # 0
    BY <1>4, <1>6 DEF Failed, Reads
  <2>2. PICK z \in ReadCalls(y, n, n) : x = [z EXCEPT !.out = @ \o z.raw]
    BY <1>2, <1>6
  <2>3. w.ra.async = NoSlot
    BY ReaderParts DEF Short, Fetch
  <2>4. y.ra = w.ra
    BY <1>3, <2>3 DEF DrainedTo
  <2>5. Short(y)
    BY <2>4 DEF Short, Remaining
  <2>6. z \in Worlds /\ z.rc \in Int
    <3>1. n <= n
      OBVIOUS
    <3>2. Reads(y, z) /\ z.rc \in Int
      BY <2>1, <3>1, ReadReader
    <3> QED BY <3>2, ReaderParts DEF Reads
  <2>7. x = Appended(z, z.rc)
    <3>1. x = [z EXCEPT !.out = z.out \o z.raw]
      BY <2>2
    <3> DEFINE o == z.out \o z.raw
    <3> HIDE DEF o
    <3>2. [z EXCEPT !.out = o] = PutOut(z, z.rc, o)
      BY <2>6 DEF PutOut, Worlds
    <3> QED BY <3>1, <3>2 DEF o, Appended
  <2>8. Directed(y, x, z.rc, z.raw) /\ Len(z.raw) \in 0..n /\ (z.rc > 0 => z.rc = Len(z.raw))
    BY <2>1, <2>5, <2>6, <2>7, DirectOutcome
  <2>9. Reads(y, x) /\ x.rc = z.rc /\ Len(x.out) = Len(w.out) + Len(z.raw) /\ x.ra.fd = w.ra.fd
        /\ \A c \in Int : Spot(y, c) => Spot(x, c)
    BY <1>4, <2>8 DEF Directed, SameCache
  <2>10. Reads(w, x)
    BY <1>4, <2>9 DEF Reads
  <2>11. \A c \in Int : Spot(w, c) => Spot(x, c)
    BY <1>4, <2>1, <2>9 DEF Moves, Flows
  <2>12. x.rc = n => Len(x.out) = Len(w.out) + n
    BY <2>8, <2>9
  <2> QED BY <2>6, <2>9, <2>10, <2>11, <2>12 DEF Rests
<1> QED BY <1>5, <1>6

LEMMA SpotHere ==
  ASSUME NEW w, Reader(w), w.ra.fd = w.fx.open, Len(w.out) = RecordUnits, NEW c \in Int, Spot(w, c)
  PROVE  Run(w.out, c) /\ Positioned(w, c + RecordUnits)
BY DEF Spot, Positioned

(* A record at a time, the pieces of it in order.                          *)
LEMMA ReadExactOutcome ==
  ASSUME NEW w, Reader(w), w.fx.open # 0, w.ra.depth # 0, w.rc = 0, w.out = <<>>,
         NEW x \in ReadExact(w)
  PROVE  Exact(w, x)
<1> DEFINE Rest(y) ==
        IF y.rc = RecordUnits THEN {Ret(y, 0)}
        ELSE IF y.rc <= 0 THEN {Ret(y, Failed)}
        ELSE {IF z.rc = RecordUnits - y.rc THEN Ret(z, 0) ELSE Ret(z, Failed) :
                 z \in WrapRead(y, RecordUnits - y.rc)}
           W == WrapRead([w EXCEPT !.out = <<>>], RecordUnits)
<1>1. ReadExact(w) = UNION {Rest(y) : y \in W}
  BY DEF ReadExact, After
<1>2. PICK y \in W : x \in Rest(y)
  <2> HIDE DEF W, Rest
  <2> QED BY <1>1
<1>3. w \in Worlds /\ RecordUnits \in Nat /\ RecordUnits > 0 /\ Failed \in Int /\ Failed < 0
  BY ReaderParts, FileXioAssumption DEF Failed
<1>4. [w EXCEPT !.out = <<>>] = w
  BY <1>3 DEF Worlds
<1>5. y \in WrapRead(w, RecordUnits)
  BY <1>4
<1>6. Serves(w, y)
  <2>1. CASE build = "asyncread"
    <3>1. y \in AsyncRead(w, w.fx.open)
      BY <1>5, <2>1 DEF WrapRead
    <3> QED BY <2>1, <3>1, AsyncReadOutcome
  <2>2. CASE build # "asyncread"
    <3>1. y \in SyncRead(w, w.fx.open)
      BY <1>5, <2>2 DEF WrapRead
    <3> QED BY <2>2, <3>1, SyncReadOutcome
  <2> QED BY <2>1, <2>2
<1>7. Reads(w, y) /\ y.rc \in Int /\ Reader(y) /\ y.fx.open = w.fx.open /\ y.ra.depth = w.ra.depth
  BY <1>6 DEF Serves, Reads
<1>8. x \in Rest(y)
  BY <1>2
<1>9. CASE y.rc = RecordUnits
  <2> DEFINE z == Ret(y, 0)
  <2>1. x = z
    BY <1>8, <1>9
  <2>2. /\ Moves(y, z) /\ z.out = y.out /\ z.ra = y.ra /\ z.fx = y.fx /\ z.rc = 0
        /\ \A c : Spot(y, c) => Spot(z, c)
    BY <1>7, RetMoves
  <2> HIDE DEF z
  <2>3. y.ra.fd = w.fx.open /\ Len(y.out) = RecordUnits
        /\ \A c \in Int : Positioned(w, c) => Spot(y, c)
    BY <1>3, <1>6, <1>9 DEF Serves
  <2>4. Reads(w, z) /\ Reader(z)
    BY <1>7, <2>2 DEF Moves, Reads
  <2>5. z.ra.fd = z.fx.open /\ Len(z.out) = RecordUnits
    BY <1>7, <2>2, <2>3
  <2>6. \A c \in Int : Positioned(w, c) => Run(z.out, c) /\ Positioned(z, c + RecordUnits)
    BY <2>2, <2>3, <2>4, <2>5, SpotHere
  <2> QED BY <2>1, <2>2, <2>4, <2>5, <2>6 DEF Exact
<1>10. CASE y.rc # RecordUnits /\ y.rc <= 0
  <2> DEFINE z == Ret(y, Failed)
  <2>1. x = z
    BY <1>8, <1>10
  <2>2. Moves(y, z) /\ z.rc = Failed
    BY <1>3, <1>7, RetMoves
  <2> HIDE DEF z
  <2>3. Reads(w, z) /\ z.rc # 0
    BY <1>3, <1>7, <2>2 DEF Moves, Reads
  <2> QED BY <2>1, <2>2, <2>3 DEF Exact
<1>11. CASE y.rc # RecordUnits /\ ~(y.rc <= 0)
  <2> DEFINE n == RecordUnits - y.rc
  <2>1. PICK z \in WrapRead(y, n) : x = IF z.rc = n THEN Ret(z, 0) ELSE Ret(z, Failed)
    BY <1>8, <1>11
  <2>2. y.rc > 0 /\ y.rc >= 0
    BY <1>7, <1>11
  <2>3. Len(y.out) = y.rc /\ y.rc <= RecordUnits /\ (y.rc < RecordUnits => Short(y))
        /\ y.ra.fd = w.fx.open /\ \A c \in Int : Positioned(w, c) => Spot(y, c)
    BY <1>6, <2>2 DEF Serves
  <2>4. n \in Nat /\ n > 0 /\ n # RecordUnits /\ y.rc < RecordUnits /\ y.rc + n = RecordUnits
    BY <1>3, <1>7, <1>11, <2>2, <2>3
  <2> HIDE DEF n
  <2>5. Rests(y, z, n)
    BY <1>7, <2>3, <2>4, RestOutcome
  <2>6. Reads(y, z) /\ Reader(z) /\ z.ra.fd = y.ra.fd /\ z.fx.open = w.fx.open
    BY <1>7, <2>5 DEF Rests, Reads
  <2>7. CASE z.rc = n
    <3> DEFINE v == Ret(z, 0)
    <3>1. x = v
      BY <2>1, <2>7
    <3>2. /\ Moves(z, v) /\ v.out = z.out /\ v.ra = z.ra /\ v.fx = z.fx /\ v.rc = 0
          /\ \A c : Spot(z, c) => Spot(v, c)
      BY <2>6, RetMoves
    <3> HIDE DEF v
    <3>3. Reads(w, v) /\ Reader(v)
      BY <1>7, <2>6, <3>2 DEF Moves, Reads
    <3>4. v.ra.fd = v.fx.open /\ Len(v.out) = RecordUnits
      BY <2>3, <2>4, <2>5, <2>6, <2>7, <3>2 DEF Rests
    <3>5. \A c \in Int : Positioned(w, c) => Spot(v, c)
      BY <2>3, <2>5, <2>7, <3>2 DEF Rests
    <3>6. \A c \in Int : Positioned(w, c) => Run(v.out, c) /\ Positioned(v, c + RecordUnits)
      BY <3>3, <3>4, <3>5, SpotHere
    <3> QED BY <3>1, <3>2, <3>3, <3>4, <3>6 DEF Exact
  <2>8. CASE z.rc # n
    <3> DEFINE v == Ret(z, Failed)
    <3>1. x = v
      BY <2>1, <2>8
    <3>2. Moves(z, v) /\ v.rc = Failed
      BY <1>3, <2>6, RetMoves
    <3> HIDE DEF v
    <3>3. Reads(w, v) /\ v.rc # 0
      BY <1>3, <1>7, <2>6, <3>2 DEF Moves, Reads
    <3> QED BY <3>1, <3>2, <3>3 DEF Exact
  <2> QED BY <2>7, <2>8
<1> QED BY <1>9, <1>10, <1>11
=============================================================================
