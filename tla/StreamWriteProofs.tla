------------------------- MODULE StreamWriteProofs --------------------------
(***************************************************************************)
(* What a call of fileXio, of the write batch and of the logger returns,   *)
(* for every image size, batch size and number of faults.  A call is a set *)
(* of outcomes; for each there is a lemma that says what any outcome keeps *)
(* and what it did, from what held before (Sound, Pending, Fed, Tidy).     *)
(*                                                                         *)
(* The batch: the file is a beginning of the image, what the IOP has been  *)
(* given starts where the file ends (Pending), and what is in the buffer   *)
(* that is being filled starts where that ends (Fed).  The log: the lines  *)
(* in the ring come after those in the file (Tidy).                        *)
(***************************************************************************)
EXTENDS StreamSafety, SequenceTheorems, TLAPS

(* ------------------------------- types -------------------------------- *)
Calls == {"read", "write"}
Requests ==
    [st : {"none"}]
    \cup [st : {"queued"}, kind : Calls, slot : Slots, len : 1..BatchUnits]
    \cup [st : {"done"}, kind : Calls, slot : Slots, len : 1..BatchUnits,
          result : {Failed} \cup (0..BatchUnits)]
Clients == [mode : {"WAIT", "NOWAIT"}, rpc : Requests, last : Fds \cup {0, Failed},
            open : Fds \cup {0}, pos : Nat,
            file : Seq(Int), faults : 0..MaxFaults, shorts : 0..MaxShorts]
Batches == [depth : Nat, fill : Slots, fd : Fds \cup {0}, async : Slots \cup {NoSlot},
            expected : 0..BatchUnits, len : [Slots -> 0..BatchUnits],
            buf : [Slots -> [1..BatchUnits -> Int]]]
Buffers == [data : Seq(Int), off : Nat]
Caches == [depth : Nat, fd : Fds \cup {0}, cur : Slots \cup {NoSlot},
           async : Slots \cup {NoSlot}, ready : Slots \cup {NoSlot},
           disabled : BOOLEAN, slot : [Slots -> Buffers]]
Worlds == [fx : Clients, wb : Batches, ra : Caches, rc : Int, out : Seq(Int),
           raw : Seq(Int), answered : BOOLEAN]

(* What every call keeps, wherever it is made.                             *)
Queued(w, kind) == w.fx.rpc.st = "queued" /\ w.fx.rpc.kind = kind
Shape(c) ==
    /\ \A s \in Slots : c.slot[s].off <= Len(c.slot[s].data)
    /\ c.cur = NoSlot => c.async = NoSlot /\ c.ready = NoSlot
    /\ c.async # NoSlot => c.async # c.cur /\ c.ready = NoSlot
    /\ c.ready # NoSlot => c.ready # c.cur /\ c.slot[c.ready].off = 0
Sound(w) ==
    /\ w \in Worlds
    /\ w.fx.open # 0 => w.fx.pos <= Len(w.fx.file)
    /\ w.fx.open = 0 => w.fx.rpc.st # "queued"
    /\ Shape(w.ra)
    /\ Queued(w, "write") => w.wb.fill # w.fx.rpc.slot /\ build = "asyncwrite"
    /\ Queued(w, "read") => /\ w.ra.slot[w.fx.rpc.slot].off = 0
                            /\ w.ra.cur # w.fx.rpc.slot /\ w.ra.ready = NoSlot
                            /\ build = "asyncread"

(* What a call leaves alone.                                               *)
SameCall(x, w) == /\ x.rc = w.rc /\ x.out = w.out /\ x.raw = w.raw
                  /\ x.answered = w.answered
SameFile(x, w) == /\ x.fx.open = w.fx.open /\ x.fx.pos = w.fx.pos /\ x.fx.file = w.fx.file
                  /\ x.fx.last = w.fx.last
(* One field of the client or of the cache at a time.                      *)
PutRpc(w, v) == [w EXCEPT !.fx.rpc = v]
LessFaults(w) == [w EXCEPT !.fx.faults = @ - 1]
LessShorts(w) == [w EXCEPT !.fx.shorts = @ - 1]
PutFile(w, f) == [w EXCEPT !.fx.file = f]
PutPos(w, p) == [w EXCEPT !.fx.pos = p]
PutData(w, s, d) == [w EXCEPT !.ra.slot[s].data = d]
(* The IOP served the request of w with result k.                          *)
ServedBy(w, x, k) ==
    LET r == w.fx.rpc IN
    /\ x \in Worlds /\ x.wb = w.wb /\ SameCall(x, w)
    /\ x.fx.open = w.fx.open /\ x.fx.mode = w.fx.mode
    /\ x.fx.rpc = [st |-> "done", kind |-> r.kind, slot |-> r.slot, len |-> r.len, result |-> k]
    /\ k = Failed => SameFile(x, w) /\ x.ra = w.ra
    /\ k # Failed /\ r.kind = "write" =>
          /\ k \in 1..r.len /\ x.fx.pos = w.fx.pos /\ x.ra = w.ra
          /\ x.fx.file = w.fx.file \o SubSeq(w.wb.buf[r.slot], 1, k)
    /\ k # Failed /\ r.kind = "read" =>
          /\ k \in 0..r.len /\ x.fx.pos = w.fx.pos + k /\ x.fx.pos <= Len(w.fx.file)
          /\ x.fx.file = w.fx.file /\ (k = 0 => w.fx.pos = Len(w.fx.file))
          /\ x.ra = [w.ra EXCEPT !.slot[r.slot] =
                        [data |-> SubSeq(w.fx.file, w.fx.pos + 1, w.fx.pos + k),
                         off |-> w.ra.slot[r.slot].off]]

(* What that means to the cache.                                           *)
ServedCache(w, x, k) ==
    /\ x.ra.depth = w.ra.depth /\ x.ra.fd = w.ra.fd /\ x.ra.cur = w.ra.cur
    /\ x.ra.async = w.ra.async /\ x.ra.ready = w.ra.ready
    /\ w.ra.cur # NoSlot => x.ra.slot[w.ra.cur] = w.ra.slot[w.ra.cur]
    /\ w.fx.rpc.kind = "write" \/ k = Failed => x.ra = w.ra
    /\ w.fx.rpc.kind = "read" /\ k # Failed =>
          /\ x.ra.slot[w.fx.rpc.slot].data = SubSeq(w.fx.file, w.fx.pos + 1, w.fx.pos + k)
          /\ x.ra.slot[w.fx.rpc.slot].off = w.ra.slot[w.fx.rpc.slot].off

(* No request is outstanding any more, the IOP served one that was.        *)
Rested(w, x) ==
    /\ Sound(x) /\ x.fx.rpc = NoRequest /\ x.wb = w.wb
    /\ x.fx.open = w.fx.open /\ x.fx.mode = w.fx.mode
    /\ \/ ~Busy(w) /\ SameFile(x, w) /\ x.ra = w.ra
       \/ Busy(w) /\ \E k \in {Failed} \cup (0..BatchUnits), v \in Worlds :
                       ServedBy(w, v, k) /\ SameFile(x, v) /\ x.ra = v.ra

(* The loop of writes after whatever was outstanding.                      *)
Written(w, x, data, off) ==
    \E v : /\ Rested(w, v) /\ Sound(x) /\ x.wb = w.wb /\ x.ra = v.ra
           /\ x.fx.mode = "WAIT" /\ x.fx.rpc = NoRequest
           /\ x.fx.open = w.fx.open /\ x.fx.pos = v.fx.pos /\ x.out = w.out
           /\ \/ x.rc = 0 /\ x.fx.file = v.fx.file \o SubSeq(data, off + 1, Len(data))
              \/ x.rc = Failed /\ \E j \in off..(Len(data) - 1) :
                    x.fx.file = v.fx.file \o SubSeq(data, off + 1, j)

(* The loop of reads, a close and a request after whatever was outstanding.*)
ReadTo(w, x, least, room) ==
    \E v : /\ Rested(w, v) /\ Sound(x) /\ x.wb = w.wb /\ x.ra = v.ra
           /\ x.fx.mode = "WAIT" /\ x.fx.rpc = NoRequest /\ x.fx.open = w.fx.open
           /\ x.fx.file = v.fx.file /\ x.out = w.out
           /\ \E k \in 0..room :
                 /\ v.fx.pos + k <= Len(v.fx.file) /\ x.fx.pos = v.fx.pos + k
                 /\ x.raw = SubSeq(v.fx.file, v.fx.pos + 1, v.fx.pos + k)
                 /\ \/ x.rc = Failed
                    \/ x.rc = k /\ least <= k
                    \/ x.rc = 0 /\ k < least /\ v.fx.pos + k = Len(v.fx.file)
ClosedTo(w, x) ==
    \E v : /\ Rested(w, v) /\ Sound(x) /\ x.wb = w.wb /\ x.ra = v.ra
           /\ x.fx.mode = w.fx.mode /\ x.fx.rpc = NoRequest /\ x.fx.open = 0
           /\ x.fx.pos = v.fx.pos /\ x.fx.file = v.fx.file
           /\ x.rc \in {0, Failed} /\ x.out = w.out
Requested(w, x, kind, s, len) ==
    \E v : /\ Rested(w, v) /\ x \in Worlds /\ x.wb = w.wb /\ x.ra = v.ra
           /\ SameFile(x, v) /\ x.out = w.out
           /\ \/ /\ x.rc = 0 /\ x.fx.mode = "NOWAIT"
                 /\ x.fx.rpc = [st |-> "queued", kind |-> kind, slot |-> s, len |-> len]
              \/ /\ x.rc = Failed /\ x.fx.mode = "WAIT" /\ x.fx.rpc = NoRequest
                 /\ Sound(x)
PutAnswer(w, rc, yes) == [w EXCEPT !.rc = rc, !.answered = yes]
PutOpen(w, fd, contents) ==
    [Answers(w, fd) EXCEPT !.fx.open = fd, !.fx.pos = 0, !.fx.file = contents]
PutClosed(w) == [Answers(w, 0) EXCEPT !.fx.open = 0]
PutRead(w, k, rc, raw) == [w EXCEPT !.rc = rc, !.fx.pos = @ + k, !.raw = raw]
PutQueued(w, v) == [w EXCEPT !.rc = 0, !.fx.rpc = v]

PutLen(w, s, n) == [w EXCEPT !.wb.len[s] = n]
PutAsync(w, s) == [w EXCEPT !.wb.async = s]
PutExpected(w, n) == [w EXCEPT !.wb.expected = n]
PutSubmitted(w, s, n) == [w EXCEPT !.wb.async = s, !.wb.expected = n]
PutFill(w, s) == [w EXCEPT !.wb.fill = s]
PutFd(w, fd) == [w EXCEPT !.wb.fd = fd]
PutBuf(w, s, b) == [w EXCEPT !.wb.buf[s] = b]
PutDropped(w) == PutFd(PutLen(w, w.wb.fill, 0), 0)
(* The batch starts anew, and its depth is set.                            *)
PutNewBatch(w) == [w EXCEPT !.wb.len = [s \in Slots |-> 0], !.wb.fill = 0, !.wb.fd = 0,
                            !.wb.async = NoSlot, !.wb.expected = 0]
PutDepth(w, n) == [w EXCEPT !.wb.depth = n]
(* The text beside the image was written: the image is as it was.         *)
PutBack(w, f) == [w EXCEPT !.fx.file = f, !.fx.open = 0]
(* Same batch but for the lengths.                                         *)
SameBatch(x, w) == /\ x.wb.depth = w.wb.depth /\ x.wb.fill = w.wb.fill /\ x.wb.fd = w.wb.fd
                   /\ x.wb.buf = w.wb.buf

(* --------------------------- write pipeline --------------------------- *)
Run(s, a) == \A i \in 1..Len(s) : s[i] = a + i
Multiple(a, m) == \E q \in Nat : a = q * m
Size(w) == Len(w.fx.file)
Stored(w) == IF w.fx.rpc.st = "done" /\ w.fx.rpc.result > 0 THEN w.fx.rpc.result ELSE 0
Pending(w) ==
    /\ w.fx.file = Units(Size(w)) /\ Size(w) <= ImageUnits
    /\ Queued(w, "write") =>
          /\ Size(w) + w.fx.rpc.len <= ImageUnits
          /\ \A i \in 1..w.fx.rpc.len : w.wb.buf[w.fx.rpc.slot][i] = Size(w) + i
    /\ w.wb.async # NoSlot =>
          /\ w.fx.rpc.st # "none" /\ w.fx.rpc.kind = "write" /\ build = "asyncwrite"
          /\ w.fx.rpc.slot = w.wb.async /\ w.fx.rpc.len = w.wb.expected
          /\ Stored(w) <= w.wb.expected /\ Stored(w) <= Size(w)
          /\ Size(w) - Stored(w) + w.wb.expected <= ImageUnits
          /\ \A i \in 1..w.wb.expected : w.wb.buf[w.wb.async][i] = Size(w) - Stored(w) + i
Base(w) == Size(w) + (IF w.wb.async = NoSlot THEN 0 ELSE w.wb.expected - Stored(w))
Fed(w, a) ==
    LET n == w.wb.len[w.wb.fill] IN
    /\ Pending(w)
    /\ w.wb.async = NoSlot => w.fx.rpc.st # "queued"
    /\ w.wb.async # w.wb.fill
    /\ a = Base(w) + n /\ n < BatchUnits /\ a <= ImageUnits
    /\ Multiple(Base(w), BatchUnits) /\ Multiple(n, RecordUnits)
    /\ \A i \in 1..n : w.wb.buf[w.wb.fill][i] = Base(w) + i

(* The outstanding batch of w was settled.                                 *)
Finished(w, x) ==
    /\ Sound(x) /\ Pending(x) /\ SameBatch(x, w) /\ x.wb.async = NoSlot
    /\ x.fx.open = w.fx.open /\ x.fx.pos = w.fx.pos /\ x.ra = w.ra /\ x.out = w.out
    /\ Size(w) <= Size(x) /\ x.rc \in {0, Failed}
    /\ \A s \in Slots : s # w.wb.async => x.wb.len[s] = w.wb.len[s]
    /\ x.fx.rpc.st = "queued" => x.fx.rpc = w.fx.rpc
    /\ x.rc = 0 => /\ Size(x) = Base(w)
                   /\ w.wb.async # NoSlot => x.fx.rpc = NoRequest /\ x.fx.mode = "WAIT"
    /\ w.wb.async = NoSlot => x.fx = w.fx /\ x.rc = 0 /\ x.wb = w.wb

(* The record of the image that starts after its first a units.            *)
Record(a) == [i \in 1..RecordUnits |-> a + i]
(* A full batch was handed on.                                             *)
Filled(w, s) ==
    /\ Sound(w) /\ Pending(w) /\ w.fx.open # 0 /\ s = w.wb.fill /\ w.wb.len[s] = BatchUnits
    /\ w.wb.async # s /\ (w.wb.async = NoSlot => w.fx.rpc.st # "queued") /\ ~Queued(w, "read")
    /\ Multiple(Base(w), BatchUnits) /\ Base(w) + BatchUnits <= ImageUnits
    /\ \A i \in 1..BatchUnits : w.wb.buf[s][i] = Base(w) + i

(* What any call of the write pipeline keeps.                              *)
Kept(w, x) ==
    /\ Sound(x) /\ Pending(x) /\ ~Queued(x, "read") /\ x.rc \in {0, Failed}
    /\ x.fx.open = w.fx.open /\ x.fx.pos = w.fx.pos /\ x.ra = w.ra /\ x.out = w.out
    /\ x.wb.depth = w.wb.depth /\ x.wb.fd = w.wb.fd
    /\ Size(w) <= Size(x)
    /\ x.fx.rpc \in {w.fx.rpc, NoRequest} \/ build = "asyncwrite"

(* Same cache but for what the buffers hold.                               *)
SameCache(x, w) ==
    /\ x.ra.depth = w.ra.depth /\ x.ra.fd = w.ra.fd /\ x.ra.cur = w.ra.cur
    /\ x.ra.async = w.ra.async /\ x.ra.ready = w.ra.ready /\ x.ra.disabled = w.ra.disabled
SameCur(x, w) == w.ra.cur # NoSlot => x.ra.slot[w.ra.cur] = w.ra.slot[w.ra.cur]
(* At the end of the file a prefetch gets nothing.                         *)
SameEnd(x, w) ==
    Queued(w, "read") /\ w.fx.pos = Len(w.fx.file) /\ w.ra.slot[w.fx.rpc.slot].data = <<>>
        => x.ra.slot[w.fx.rpc.slot].data = <<>>
(* Nothing is with the IOP in the name of the batch any more.              *)
Drained(w, x) ==
    /\ Sound(x) /\ Pending(x) /\ x.wb.async = NoSlot
    /\ x.wb.depth = w.wb.depth /\ x.wb.fill = w.wb.fill /\ x.wb.buf = w.wb.buf
    /\ x.fx.open = w.fx.open /\ x.fx.pos = w.fx.pos /\ x.ra = w.ra /\ x.out = w.out
    /\ Size(w) <= Size(x) /\ x.rc \in {0, Failed}
    /\ x.fx.rpc.st = "queued" => x.fx.rpc = w.fx.rpc
    /\ w.wb.async # NoSlot /\ x.rc = 0 => x.fx.rpc = NoRequest /\ Size(x) = Base(w)
    /\ w.wb.async = NoSlot => SameFile(x, w) /\ x.fx.rpc = w.fx.rpc /\ x.rc = 0

(* The image file is closed.                                               *)
Shut(w, x) ==
    /\ Sound(x) /\ Pending(x) /\ x.wb.async = NoSlot /\ x.fx.rpc = NoRequest
    /\ x.fx.open = 0 /\ x.fx.mode = "WAIT" /\ x.out = w.out /\ x.rc \in {0, Failed}
    /\ x.wb.depth = w.wb.depth /\ x.wb.fill = w.wb.fill /\ x.wb.buf = w.wb.buf
    /\ w.wb.depth > 0 /\ w.wb.fd \in {0, w.fx.open} => x.wb.fd = 0
    /\ w.wb.depth = 0 => x.wb.fd = w.wb.fd
    /\ Size(w) <= Size(x)
    /\ w.wb.async # NoSlot /\ x.rc = 0 => Size(x) = Base(w)
    /\ w.wb.async = NoSlot /\ ~Queued(w, "write") => x.fx.file = w.fx.file
    /\ ~Queued(w, "read") => x.ra = w.ra
    /\ SameCache(x, w) /\ (w.fx.pos <= ImageUnits => x.fx.pos <= ImageUnits)
    /\ SameCur(x, w) /\ SameEnd(x, w)

(* ------------------------------- the log ------------------------------ *)
Lines == [n : Nat, dropped : Nat, whole : BOOLEAN]
Logs == [ring : Seq(Nat), dropped : Nat, sequence : Nat, io : BOOLEAN, path : BOOLEAN,
         pause : Nat, file : Seq(Lines), faults : 0..LogFaults, notices : SUBSET Nat]
Plain(l) == l.whole /\ l.dropped = 0
(* Lines up to number b were formatted; those in the ring come after those *)
(* in the file.                                                            *)
Tidy(L, b) ==
    /\ L \in Logs /\ b \in Nat /\ b <= L.sequence /\ Len(L.ring) <= RingLines
    /\ \A i \in 1..Len(L.ring) : L.ring[i] <= b
    /\ \A i, j \in 1..Len(L.ring) : i < j => L.ring[i] <= L.ring[j]
    /\ \A i \in 1..Len(L.file) : Plain(L.file[i]) =>
          /\ L.file[i].n <= b
          /\ \A j \in 1..Len(L.ring) : L.file[i].n <= L.ring[j]
          /\ \A j \in 1..Len(L.file) : i < j /\ Plain(L.file[j]) => L.file[i].n <= L.file[j].n

-----------------------------------------------------------------------------
(* Sequences. *)
LEMMA Singleton ==
  ASSUME NEW S, NEW s \in S
  PROVE  <<s>> \in Seq(S) /\ Len(<<s>>) = 1 /\ <<s>>[1] = s
<1> DEFINE e == <<>>
           t == <<s>>
<1>1. t = Append(e, s)
  OBVIOUS
<1>2. e \in Seq(S) /\ Len(e) = 0
  BY EmptySeq
<1> HIDE DEF e, t
<1>3. t \in Seq(S) /\ Len(t) = 1 /\ t[1] = s
  BY <1>1, <1>2, AppendProperties
<1> QED BY <1>3 DEF t

LEMMA Joined ==
  ASSUME NEW S, NEW s \in Seq(S), NEW t \in Seq(S)
  PROVE  /\ s \o t \in Seq(S) /\ Len(s \o t) = Len(s) + Len(t)
         /\ Len(s) \in Nat /\ Len(t) \in Nat
         /\ \A i \in 1..Len(s) : (s \o t)[i] = s[i]
         /\ \A i \in 1..Len(t) : (s \o t)[Len(s) + i] = t[i]
         /\ \A i \in 1..(Len(s) + Len(t)) : i > Len(s) =>
               i - Len(s) \in 1..Len(t) /\ (s \o t)[i] = t[i - Len(s)]
<1>1. Len(s) \in Nat /\ Len(t) \in Nat
  OBVIOUS
<1>2. /\ s \o t \in Seq(S) /\ Len(s \o t) = Len(s) + Len(t)
      /\ \A i \in 1..(Len(s) + Len(t)) :
            (s \o t)[i] = IF i <= Len(s) THEN s[i] ELSE t[i - Len(s)]
  BY ConcatProperties, Zenon
<1> DEFINE u == s \o t
           m == Len(s)
           n == Len(t)
<1> HIDE DEF u, m, n
<1>3. /\ u \in Seq(S) /\ Len(u) = m + n /\ m \in Nat /\ n \in Nat
      /\ \A i \in 1..(m + n) : u[i] = IF i <= m THEN s[i] ELSE t[i - m]
  BY <1>1, <1>2 DEF u, m, n
<1>4. \A i \in 1..m : u[i] = s[i]
  BY <1>3
<1>5. \A i \in 1..n : u[m + i] = t[i]
  BY <1>3
<1>6. \A i \in 1..(m + n) : i > m => i - m \in 1..n /\ u[i] = t[i - m]
  BY <1>3
<1> QED BY <1>3, <1>4, <1>5, <1>6 DEF u, m, n

-----------------------------------------------------------------------------
(* The log.                                                                *)

LEMMA BatchLines ==
  ASSUME NEW L \in Logs
  PROVE  /\ Notice(L) \in Seq(Lines) /\ Len(Notice(L)) \in {0, 1}
         /\ Len(Notice(L)) = 1 => Notice(L)[1].dropped > 0
         /\ Batch(L) \in Seq(Lines) /\ Len(Batch(L)) = Len(Notice(L)) + Len(L.ring)
         /\ \A i \in 1..Len(Notice(L)) : ~Plain(Batch(L)[i])
         /\ \A i \in 1..Len(L.ring) : Batch(L)[Len(Notice(L)) + i] = Line(L.ring[i])
<1> DEFINE first == [n |-> L.sequence + 1, dropped |-> L.dropped, whole |-> TRUE]
           lines == [i \in DOMAIN L.ring |-> Line(L.ring[i])]
           m == Len(L.ring)
<1>1. /\ L.ring \in Seq(Nat) /\ L.dropped \in Nat /\ L.sequence \in Nat
      /\ DOMAIN L.ring = 1..m /\ m \in Nat
  BY DEF Logs
<1>2. first \in Lines /\ first.dropped = L.dropped
  BY <1>1 DEF Lines
<1>3. lines \in Seq(Lines) /\ Len(lines) = m /\ \A i \in 1..m : lines[i] = Line(L.ring[i])
  <2>1. \A i \in 1..m : Line(L.ring[i]) \in Lines
    BY <1>1 DEF Lines, Line
  <2>2. lines \in [1..m -> Lines]
    BY <1>1, <2>1
  <2>3. lines \in Seq(Lines)
    BY <1>1, <2>2, IsASeq
  <2> QED BY <1>1, <2>2, <2>3
<1> HIDE DEF lines
<1>4. /\ Notice(L) \in Seq(Lines) /\ Len(Notice(L)) \in {0, 1}
      /\ Len(Notice(L)) = 1 => Notice(L)[1].dropped > 0
  <2>1. CASE L.dropped = 0
    <3>1. Notice(L) = <<>>
      BY <2>1 DEF Notice
    <3> QED BY <3>1, EmptySeq
  <2>2. CASE L.dropped # 0
    <3>1. Notice(L) = <<first>>
      BY <2>2 DEF Notice
    <3> HIDE DEF first
    <3>2. <<first>> \in Seq(Lines) /\ Len(<<first>>) = 1 /\ <<first>>[1] = first
      BY <1>2, Singleton, Zenon
    <3> DEFINE t == <<first>>
    <3> HIDE DEF t
    <3>3. t \in Seq(Lines) /\ Len(t) = 1 /\ t[1] = first /\ Notice(L) = t
      BY <3>1, <3>2, Zenon DEF t
    <3> QED BY <3>3, <1>2, <2>2, <1>1
  <2> QED BY <2>1, <2>2
<1> DEFINE notice == Notice(L)
<1>5. Batch(L) = notice \o lines
  BY DEF Batch, lines
<1> HIDE DEF notice
<1>6. notice \in Seq(Lines) /\ Len(notice) \in {0, 1} /\ (Len(notice) = 1 => notice[1].dropped > 0)
  BY <1>4 DEF notice
<1> DEFINE c == Len(notice)
<1>7. /\ Batch(L) \in Seq(Lines) /\ Len(Batch(L)) = c + m
      /\ \A i \in 1..c : Batch(L)[i] = notice[i]
      /\ \A i \in 1..m : Batch(L)[c + i] = lines[i]
  <2>1. /\ notice \o lines \in Seq(Lines) /\ Len(notice \o lines) = Len(notice) + Len(lines)
        /\ \A i \in 1..Len(notice) : (notice \o lines)[i] = notice[i]
        /\ \A i \in 1..Len(lines) : (notice \o lines)[Len(notice) + i] = lines[i]
    BY <1>3, <1>6, Joined
  <2> HIDE DEF m
  <2> QED BY <2>1, <1>3, <1>5
<1>8. \A i \in 1..c : ~Plain(Batch(L)[i])
  <2> SUFFICES ASSUME NEW i \in 1..c PROVE ~Plain(Batch(L)[i])
    OBVIOUS
  <2>1. c = 1
    <3>1. c # 0
      OBVIOUS
    <3> QED BY <3>1, <1>6
  <2>2. i = 1
    BY <2>1
  <2> QED BY <2>1, <2>2, <1>6, <1>7 DEF Plain
<1>9. \A i \in 1..m : Batch(L)[c + i] = Line(L.ring[i])
  BY <1>3, <1>7
<1> QED BY <1>4, <1>7, <1>8, <1>9 DEF notice, c

LEMMA RestOf ==
  ASSUME NEW s \in Seq(Nat), NEW e \in 0..Len(s)
  PROVE  /\ SubSeq(s, e + 1, Len(s)) \in Seq(Nat)
         /\ Len(SubSeq(s, e + 1, Len(s))) = Len(s) - e
         /\ \A i \in 1..(Len(s) - e) : SubSeq(s, e + 1, Len(s))[i] = s[i + e]
<1> DEFINE m == Len(s)
<1>1. m \in Nat /\ e \in Nat /\ e <= m
  OBVIOUS
<1>2. e + 1 \in Int /\ m \in Int /\ e + 1 <= m + 1 /\ \A i \in (e + 1)..m : i \in 1..Len(s)
  BY <1>1
<1>3. /\ SubSeq(s, e + 1, m) \in Seq(Nat)
      /\ Len(SubSeq(s, e + 1, m)) = (IF e + 1 <= m THEN m - (e + 1) + 1 ELSE 0)
      /\ \A i \in 1..(m - (e + 1) + 1) : SubSeq(s, e + 1, m)[i] = s[(e + 1) + i - 1]
  BY <1>2, SubSeqProperties
<1>4. m - (e + 1) + 1 = m - e /\ \A i \in 1..(m - e) : (e + 1) + i - 1 = i + e
  BY <1>1
<1>5. Len(SubSeq(s, e + 1, m)) = m - e
  BY <1>1, <1>3
<1> QED BY <1>3, <1>4, <1>5

(* What a flush leaves when k lines of a batch with c notices are out: e of *)
(* the m lines of the ring; the file had f lines.                          *)
FlushedTo(L, k, M, c, m, f, e) ==
    /\ M \in Logs /\ M.sequence = L.sequence + c
    /\ M.notices = L.notices \cup Numbers(Notice(L))
    /\ M.dropped = (IF k >= c THEN 0 ELSE L.dropped)
    /\ M.pause = L.pause /\ M.io = L.io /\ M.path = L.path /\ M.faults = L.faults
    /\ e \in Nat /\ e <= m /\ (k >= c => e = k - c) /\ Len(M.ring) = m - e
    /\ \A i \in 1..Len(M.ring) : M.ring[i] = L.ring[i + e]
    /\ Len(M.file) \in Nat /\ Len(M.file) >= f + k
    /\ \A i \in 1..f : M.file[i] = L.file[i]
    /\ \A i \in 1..k : M.file[f + i] = Batch(L)[i]
    /\ \A i \in 1..Len(M.file) : i > f + k => ~M.file[i].whole

LEMMA FlushedParts ==
  ASSUME NEW L \in Logs, NEW torn \in BOOLEAN,
         NEW k \in 0..Len(Batch(L)), torn => k < Len(Batch(L))
  PROVE  FlushedTo(L, k, Flushed(L, k, torn), Len(Notice(L)), Len(L.ring), Len(L.file),
                   IF k >= Len(Notice(L)) THEN k - Len(Notice(L)) ELSE 0)
<1> DEFINE c == Len(Notice(L))
           m == Len(L.ring)
           f == Len(L.file)
           some == SubSeq(Batch(L), 1, k)
           rest == IF torn THEN <<Torn(Batch(L)[k + 1])>> ELSE <<>>
           out == some \o rest
           M == Flushed(L, k, torn)
<1>0. m = Len(L.ring) /\ f = Len(L.file) /\ c = Len(Notice(L))
  OBVIOUS
<1>1. L \in Logs /\ L.ring \in Seq(Nat) /\ L.file \in Seq(Lines) /\ m \in Nat /\ f \in Nat
      /\ L.sequence \in Nat /\ L.notices \in SUBSET Nat
  BY DEF Logs
<1>2. /\ c \in {0, 1} /\ Batch(L) \in Seq(Lines) /\ Len(Batch(L)) = c + m /\ k \in Nat /\ k <= c + m
      /\ \A i \in 1..c : ~Plain(Batch(L)[i])
      /\ \A i \in 1..m : Batch(L)[c + i] = Line(L.ring[i])
      /\ Notice(L) \in Seq(Lines)
  BY <1>1, BatchLines
<1>3. some \in Seq(Lines) /\ Len(some) = k /\ \A i \in 1..k : some[i] = Batch(L)[i]
  <2>1. 1 \in Int /\ k \in Int /\ k <= Len(Batch(L))
    BY <1>2
  <2> QED BY <1>2, <2>1, SubSeqProperties
<1>4. /\ rest \in Seq(Lines) /\ Len(rest) \in {0, 1}
      /\ \A i \in 1..Len(rest) : ~rest[i].whole
  <2>1. CASE ~torn
    <3>1. rest = <<>>
      BY <2>1
    <3> QED BY <3>1, EmptySeq
  <2>2. CASE torn
    <3> DEFINE l == Torn(Batch(L)[k + 1])
               t == <<l>>
    <3>1. k + 1 \in 1..Len(Batch(L))
      BY <2>2, <1>2
    <3>2. Batch(L)[k + 1] \in Lines
      BY <1>2, <3>1, ElementOfSeq
    <3>3. l \in Lines /\ ~l.whole
      BY <3>2 DEF Lines, Torn
    <3> HIDE DEF l
    <3>4. t \in Seq(Lines) /\ Len(t) = 1 /\ t[1] = l
      BY <3>3, Singleton, Zenon
    <3>5. rest = t
      BY <2>2 DEF l
    <3> HIDE DEF t, rest
    <3>6. \A i \in 1..Len(t) : t[i] = l
      BY <3>4
    <3> QED BY <3>3, <3>4, <3>5, <3>6
  <2> QED BY <2>1, <2>2
<1> HIDE DEF some, rest
<1>5. /\ out \in Seq(Lines) /\ Len(out) = k + Len(rest)
      /\ \A i \in 1..k : out[i] = Batch(L)[i]
      /\ \A i \in 1..Len(out) : i > k => ~out[i].whole
  <2>1. /\ out \in Seq(Lines) /\ Len(out) = Len(some) + Len(rest)
        /\ \A i \in 1..Len(some) : out[i] = some[i]
        /\ \A i \in 1..(Len(some) + Len(rest)) : i > Len(some) =>
              i - Len(some) \in 1..Len(rest) /\ out[i] = rest[i - Len(some)]
    BY <1>3, <1>4, Joined, SMTT(30)
  <2> HIDE DEF out
  <2>2. \A i \in 1..k : out[i] = Batch(L)[i]
    BY <2>1, <1>3
  <2>3. \A i \in 1..Len(out) : i > k => ~out[i].whole
    BY <2>1, <1>3, <1>4
  <2> QED BY <2>1, <2>2, <2>3, <1>3
<1> HIDE DEF out
<1> DEFINE numbers == Numbers(Notice(L))
           newRing == IF k <= c THEN L.ring ELSE SubSeq(L.ring, k - c + 1, m)
<1>6. /\ M.file = L.file \o out /\ M.sequence = L.sequence + c
      /\ M.notices = L.notices \cup numbers
      /\ M.dropped = (IF k >= c THEN 0 ELSE L.dropped)
      /\ M.ring = newRing
      /\ M.pause = L.pause /\ M.io = L.io /\ M.path = L.path /\ M.faults = L.faults
  <2> HIDE DEF numbers, newRing
  <2>1. M = [L EXCEPT !.file = @ \o out, !.sequence = @ + c, !.notices = @ \cup numbers,
                      !.dropped = IF k >= c THEN 0 ELSE @, !.ring = newRing]
    BY DEF Flushed, out, some, rest, numbers, newRing
  <2> HIDE DEF M, c, m, f
  <2> QED BY <2>1, <1>1 DEF Logs
<1> DEFINE e == IF k >= c THEN k - c ELSE 0
<1>7. /\ e \in Nat /\ e <= m /\ (k >= c => e = k - c) /\ M.ring \in Seq(Nat)
      /\ Len(M.ring) = m - e
      /\ \A i \in 1..Len(M.ring) : M.ring[i] = L.ring[i + e]
  <2>0. M.ring = newRing /\ e \in 0..m /\ (k >= c => e = k - c)
    BY <1>6, <1>1, <1>2
  <2> HIDE DEF M
  <2>1. CASE k <= c
    <3>1. M.ring = L.ring /\ e = 0
      BY <2>0, <2>1, <1>2
    <3>2. m - 0 = m /\ \A i \in 1..m : i + 0 = i
      BY <1>1
    <3> HIDE DEF e, newRing, c, m
    <3> QED BY <3>1, <3>2, <1>0, <1>1, <2>0
  <2>2. CASE k > c
    <3>1. k - c + 1 = e + 1 /\ ~(k <= c)
      <4>1. k \in Nat /\ c \in Nat /\ (k >= c => e = k - c)
        BY <1>2, <2>0
      <4> HIDE DEF c, e, m, newRing
      <4> QED BY <4>1, <2>2
    <3>2. M.ring = SubSeq(L.ring, e + 1, m)
      BY <2>0, <3>1
    <3> HIDE DEF e, newRing, c, m
    <3> DEFINE r == L.ring
    <3>3. r \in Seq(Nat) /\ m = Len(r) /\ e \in 0..m
      BY <1>0, <1>1, <2>0
    <3> HIDE DEF r
    <3>4. /\ SubSeq(r, e + 1, m) \in Seq(Nat) /\ Len(SubSeq(r, e + 1, m)) = m - e
          /\ \A i \in 1..(m - e) : SubSeq(r, e + 1, m)[i] = r[i + e]
      BY <3>3, RestOf
    <3> QED BY <3>2, <3>4, <2>0 DEF r
  <2> HIDE DEF e, newRing, c, m
  <2>3. k <= c \/ k > c
    BY <1>2
  <2> QED BY <2>1, <2>2, <2>3
<1> HIDE DEF M, c, m, f, e, numbers, newRing
<1>8. /\ M.file \in Seq(Lines) /\ Len(M.file) = f + Len(out)
      /\ \A i \in 1..f : M.file[i] = L.file[i]
      /\ \A i \in 1..(f + Len(out)) : i > f => i - f \in 1..Len(out) /\ M.file[i] = out[i - f]
  <2> DEFINE old == L.file
  <2>0. old \in Seq(Lines) /\ out \in Seq(Lines) /\ f = Len(old) /\ M.file = old \o out
    BY <1>0, <1>1, <1>5, <1>6
  <2> HIDE DEF old
  <2>1. /\ old \o out \in Seq(Lines) /\ Len(old \o out) = Len(old) + Len(out)
        /\ \A i \in 1..Len(old) : (old \o out)[i] = old[i]
        /\ \A i \in 1..(Len(old) + Len(out)) : i > Len(old) =>
              i - Len(old) \in 1..Len(out) /\ (old \o out)[i] = out[i - Len(old)]
    BY <2>0, Joined
  <2>2. /\ M.file \in Seq(Lines) /\ Len(M.file) = f + Len(out)
        /\ \A i \in 1..f : M.file[i] = old[i]
        /\ \A i \in 1..(f + Len(out)) : i > f => i - f \in 1..Len(out) /\ M.file[i] = out[i - f]
    BY <2>0, <2>1
  <2> QED BY <2>2 DEF old
<1>9. M \in Logs
  <2>1. numbers \in SUBSET Nat
    <3> DEFINE s == Notice(L)
    <3>1. s \in Seq(Lines)
      BY <1>2
    <3> HIDE DEF s
    <3>2. \A i \in DOMAIN s : s[i] \in Lines
      BY <3>1
    <3>3. \A i \in DOMAIN s : s[i].n \in Nat
      BY <3>2 DEF Lines
    <3>4. Numbers(s) \in SUBSET Nat
      BY <3>3 DEF Numbers
    <3> QED BY <3>4 DEF s, numbers
  <2>2. L.notices \cup numbers \in SUBSET Nat
    BY <2>1, <1>1
  <2>3. L.sequence + c \in Nat
    <3>1. c \in Nat /\ L.sequence \in Nat
      BY <1>1, <1>2
    <3> QED BY <3>1
  <2>4. M = [L EXCEPT !.file = @ \o out, !.sequence = @ + c, !.notices = @ \cup numbers,
                      !.dropped = IF k >= c THEN 0 ELSE @, !.ring = newRing]
    BY DEF Flushed, out, some, rest, numbers, newRing, M, c, m
  <2>5. newRing \in Seq(Nat) /\ L.file \o out \in Seq(Lines)
    BY <1>6, <1>7, <1>8
  <2> QED BY <2>2, <2>3, <2>4, <2>5, <1>1 DEF Logs

<1> DEFINE h == Len(out)
<1>13. h \in Nat /\ k \in Nat /\ f \in Nat /\ h >= k /\ Len(M.file) = f + h /\ h = Len(out)
  <2> DEFINE g == Len(rest)
  <2>1. g \in {0, 1} /\ h = k + g /\ k \in Nat
    BY <1>2, <1>4, <1>5
  <2> HIDE DEF g, h
  <2>2. h \in Nat /\ h >= k
    BY <2>1
  <2> QED BY <2>1, <2>2, <1>1, <1>8 DEF h
<1> HIDE DEF h
<1>10. Len(M.file) \in Nat /\ Len(M.file) >= f + k
  BY <1>13
<1>11. \A i \in 1..k : M.file[f + i] = Batch(L)[i]
  <2> SUFFICES ASSUME NEW i \in 1..k PROVE M.file[f + i] = Batch(L)[i]
    OBVIOUS
  <2>1. f + i \in 1..(f + h) /\ f + i > f /\ (f + i) - f = i
    BY <1>13
  <2>2. M.file[f + i] = out[(f + i) - f]
    BY <2>1, <1>8, <1>13
  <2> QED BY <2>1, <2>2, <1>5
<1>12. \A i \in 1..Len(M.file) : i > f + k => ~M.file[i].whole
  <2> SUFFICES ASSUME NEW i \in 1..(f + Len(out)), i > f + k PROVE ~M.file[i].whole
    BY <1>8
  <2>1. i > f /\ i - f > k
    BY <1>1, <1>2
  <2>2. i - f \in 1..Len(out) /\ M.file[i] = out[i - f]
    BY <2>1, <1>8
  <2> QED BY <2>1, <2>2, <1>5
<1>14. FlushedTo(L, k, M, c, m, f, e)
  BY <1>6, <1>7, <1>8, <1>9, <1>10, <1>11, <1>12 DEF FlushedTo, numbers
<1> QED BY <1>14 DEF M, c, m, f, e

LEMMA FlushedTidy ==
  ASSUME NEW L, NEW b, Tidy(L, b), NEW torn \in BOOLEAN,
         NEW k \in 0..Len(Batch(L)), torn => k < Len(Batch(L))
  PROVE  LET M == Flushed(L, k, torn) IN
         /\ Tidy(M, b) /\ M.pause = L.pause /\ M.io = L.io /\ M.path = L.path
         /\ M.faults = L.faults
         /\ k = Len(Batch(L)) => M.ring = <<>>
<1> DEFINE c == Len(Notice(L))
           m == Len(L.ring)
           f == Len(L.file)
           e == IF k >= c THEN k - c ELSE 0
           M == Flushed(L, k, torn)
<1>0. m = Len(L.ring) /\ f = Len(L.file) /\ c = Len(Notice(L))
  OBVIOUS
<1>1. L \in Logs /\ L.ring \in Seq(Nat) /\ m \in Nat /\ f \in Nat
      /\ L.sequence \in Nat /\ b \in Nat
  <2> DEFINE file == L.file
  <2>1. L \in Logs /\ L.ring \in Seq(Nat) /\ file \in Seq(Lines) /\ m \in Nat
        /\ L.sequence \in Nat /\ b \in Nat
    BY DEF Tidy, Logs
  <2>2. Len(file) \in Nat
    BY <2>1
  <2> QED BY <2>1, <2>2
<1>2. /\ c \in {0, 1} /\ Len(Batch(L)) = c + m /\ k \in Nat /\ k <= c + m
      /\ \A i \in 1..c : ~Plain(Batch(L)[i])
      /\ \A i \in 1..m : Batch(L)[c + i] = Line(L.ring[i])
  BY <1>1, BatchLines
<1>3. FlushedTo(L, k, M, c, m, f, e)
  BY <1>1, FlushedParts
<1> HIDE DEF M, c, m, f, e
<1>6. /\ M.sequence = L.sequence + c /\ M.pause = L.pause /\ M.io = L.io /\ M.path = L.path
      /\ M.faults = L.faults
  BY <1>3 DEF FlushedTo
<1>7. /\ e \in Nat /\ e <= m /\ (k >= c => e = k - c) /\ Len(M.ring) = m - e
      /\ \A i \in 1..Len(M.ring) : M.ring[i] = L.ring[i + e]
  BY <1>3 DEF FlushedTo
<1>8. /\ Len(M.file) \in Nat
      /\ \A i \in 1..f : M.file[i] = L.file[i]
      /\ \A i \in 1..k : M.file[f + i] = Batch(L)[i]
      /\ \A i \in 1..Len(M.file) : i > f + k => ~M.file[i].whole
  BY <1>3 DEF FlushedTo
<1>9. M \in Logs
  BY <1>3 DEF FlushedTo
(* A line in the file now was there, or is the notice, a torn line or one  *)
(* of the first of the ring.                                               *)
<1>10. ASSUME NEW i \in 1..Len(M.file), Plain(M.file[i])
       PROVE  \/ i \in 1..f /\ M.file[i] = L.file[i]
              \/ /\ i > f + c /\ i - f - c \in 1..m /\ i - f - c <= e
                 /\ M.file[i].n = L.ring[i - f - c]
  <2>1. CASE i <= f
    <3>1. i \in 1..f
      BY <2>1, <1>1, <1>8
    <3> QED BY <3>1, <1>8
  <2>2. CASE i > f
    <3>1. i <= f + k
      <4>1. M.file[i].whole
        BY <1>10 DEF Plain
      <4>2. ~(i > f + k)
        BY <4>1, <1>8
      <4> QED BY <4>2, <1>1, <1>2
    <3> DEFINE j == i - f
    <3>2. j \in 1..k /\ i = f + j
      BY <2>2, <3>1, <1>1, <1>2
    <3> HIDE DEF j
    <3>3. M.file[i] = Batch(L)[j]
      BY <3>2, <1>8
    <3>4. j > c
      BY <3>2, <3>3, <1>2, <1>10
    <3> DEFINE o == j - c
    <3>5. o \in 1..m /\ c + o = j /\ o <= k - c /\ k >= c
      BY <3>2, <3>4, <1>1, <1>2
    <3> HIDE DEF o
    <3>6. Batch(L)[j] = Line(L.ring[o])
      BY <3>5, <1>2
    <3>7. M.file[i].n = L.ring[o]
      BY <3>3, <3>6 DEF Line
    <3>8. o <= e /\ i > f + c /\ i - f - c = o
      BY <3>2, <3>4, <3>5, <1>1, <1>2, <1>7
    <3> QED BY <3>5, <3>7, <3>8
  <2> QED BY <2>1, <2>2, <1>1, <1>2
<1>11. /\ \A i \in 1..m : L.ring[i] <= b /\ L.ring[i] \in Nat
       /\ \A i, j \in 1..m : i < j => L.ring[i] <= L.ring[j]
       /\ \A i \in 1..f : Plain(L.file[i]) =>
             /\ L.file[i].n <= b
             /\ \A j \in 1..m : L.file[i].n <= L.ring[j]
             /\ \A j \in 1..f : i < j /\ Plain(L.file[j]) => L.file[i].n <= L.file[j].n
       /\ m <= RingLines /\ b <= L.sequence
  <2>1. /\ \A i \in 1..m : L.ring[i] <= b
        /\ \A i, j \in 1..m : i < j => L.ring[i] <= L.ring[j]
        /\ m <= RingLines /\ b <= L.sequence
    BY <1>0 DEF Tidy
  <2>2. \A i \in 1..m : L.ring[i] \in Nat
    <3> DEFINE ring == L.ring
    <3>1. ring \in Seq(Nat) /\ m = Len(ring)
      BY <1>0, <1>1
    <3> HIDE DEF ring
    <3>2. \A i \in 1..m : ring[i] \in Nat
      BY <3>1, ElementOfSeq
    <3> QED BY <3>2 DEF ring
  <2>3. \A i \in 1..f : Plain(L.file[i]) =>
             /\ L.file[i].n <= b
             /\ \A j \in 1..m : L.file[i].n <= L.ring[j]
             /\ \A j \in 1..f : i < j /\ Plain(L.file[j]) => L.file[i].n <= L.file[j].n
    BY <1>0, Zenon DEF Tidy
  <2> QED BY <2>1, <2>2, <2>3
<1>12. \A i \in 1..Len(M.ring) : i + e \in 1..m /\ e < i + e
  BY <1>1, <1>7
<1>13. Tidy(M, b)
  <2>1. b <= M.sequence /\ Len(M.ring) <= RingLines
    <3>1. /\ M.sequence = L.sequence + c /\ Len(M.ring) = m - e /\ m <= RingLines
          /\ b <= L.sequence
      BY <1>6, <1>7, <1>11
    <3>2. /\ RingLines \in Nat /\ e \in Nat /\ m \in Nat /\ c \in {0, 1}
          /\ b \in Nat /\ L.sequence \in Nat
      BY <1>1, <1>2, <1>7, DiagLogAssumption
    <3> QED BY <3>1, <3>2
  <2>2. \A i \in 1..Len(M.ring) : M.ring[i] <= b
    BY <1>7, <1>11, <1>12
  <2>3. \A i, j \in 1..Len(M.ring) : i < j => M.ring[i] <= M.ring[j]
    <3> SUFFICES ASSUME NEW i \in 1..Len(M.ring), NEW j \in 1..Len(M.ring), i < j
                 PROVE  M.ring[i] <= M.ring[j]
      OBVIOUS
    <3>1. i + e < j + e /\ i + e \in 1..m /\ j + e \in 1..m
      BY <1>7, <1>12
    <3> QED BY <3>1, <1>7, <1>11
  <2>4. ASSUME NEW i \in 1..Len(M.file), Plain(M.file[i])
        PROVE  /\ M.file[i].n <= b
               /\ \A j \in 1..Len(M.ring) : M.file[i].n <= M.ring[j]
               /\ \A j \in 1..Len(M.file) : i < j /\ Plain(M.file[j]) => M.file[i].n <= M.file[j].n
    <3>1. CASE i \in 1..f /\ M.file[i] = L.file[i]
      <4>1. Plain(L.file[i])
        BY <3>1, <2>4
      <4>2. /\ L.file[i].n <= b /\ \A j \in 1..m : L.file[i].n <= L.ring[j]
            /\ \A j \in 1..f : i < j /\ Plain(L.file[j]) => L.file[i].n <= L.file[j].n
        BY <4>1, <3>1, <1>11
      <4>3. \A j \in 1..Len(M.ring) : M.file[i].n <= M.ring[j]
        BY <4>2, <3>1, <1>7, <1>12
      <4>4. ASSUME NEW j \in 1..Len(M.file), i < j, Plain(M.file[j])
            PROVE  M.file[i].n <= M.file[j].n
        <5>1. CASE j \in 1..f /\ M.file[j] = L.file[j]
          BY <5>1, <4>2, <4>4, <3>1
        <5>2. CASE j - f - c \in 1..m /\ M.file[j].n = L.ring[j - f - c]
          BY <5>2, <4>2, <3>1
        <5> QED BY <5>1, <5>2, <4>4, <1>10
      <4> QED BY <4>2, <4>3, <4>4, <3>1
    <3>2. CASE /\ i > f + c /\ i - f - c \in 1..m /\ i - f - c <= e
               /\ M.file[i].n = L.ring[i - f - c]
      <4> DEFINE o == i - f - c
      <4>0. o \in 1..m /\ o <= e /\ M.file[i].n = L.ring[o]
        BY <3>2
      <4>5. i = o + f + c /\ o \in Int
        BY <1>1, <1>2
      <4> HIDE DEF o
      <4>1. M.file[i].n <= b
        BY <4>0, <1>11
      <4>2. ASSUME NEW j \in 1..Len(M.ring) PROVE M.file[i].n <= M.ring[j]
        <5>0. j + e \in 1..m /\ e < j + e /\ M.ring[j] = L.ring[j + e]
          BY <1>7, <1>12
        <5> DEFINE s == j + e
        <5>2. s \in Int /\ e < s /\ o \in Int /\ o <= e /\ e \in Nat
          BY <5>0, <4>0, <4>5, <1>7
        <5> HIDE DEF s
        <5>3. o < s
          BY <5>2
        <5>1. j + e \in 1..m /\ o < j + e /\ M.ring[j] = L.ring[j + e]
          BY <5>0, <5>3 DEF s
        <5> QED BY <5>1, <4>0, <1>11
      <4>3. ASSUME NEW j \in 1..Len(M.file), i < j, Plain(M.file[j])
            PROVE  M.file[i].n <= M.file[j].n
        <5>1. j \notin 1..f
          BY <3>2, <4>3, <1>1, <1>2
        <5> DEFINE u == j - f - c
        <5>2. u \in 1..m /\ M.file[j].n = L.ring[u]
          BY <5>1, <4>3, <1>10
        <5>3. o < u
          BY <4>3, <4>5, <1>1, <1>2
        <5> HIDE DEF u
        <5> QED BY <5>2, <5>3, <4>0, <1>11
      <4> QED BY <4>1, <4>2, <4>3
    <3> QED BY <3>1, <3>2, <2>4, <1>10
  <2> QED BY <2>1, <2>2, <2>3, <2>4, <1>1, <1>9 DEF Tidy
<1>14. k = Len(Batch(L)) => M.ring = <<>>
  <2> SUFFICES ASSUME k = Len(Batch(L)) PROVE M.ring = <<>>
    OBVIOUS
  <2>1. k >= c /\ k - c = m
    BY <1>1, <1>2, <1>7
  <2>2. Len(M.ring) = 0
    BY <2>1, <1>1, <1>7
  <2> QED BY <2>2, EmptySeq
<1> QED BY <1>6, <1>13, <1>14 DEF M

LEMMA LogParts ==
  ASSUME NEW L \in Logs
  PROVE  /\ L.ring \in Seq(Nat) /\ L.file \in Seq(Lines) /\ L.sequence \in Nat /\ L.dropped \in Nat
         /\ L.faults \in 0..LogFaults /\ L.pause \in Nat /\ L.notices \in SUBSET Nat
         /\ \A i \in 1..Len(L.ring) : L.ring[i] \in Nat
         /\ \A i \in 1..Len(L.file) : L.file[i] \in Lines /\ L.file[i].n \in Nat
<1>1. /\ L.ring \in Seq(Nat) /\ L.file \in Seq(Lines) /\ L.sequence \in Nat /\ L.dropped \in Nat
      /\ L.faults \in 0..LogFaults /\ L.pause \in Nat /\ L.notices \in SUBSET Nat
  BY DEF Logs
<1> DEFINE ring == L.ring
           file == L.file
<1>2. ring \in Seq(Nat) /\ file \in Seq(Lines)
  BY <1>1
<1> HIDE DEF ring, file
<1>3. \A i \in 1..Len(ring) : ring[i] \in Nat
  BY <1>2, ElementOfSeq
<1>4. \A i \in 1..Len(file) : file[i] \in Lines
  BY <1>2, ElementOfSeq
<1>5. \A i \in 1..Len(file) : file[i].n \in Nat
  BY <1>4 DEF Lines
<1> QED BY <1>1, <1>3, <1>4, <1>5 DEF ring, file

(* Only the lines and their numbers matter for the order.                  *)
LEMMA TidyFrom ==
  ASSUME NEW L, NEW b, Tidy(L, b), NEW M \in Logs, NEW c \in Nat,
         M.ring = L.ring, M.file = L.file, b <= c, c <= M.sequence
  PROVE  Tidy(M, c)
<1>1. b \in Nat /\ L \in Logs
  BY DEF Tidy
<1>2. /\ \A i \in 1..Len(L.ring) : L.ring[i] \in Nat
      /\ \A i \in 1..Len(L.file) : L.file[i].n \in Nat
  BY <1>1, LogParts
<1>3. \A i \in 1..Len(L.ring) : L.ring[i] <= c
  BY <1>1, <1>2 DEF Tidy
<1>4. \A i \in 1..Len(L.file) : Plain(L.file[i]) => L.file[i].n <= c
  BY <1>1, <1>2 DEF Tidy
<1>5. /\ Len(L.ring) <= RingLines
      /\ \A i, j \in 1..Len(L.ring) : i < j => L.ring[i] <= L.ring[j]
      /\ \A i \in 1..Len(L.file) : Plain(L.file[i]) =>
            /\ \A j \in 1..Len(L.ring) : L.file[i].n <= L.ring[j]
            /\ \A j \in 1..Len(L.file) : i < j /\ Plain(L.file[j]) => L.file[i].n <= L.file[j].n
  BY Zenon DEF Tidy
<1> QED BY <1>3, <1>4, <1>5, Zenon DEF Tidy

(* A line that is younger than all others goes to the ring.                *)
LEMMA QueueTidy ==
  ASSUME NEW L, NEW b, Tidy(L, b), NEW n \in Nat, b <= n, n <= L.sequence
  PROVE  LET M == QueueLine(L, n) IN
         /\ Tidy(M, n) /\ M.file = L.file /\ M.sequence = L.sequence
         /\ M.path = L.path /\ M.io = L.io /\ M.pause = L.pause
<1> DEFINE M == QueueLine(L, n)
           m == Len(L.ring)
           ring == L.ring
           kept == IF m < RingLines THEN ring ELSE Tail(ring)
           new == Append(kept, n)
<1>1. /\ L \in Logs /\ ring \in Seq(Nat) /\ m \in Nat /\ m = Len(ring) /\ m <= RingLines
      /\ b \in Nat /\ L.dropped \in Nat /\ L.sequence \in Nat /\ L.file \in Seq(Lines)
      /\ RingLines \in Nat \ {0}
  BY DiagLogAssumption DEF Tidy, Logs
<1>2. /\ M.ring = new /\ M.dropped \in Nat /\ M.file = L.file /\ M.sequence = L.sequence
      /\ M.path = L.path /\ M.io = L.io /\ M.pause = L.pause /\ M.faults = L.faults
      /\ M.notices = L.notices
  <2>1. CASE m < RingLines
    BY <2>1, <1>1 DEF QueueLine, Logs
  <2>2. CASE ~(m < RingLines)
    BY <2>2, <1>1 DEF QueueLine, Logs
  <2> QED BY <2>1, <2>2
<1>3. /\ \A i \in 1..m : ring[i] \in Nat /\ ring[i] <= b
      /\ \A i, j \in 1..m : i < j => ring[i] <= ring[j]
  <2>1. \A i \in 1..m : ring[i] \in Nat
    BY <1>1, ElementOfSeq
  <2> QED BY <2>1 DEF Tidy
<1> DEFINE e == IF m < RingLines THEN 0 ELSE 1
<1>4. /\ kept \in Seq(Nat) /\ Len(kept) = m - e /\ e \in {0, 1} /\ e <= m
      /\ m - e < RingLines
      /\ \A i \in 1..(m - e) : kept[i] = ring[i + e]
  <2>1. CASE m < RingLines
    <3>1. kept = ring /\ e = 0
      BY <2>1
    <3> QED BY <3>1, <2>1, <1>1
  <2>2. CASE ~(m < RingLines)
    <3>1. kept = Tail(ring) /\ e = 1 /\ m = RingLines
      BY <2>2, <1>1
    <3>2. ring # <<>>
      BY <3>1, <1>1
    <3>3. Tail(ring) \in Seq(Nat) /\ Len(Tail(ring)) = m - 1
          /\ \A i \in 1..(m - 1) : Tail(ring)[i] = ring[i + 1]
      <4> HIDE DEF ring, m
      <4> QED BY <1>1, <3>2, HeadTailProperties
    <3> QED BY <3>1, <3>3, <1>1
  <2> QED BY <2>1, <2>2
<1> HIDE DEF kept, e
<1>5. /\ new \in Seq(Nat) /\ Len(new) = m - e + 1 /\ new[m - e + 1] = n
      /\ \A i \in 1..(m - e) : new[i] = ring[i + e]
  <2> HIDE DEF ring, m
  <2>1. /\ Append(kept, n) \in Seq(Nat) /\ Len(Append(kept, n)) = Len(kept) + 1
        /\ \A i \in 1..Len(kept) : Append(kept, n)[i] = kept[i]
        /\ Append(kept, n)[Len(kept) + 1] = n
    BY <1>4, AppendProperties
  <2> QED BY <2>1, <1>4
<1> HIDE DEF new, M, m, ring
<1>6. \A i \in 1..(m - e) : i + e \in 1..m
  BY <1>1, <1>4
<1>7. \A i \in 1..(m - e + 1) : i \in 1..(m - e) \/ i = m - e + 1
  BY <1>1, <1>4
<1>8. \A i \in 1..Len(M.ring) : M.ring[i] \in Nat /\ M.ring[i] <= n
  <2> SUFFICES ASSUME NEW i \in 1..(m - e + 1) PROVE new[i] \in Nat /\ new[i] <= n
    BY <1>2, <1>5
  <2>1. CASE i \in 1..(m - e)
    <3>1. new[i] = ring[i + e] /\ ring[i + e] <= b /\ ring[i + e] \in Nat
      BY <2>1, <1>3, <1>5, <1>6
    <3> QED BY <3>1, <1>1
  <2> QED BY <2>1, <1>5, <1>7
<1>9. \A i, j \in 1..Len(M.ring) : i < j => M.ring[i] <= M.ring[j]
  <2> SUFFICES ASSUME NEW i \in 1..(m - e + 1), NEW j \in 1..(m - e + 1), i < j
               PROVE  new[i] <= new[j]
    BY <1>2, <1>5
  <2>1. i \in 1..(m - e)
    BY <1>1, <1>4
  <2>2. CASE j \in 1..(m - e)
    <3>1. new[i] = ring[i + e] /\ new[j] = ring[j + e] /\ i + e \in 1..m /\ j + e \in 1..m
      BY <2>1, <2>2, <1>5, <1>6
    <3>2. i + e < j + e
      BY <1>4
    <3> QED BY <3>1, <3>2, <1>3
  <2>3. CASE j = m - e + 1
    BY <2>3, <1>2, <1>5, <1>8
  <2> QED BY <2>2, <2>3, <1>7
<1>10. ASSUME NEW i \in 1..Len(L.file), Plain(L.file[i])
       PROVE  /\ L.file[i].n <= n
              /\ \A j \in 1..Len(M.ring) : L.file[i].n <= M.ring[j]
              /\ \A j \in 1..Len(L.file) :
                    i < j /\ Plain(L.file[j]) => L.file[i].n <= L.file[j].n
  <2>1. /\ L.file[i].n <= b /\ \A j \in 1..m : L.file[i].n <= ring[j]
        /\ \A j \in 1..Len(L.file) :
              i < j /\ Plain(L.file[j]) => L.file[i].n <= L.file[j].n
    BY <1>10, Zenon DEF Tidy, m, ring
  <2>2. L.file[i].n \in Nat
    <3> DEFINE file == L.file
    <3>1. file \in Seq(Lines) /\ i \in 1..Len(file)
      BY <1>1
    <3> HIDE DEF file
    <3>2. file[i] \in Lines
      BY <3>1, ElementOfSeq
    <3>3. file[i].n \in Nat
      BY <3>2 DEF Lines
    <3> QED BY <3>3 DEF file
  <2>3. L.file[i].n <= n
    BY <2>1, <2>2, <1>1
  <2>4. ASSUME NEW j \in 1..(m - e + 1) PROVE L.file[i].n <= new[j]
    <3>1. CASE j \in 1..(m - e)
      BY <3>1, <2>1, <1>5, <1>6
    <3>2. CASE j = m - e + 1
      BY <3>2, <2>3, <1>5
    <3> QED BY <3>1, <3>2, <1>7
  <2> QED BY <2>1, <2>3, <2>4, <1>2, <1>5
<1>11. M \in Logs
  <2>1. M = IF Len(L.ring) < RingLines THEN [L EXCEPT !.ring = new]
            ELSE [L EXCEPT !.ring = new, !.dropped = @ + 1]
    BY DEF M, QueueLine, new, kept, m, ring
  <2>2. L.dropped + 1 \in Nat
    BY <1>1
  <2> QED BY <2>1, <2>2, <1>1, <1>5 DEF Logs
<1>12. Len(M.ring) <= RingLines
  BY <1>1, <1>2, <1>4, <1>5
<1>13. Tidy(M, n)
  BY <1>2, <1>8, <1>9, <1>10, <1>11, <1>12 DEF Tidy
<1> QED BY <1>2, <1>13 DEF M

(* A line that is younger than all others goes to the end of the file.     *)
LEMMA PutTidy ==
  ASSUME NEW L, NEW b, Tidy(L, b), L.ring = <<>>, NEW l \in Lines, b <= l.n, l.n <= L.sequence
  PROVE  LET M == [L EXCEPT !.file = Append(@, l)] IN
         /\ Tidy(M, l.n) /\ M.ring = <<>> /\ M.sequence = L.sequence /\ M.faults = L.faults
         /\ M.pause = L.pause /\ M.io = L.io /\ M.path = L.path
<1> DEFINE file == L.file
           f == Len(file)
           new == Append(file, l)
           M == [L EXCEPT !.file = new]
           n == l.n
<1>1. L \in Logs /\ b \in Nat /\ n \in Nat
  BY DEF Tidy, Lines
<1>2. /\ file \in Seq(Lines) /\ f = Len(file) /\ f \in Nat
      /\ \A i \in 1..f : file[i] \in Lines /\ file[i].n \in Nat
  BY <1>1, LogParts
<1>3. /\ \A i \in 1..f : Plain(file[i]) => file[i].n <= b
      /\ \A i, j \in 1..f : i < j /\ Plain(file[i]) /\ Plain(file[j]) => file[i].n <= file[j].n
  BY DEF Tidy
<1>4. /\ M.ring = <<>> /\ M.sequence = L.sequence /\ M.faults = L.faults /\ M.file = new
      /\ M.pause = L.pause /\ M.io = L.io /\ M.path = L.path
  BY <1>1 DEF Logs
<1>5. /\ new \in Seq(Lines) /\ Len(new) = f + 1 /\ new[f + 1] = l
      /\ \A i \in 1..f : new[i] = file[i]
  <2> HIDE DEF file
  <2> QED BY <1>2, AppendProperties
<1>6. M \in Logs
  <2> HIDE DEF new
  <2> QED BY <1>1, <1>5 DEF Logs
<1>0. Tidy(L, b) => Len(L.ring) <= RingLines /\ b <= L.sequence
  BY DEF Tidy
<1> HIDE DEF new, file, f, M, n
<1>7. \A i \in 1..(f + 1) : i \in 1..f \/ i = f + 1
  BY <1>2
<1>8. \A i \in 1..f : Plain(file[i]) => file[i].n <= n
  <2>1. b <= n
    BY DEF n
  <2> QED BY <2>1, <1>1, <1>2, <1>3
<1>9. \A i \in 1..Len(M.file) : Plain(M.file[i]) => M.file[i].n <= n
  <2> SUFFICES ASSUME NEW i \in 1..(f + 1), Plain(new[i]) PROVE new[i].n <= n
    BY <1>4, <1>5
  <2>1. CASE i \in 1..f
    BY <2>1, <1>5, <1>8
  <2>2. CASE i = f + 1
    BY <2>2, <1>1, <1>5 DEF n
  <2> QED BY <2>1, <2>2, <1>7
<1>10. \A i \in 1..Len(M.file), j \in 1..Len(M.file) :
          i < j /\ Plain(M.file[i]) /\ Plain(M.file[j]) => M.file[i].n <= M.file[j].n
  <2> SUFFICES ASSUME NEW i \in 1..(f + 1), NEW j \in 1..(f + 1), i < j,
                      Plain(new[i]), Plain(new[j])
               PROVE  new[i].n <= new[j].n
    BY <1>4, <1>5
  <2>1. i \in 1..f
    BY <1>2
  <2>2. CASE j \in 1..f
    BY <2>1, <2>2, <1>3, <1>5
  <2>3. CASE j = f + 1
    BY <2>1, <2>3, <1>5, <1>8 DEF n
  <2> QED BY <2>2, <2>3, <1>7
<1>11. Len(M.ring) = 0 /\ 1..Len(M.ring) = {}
  BY <1>4
<1>12. Tidy(M, n)
  <2>1. Len(M.ring) <= RingLines /\ n <= M.sequence
    BY <1>0, <1>4 DEF n
  <2> QED BY <2>1, <1>1, <1>6, <1>9, <1>10, <1>11 DEF Tidy
<1> QED BY <1>4, <1>12 DEF M, new, file, n

LEMMA DropTidy ==
  ASSUME NEW L, NEW b, Tidy(L, b), NEW n \in Faulty(L)
  PROVE  LET M == Detached(LogFault(L)) IN
         /\ Tidy(M, b) /\ ~M.io /\ M.ring = L.ring /\ M.pause = L.pause /\ M.file = L.file
         /\ M.sequence = L.sequence
<1>1. L \in Logs /\ b \in Nat /\ b <= L.sequence
  BY DEF Tidy
<1>2. L.faults - 1 \in 0..LogFaults
  BY <1>1, DiagLogAssumption DEF Faulty, Logs
<1> DEFINE M == Detached(LogFault(L))
<1>3. /\ M \in Logs /\ ~M.io /\ M.ring = L.ring /\ M.pause = L.pause /\ M.file = L.file
      /\ M.sequence = L.sequence
  BY <1>1, <1>2 DEF Logs, Detached, LogFault
<1>4. b <= b
  BY <1>1
<1> HIDE DEF M
<1>5. Tidy(M, b)
  BY <1>1, <1>3, <1>4, TidyFrom
<1> QED BY <1>3, <1>5 DEF M

LEMMA FoundTidy ==
  ASSUME NEW L, NEW b, Tidy(L, b), NEW p \in EnsurePath(L)
  PROVE  /\ Tidy(p.log, b) /\ p.log.pause = L.pause /\ p.log.io = L.io
         /\ p.log.sequence = L.sequence /\ Batch(p.log) = Batch(L)
         /\ p.log.file = L.file /\ p.log.ring = L.ring
<1>1. L \in Logs /\ b \in Nat /\ b <= L.sequence /\ b <= b
  BY DEF Tidy
<1> DEFINE K == p.log
<1>2. /\ K \in Logs /\ K.ring = L.ring /\ K.pause = L.pause /\ K.file = L.file
      /\ K.sequence = L.sequence /\ K.dropped = L.dropped /\ K.io = L.io
  <2>1. CASE p = [ok |-> TRUE, log |-> [L EXCEPT !.path = TRUE]]
    BY <2>1, <1>1 DEF Logs
  <2>2. CASE p = [ok |-> FALSE, log |-> LogFault(L)] /\ L.faults > 0
    <3>1. L.faults - 1 \in 0..LogFaults
      BY <2>2, <1>1, DiagLogAssumption DEF Logs
    <3> DEFINE F == LogFault(L)
    <3>2. /\ F \in Logs /\ F.ring = L.ring /\ F.pause = L.pause /\ F.file = L.file
          /\ F.sequence = L.sequence /\ F.dropped = L.dropped /\ F.io = L.io
      BY <3>1, <1>1 DEF Logs, LogFault
    <3>3. p.log = F /\ p.ok = FALSE
      BY <2>2
    <3> HIDE DEF F
    <3> QED BY <3>2, <3>3
  <2>3. L.faults \in Nat
    BY <1>1, DiagLogAssumption DEF Logs
  <2> QED BY <2>1, <2>2, <2>3 DEF EnsurePath, Faulty
<1> HIDE DEF K
<1>3. Tidy(K, b)
  BY <1>1, <1>2, TidyFrom
<1>4. Batch(K) = Batch(L)
  BY <1>2 DEF Batch, Notice
<1> QED BY <1>2, <1>3, <1>4 DEF K

(* How a flush that found the stick or not may end.                        *)
Ended(K, M, size) ==
    \/ M = [K EXCEPT !.io = FALSE]
    \/ M = Flushed(K, size, FALSE)
    \/ \E n \in Faulty(K) : M = Detached(LogFault(K))
    \/ \E k \in {m \in 0..(size - 1) : K.faults > 0}, torn \in BOOLEAN :
          M = Detached(LogFault(Flushed(K, k, torn)))
    \/ \E n \in Faulty(K) : M = Detached(LogFault(Flushed(K, size, FALSE)))

LEMMA FlushCases ==
  ASSUME NEW L, NEW M \in FlushPending(L)
  PROVE  \/ M = L /\ (~L.io \/ L.pause # 0 \/ (L.ring = <<>> /\ L.dropped = 0))
         \/ /\ L.pause = 0
            /\ \E p \in EnsurePath(L) : Ended(p.log, M, Len(Batch(L)))
<1> DEFINE size == Len(Batch(L))
           nothing == ~L.io \/ L.pause # 0 \/ (L.ring = <<>> /\ L.dropped = 0)
           Append1(p) ==
                IF ~p.ok THEN {[p.log EXCEPT !.io = FALSE]}
                ELSE {Flushed(p.log, size, FALSE)}
                     \cup {Detached(LogFault(p.log)) : n \in Faulty(p.log)}
                     \cup {Detached(LogFault(Flushed(p.log, k, torn))) :
                             k \in {m \in 0..(size - 1) : p.log.faults > 0}, torn \in BOOLEAN}
                     \cup {Detached(LogFault(Flushed(p.log, size, FALSE))) : n \in Faulty(p.log)}
           some == UNION {Append1(p) : p \in EnsurePath(L)}
<1>0. FlushPending(L) = IF nothing THEN {L} ELSE some
  BY DEF FlushPending
<1> HIDE DEF some
<1>1. CASE nothing
  <2>1. M = L
    BY <1>0, <1>1
  <2> QED BY <1>1, <2>1
<1>2. CASE ~nothing
  <2>0. FlushPending(L) = UNION {Append1(p) : p \in EnsurePath(L)}
    BY <1>0, <1>2 DEF some
  <2> HIDE DEF Append1
  <2>1. PICK p \in EnsurePath(L) : M \in Append1(p)
    BY <2>0
  <2> HIDE DEF size
  <2> DEFINE K == p.log
  <2> HIDE DEF K
  <2>2. Append1(p) =
           IF ~p.ok THEN {[K EXCEPT !.io = FALSE]}
           ELSE {Flushed(K, size, FALSE)} \cup {Detached(LogFault(K)) : n \in Faulty(K)}
                \cup {Detached(LogFault(Flushed(K, k, torn))) :
                        k \in {m \in 0..(size - 1) : K.faults > 0}, torn \in BOOLEAN}
                \cup {Detached(LogFault(Flushed(K, size, FALSE))) : n \in Faulty(K)}
    BY DEF K, Append1
  <2> DEFINE bare == [K EXCEPT !.io = FALSE]
  <2>3. \/ M = bare
        \/ M = Flushed(K, size, FALSE)
        \/ \E n \in Faulty(K) : M = Detached(LogFault(K))
        \/ \E k \in {m \in 0..(size - 1) : K.faults > 0}, torn \in BOOLEAN :
              M = Detached(LogFault(Flushed(K, k, torn)))
        \/ \E n \in Faulty(K) : M = Detached(LogFault(Flushed(K, size, FALSE)))
    <3> DEFINE torns == {Detached(LogFault(Flushed(K, k, torn))) :
                            k \in {m \in 0..(size - 1) : K.faults > 0}, torn \in BOOLEAN}
               alls == {Detached(LogFault(Flushed(K, size, FALSE))) : n \in Faulty(K)}
               opens == {Detached(LogFault(K)) : n \in Faulty(K)}
    <3>1. Append1(p) = IF ~p.ok THEN {bare}
                       ELSE {Flushed(K, size, FALSE)} \cup opens \cup torns \cup alls
      BY <2>2
    <3>2. M \in opens => \E n \in Faulty(K) : M = Detached(LogFault(K))
      OBVIOUS
    <3>4. M \in alls => \E n \in Faulty(K) : M = Detached(LogFault(Flushed(K, size, FALSE)))
      OBVIOUS
    <3>5. M \in torns => \E k \in {m \in 0..(size - 1) : K.faults > 0}, torn \in BOOLEAN :
                            M = Detached(LogFault(Flushed(K, k, torn)))
      OBVIOUS
    <3> HIDE DEF bare, torns, alls, opens
    <3>3. \/ M = bare \/ M = Flushed(K, size, FALSE)
          \/ M \in opens \/ M \in torns \/ M \in alls
      BY <3>1, <2>1
    <3> QED BY <3>2, <3>3, <3>4, <3>5, Zenon
  <2>4. Ended(K, M, size)
    BY <2>3 DEF Ended
  <2> QED BY <1>2, <2>4 DEF size, K
<1> QED BY <1>1, <1>2

LEMMA FlushTidy ==
  ASSUME NEW L, NEW b, Tidy(L, b), NEW M \in FlushPending(L)
  PROVE  /\ Tidy(M, b) /\ M.pause = L.pause
         /\ L.pause # 0 => M = L
         /\ L.pause = 0 /\ M.io => M.ring = <<>>
<1>1. CASE M = L /\ (~L.io \/ L.pause # 0 \/ (L.ring = <<>> /\ L.dropped = 0))
  BY <1>1
<1>2. ASSUME L.pause = 0, NEW p \in EnsurePath(L), Ended(p.log, M, Len(Batch(L)))
      PROVE  Tidy(M, b) /\ M.pause = L.pause /\ (M.io => M.ring = <<>>)
  <2> DEFINE size == Len(Batch(L))
             K == p.log
  <2>2. /\ Tidy(K, b) /\ K.pause = L.pause /\ size = Len(Batch(K)) /\ K \in Logs
        /\ b \in Nat /\ b <= K.sequence
    BY FoundTidy DEF Tidy, size
  <2>3. size \in Nat /\ size \in 0..Len(Batch(K)) /\ FALSE \in BOOLEAN
    <3>1. Batch(K) \in Seq(Lines)
      BY <2>2, BatchLines
    <3> HIDE DEF size, K
    <3> QED BY <3>1, <2>2
  <2> HIDE DEF size, K
  <2>4. CASE M = [K EXCEPT !.io = FALSE]
    <3>1. /\ M \in Logs /\ M.ring = K.ring /\ M.pause = K.pause /\ M.file = K.file
          /\ M.sequence = K.sequence /\ ~M.io
      BY <2>2, <2>4 DEF Logs
    <3>2. b <= b
      BY <2>2
    <3>3. Tidy(M, b)
      BY <2>2, <3>1, <3>2, TidyFrom
    <3> QED BY <3>1, <3>3, <2>2, <1>2
  <2>5. /\ Tidy(Flushed(K, size, FALSE), b) /\ Flushed(K, size, FALSE).pause = K.pause
        /\ Flushed(K, size, FALSE).faults = K.faults /\ Flushed(K, size, FALSE).ring = <<>>
    BY <2>2, <2>3, FlushedTidy
  <2>6. CASE M = Flushed(K, size, FALSE)
    BY <2>5, <2>6, <2>2, <1>2
  <2>7. ASSUME NEW n \in Faulty(K), M = Detached(LogFault(K))
        PROVE  Tidy(M, b) /\ M.pause = L.pause /\ ~M.io
    <3>1. Tidy(Detached(LogFault(K)), b) /\ ~Detached(LogFault(K)).io
          /\ Detached(LogFault(K)).pause = K.pause
      BY <2>2, DropTidy
    <3> QED BY <3>1, <2>2, <2>7
  <2>8. ASSUME NEW k \in {m \in 0..(size - 1) : K.faults > 0}, NEW torn \in BOOLEAN,
               M = Detached(LogFault(Flushed(K, k, torn)))
        PROVE  Tidy(M, b) /\ M.pause = L.pause /\ ~M.io
    <3> DEFINE F == Flushed(K, k, torn)
    <3>1. k \in 0..Len(Batch(K)) /\ k < Len(Batch(K))
      BY <2>2, <2>3
    <3>2. Tidy(F, b) /\ F.pause = K.pause /\ F.faults = K.faults
      BY <3>1, <2>2, FlushedTidy
    <3> HIDE DEF F
    <3>3. 1 \in Faulty(F)
      <4>1. K.faults \in Nat /\ K.faults > 0
        BY <2>2, DiagLogAssumption DEF Logs
      <4> QED BY <4>1, <3>2 DEF Faulty
    <3>4. Tidy(Detached(LogFault(F)), b) /\ ~Detached(LogFault(F)).io
          /\ Detached(LogFault(F)).pause = F.pause
      BY <3>2, <3>3, DropTidy
    <3> QED BY <3>4, <3>2, <2>2, <2>8 DEF F
  <2>9. ASSUME NEW n \in Faulty(K), M = Detached(LogFault(Flushed(K, size, FALSE)))
        PROVE  Tidy(M, b) /\ M.pause = L.pause /\ ~M.io
    <3> DEFINE F == Flushed(K, size, FALSE)
    <3> HIDE DEF F
    <3>1. Tidy(F, b) /\ F.pause = K.pause /\ F.faults = K.faults
      BY <2>5 DEF F
    <3>2. n \in Faulty(F)
      BY <2>9, <3>1 DEF Faulty
    <3>3. Tidy(Detached(LogFault(F)), b) /\ ~Detached(LogFault(F)).io
          /\ Detached(LogFault(F)).pause = F.pause
      BY <3>1, <3>2, DropTidy
    <3> QED BY <3>3, <3>1, <2>2, <2>9 DEF F
  <2>11. \/ M = [K EXCEPT !.io = FALSE]
         \/ M = Flushed(K, size, FALSE)
         \/ \E n \in Faulty(K) : M = Detached(LogFault(K))
         \/ \E k \in {m \in 0..(size - 1) : K.faults > 0}, torn \in BOOLEAN :
               M = Detached(LogFault(Flushed(K, k, torn)))
         \/ \E n \in Faulty(K) : M = Detached(LogFault(Flushed(K, size, FALSE)))
    BY <1>2, Zenon DEF Ended, K, size
  <2> QED BY <2>4, <2>6, <2>7, <2>8, <2>9, <2>11
<1> QED BY <1>1, <1>2, FlushCases

LEMMA WriteTidy ==
  ASSUME NEW L, NEW n \in Nat, Tidy(L, n), L.ring = <<>>, NEW M \in WriteLine(L, n)
  PROVE  Tidy(M, M.sequence) /\ M.pause = L.pause
<1> DEFINE Queue(K) == QueueLine(Detached(LogFault(K)), n)
           P(l) == [L EXCEPT !.file = Append(@, l)]
<1>1. \/ M = P(Line(n))
      \/ \E m \in Faulty(L) : M = Queue(L)
      \/ \E m \in Faulty(L) : M = Queue(P(Torn(Line(n))))
      \/ \E m \in Faulty(L) : M = Queue(P(Line(n)))
  BY DEF WriteLine
<1>2. /\ Line(n) \in Lines /\ Line(n).n = n
      /\ Torn(Line(n)) \in Lines /\ Torn(Line(n)).n = n
  BY DEF Line, Torn, Lines
<1>3. n <= n /\ n <= L.sequence
  BY DEF Tidy
<1>4. ASSUME NEW l \in Lines, l.n = n
      PROVE  /\ Tidy(P(l), n) /\ P(l).ring = <<>> /\ P(l).sequence = L.sequence
             /\ P(l).pause = L.pause /\ P(l).faults = L.faults
  BY <1>3, <1>4, PutTidy
<1>5. ASSUME NEW K, Tidy(K, n), K.sequence = L.sequence, K.pause = L.pause,
             NEW m \in Faulty(K)
      PROVE  Tidy(Queue(K), n) /\ Queue(K).pause = L.pause /\ Queue(K).sequence = L.sequence
  <2> DEFINE D == Detached(LogFault(K))
  <2>1. Tidy(D, n) /\ D.pause = L.pause /\ D.sequence = L.sequence
    BY <1>5, DropTidy
  <2> HIDE DEF D
  <2>2. Tidy(QueueLine(D, n), n) /\ QueueLine(D, n).pause = D.pause
        /\ QueueLine(D, n).sequence = D.sequence
    BY <2>1, <1>3, QueueTidy
  <2> QED BY <2>1, <2>2 DEF D
<1> HIDE DEF P, Queue
<1>6. Tidy(M, n) /\ M.pause = L.pause /\ M.sequence = L.sequence
  <2>1. CASE M = P(Line(n))
    BY <2>1, <1>2, <1>4
  <2>2. ASSUME NEW m \in Faulty(L), M = Queue(L)
        PROVE  Tidy(M, n) /\ M.pause = L.pause /\ M.sequence = L.sequence
    BY <2>2, <1>5
  <2>3. ASSUME NEW m \in Faulty(L), NEW l \in Lines, l.n = n, M = Queue(P(l))
        PROVE  Tidy(M, n) /\ M.pause = L.pause /\ M.sequence = L.sequence
    <3>1. /\ Tidy(P(l), n) /\ P(l).sequence = L.sequence /\ P(l).pause = L.pause
          /\ m \in Faulty(P(l))
      BY <2>3, <1>4 DEF Faulty
    <3> QED BY <3>1, <2>3, <1>5
  <2> QED BY <2>1, <2>2, <2>3, <1>1, <1>2
<1>7. M \in Logs /\ M.sequence \in Nat /\ n <= M.sequence /\ M.sequence <= M.sequence
  BY <1>6 DEF Tidy, Logs
<1>8. Tidy(M, M.sequence)
  BY <1>6, <1>7, TidyFrom
<1> QED BY <1>6, <1>8

LEMMA FormatTidy ==
  ASSUME NEW L, Tidy(L, L.sequence)
  PROVE  LET K == FormatLine(L) IN
         /\ Tidy(K, K.sequence) /\ K.sequence = L.sequence + 1 /\ K.sequence \in Nat
         /\ K.pause = L.pause /\ K.file = L.file /\ K.path = L.path /\ K.io = L.io
<1> DEFINE K == FormatLine(L)
<1>1. L \in Logs /\ L.sequence \in Nat /\ L.sequence + 1 \in Nat
  BY DEF Tidy, Logs
<1>2. /\ K \in Logs /\ K.sequence = L.sequence + 1 /\ K.ring = L.ring
      /\ K.pause = L.pause /\ K.file = L.file /\ K.path = L.path /\ K.io = L.io
  BY <1>1 DEF FormatLine, Logs
<1> HIDE DEF K
<1>3. K.sequence \in Nat /\ L.sequence <= K.sequence /\ K.sequence <= K.sequence
  BY <1>1, <1>2
<1>4. Tidy(K, K.sequence)
  BY <1>1, <1>2, <1>3, TidyFrom
<1> QED BY <1>2, <1>3, <1>4 DEF K

LEMMA QueueLastTidy ==
  ASSUME NEW L, NEW n \in Nat, Tidy(L, n)
  PROVE  LET M == QueueLine(L, n) IN
         /\ Tidy(M, M.sequence) /\ M.pause = L.pause /\ M.file = L.file /\ M.path = L.path
<1> DEFINE M == QueueLine(L, n)
<1>1. n <= n /\ n <= L.sequence
  BY DEF Tidy
<1>2. /\ Tidy(M, n) /\ M.pause = L.pause /\ M.file = L.file /\ M.path = L.path
  BY <1>1, QueueTidy
<1> HIDE DEF M
<1>3. M \in Logs /\ M.sequence \in Nat /\ n <= M.sequence /\ M.sequence <= M.sequence
  BY <1>2 DEF Tidy, Logs
<1>4. Tidy(M, M.sequence)
  BY <1>2, <1>3, TidyFrom
<1> QED BY <1>2, <1>4 DEF M

LEMMA TraceTidy ==
  ASSUME NEW L, Tidy(L, L.sequence), NEW M \in Trace(L)
  PROVE  Tidy(M, M.sequence) /\ M.pause = L.pause /\ M.file = L.file /\ M.path = L.path
<1> DEFINE K == FormatLine(L)
<1>1. /\ Tidy(K, K.sequence) /\ K.sequence = L.sequence + 1 /\ K.sequence \in Nat
      /\ K.pause = L.pause /\ K.file = L.file /\ K.path = L.path
  BY FormatTidy
<1>2. M = QueueLine(K, K.sequence)
  BY <1>1 DEF Trace
<1> HIDE DEF K
<1> DEFINE n == K.sequence
<1>3. n \in Nat /\ Tidy(K, n)
  BY <1>1
<1> HIDE DEF n
<1>4. LET N == QueueLine(K, n) IN
      /\ Tidy(N, N.sequence) /\ N.pause = K.pause /\ N.file = K.file /\ N.path = K.path
  BY <1>3, QueueLastTidy
<1> QED BY <1>1, <1>2, <1>4 DEF n

LEMMA PrintfTidy ==
  ASSUME NEW L, Tidy(L, L.sequence), NEW M \in Printf(L)
  PROVE  /\ Tidy(M, M.sequence) /\ M.pause = L.pause
         /\ L.pause # 0 => M.file = L.file /\ M.path = L.path
<1> DEFINE K == FormatLine(L)
           n == K.sequence
           Direct(F) == IF F.io THEN WriteLine([F EXCEPT !.path = TRUE], n)
                        ELSE {QueueLine(F, n)}
           direct == UNION {Direct(F) : F \in FlushPending(K)}
<1>0. Printf(L) = IF K.io /\ K.pause = 0 THEN direct ELSE {QueueLine(K, n)}
  BY DEF Printf
<1>1. /\ Tidy(K, n) /\ n \in Nat /\ K.pause = L.pause /\ K.file = L.file /\ K.path = L.path
  BY FormatTidy
<1> HIDE DEF K, n
<1>2. CASE ~(K.io /\ K.pause = 0)
  <2>1. M = QueueLine(K, n)
    <3> HIDE DEF direct
    <3> QED BY <1>0, <1>2
  <2>2. LET N == QueueLine(K, n) IN
        /\ Tidy(N, N.sequence) /\ N.pause = K.pause /\ N.file = K.file /\ N.path = K.path
    BY <1>1, QueueLastTidy
  <2> QED BY <1>1, <2>1, <2>2
<1>3. CASE K.io /\ K.pause = 0
  <2>1. M \in direct
    <3> HIDE DEF direct
    <3> QED BY <1>0, <1>3
  <2>2. PICK F \in FlushPending(K) : M \in Direct(F)
    <3> HIDE DEF Direct
    <3> QED BY <2>1
  <2>3. Tidy(F, n) /\ F.pause = K.pause /\ (F.io => F.ring = <<>>)
    BY <1>1, <1>3, FlushTidy
  <2>4. CASE ~F.io
    <3>1. M = QueueLine(F, n)
      BY <2>2, <2>4
    <3>2. LET N == QueueLine(F, n) IN Tidy(N, N.sequence) /\ N.pause = F.pause
      BY <1>1, <2>3, QueueLastTidy
    <3> QED BY <1>1, <1>3, <2>3, <3>1, <3>2
  <2>5. CASE F.io
    <3> DEFINE G == [F EXCEPT !.path = TRUE]
    <3>1. M \in WriteLine(G, n)
      BY <2>2, <2>5
    <3>2. F \in Logs /\ n <= F.sequence /\ n <= n
      BY <2>3 DEF Tidy
    <3>3. G \in Logs /\ G.ring = F.ring /\ G.file = F.file /\ G.sequence = F.sequence
          /\ G.pause = F.pause
      BY <3>2 DEF Logs
    <3> HIDE DEF G
    <3>4. Tidy(G, n) /\ G.ring = <<>>
      BY <1>1, <2>3, <2>5, <3>2, <3>3, TidyFrom
    <3>5. Tidy(M, M.sequence) /\ M.pause = G.pause
      BY <1>1, <3>1, <3>4, WriteTidy
    <3> QED BY <1>1, <1>3, <2>3, <3>3, <3>5
  <2> QED BY <2>4, <2>5
<1> QED BY <1>2, <1>3

LEMMA PauseTidy ==
  ASSUME NEW L, Tidy(L, L.sequence), NEW M \in Pause(L)
  PROVE  Tidy(M, M.sequence) /\ M.pause = L.pause + 1 /\ M.file = L.file /\ M.path = L.path
<1> DEFINE K == [L EXCEPT !.pause = 1]
           n == L.pause + 1
           D == [L EXCEPT !.pause = n]
<1>1. L \in Logs /\ L.sequence \in Nat /\ L.sequence <= L.sequence /\ L.pause \in Nat
  BY DEF Tidy, Logs
<1>2. /\ K \in Logs /\ K.sequence = L.sequence /\ K.ring = L.ring /\ K.file = L.file
      /\ K.pause = 1 /\ K.path = L.path
  BY <1>1 DEF Logs
<1>3. /\ D \in Logs /\ D.sequence = L.sequence /\ D.ring = L.ring /\ D.file = L.file
      /\ D.pause = L.pause + 1 /\ D.path = L.path
  <2>1. n \in Nat /\ n = L.pause + 1
    BY <1>1
  <2> HIDE DEF n
  <2> QED BY <1>1, <2>1 DEF Logs
<1>4. CASE L.pause = 0
  <2>1. M \in Trace(K)
    BY <1>4 DEF Pause
  <2> HIDE DEF K
  <2>2. Tidy(K, L.sequence)
    BY <1>1, <1>2, TidyFrom
  <2>3. Tidy(M, M.sequence) /\ M.pause = K.pause /\ M.file = K.file /\ M.path = K.path
    BY <1>2, <2>1, <2>2, TraceTidy
  <2> QED BY <1>2, <1>4, <2>3
<1>5. CASE L.pause # 0
  <2>1. M = D
    BY <1>5 DEF Pause
  <2> HIDE DEF D
  <2>2. Tidy(D, L.sequence)
    BY <1>1, <1>3, TidyFrom
  <2> QED BY <1>3, <2>1, <2>2
<1> QED BY <1>4, <1>5

LEMMA ResumeTidy ==
  ASSUME NEW L, Tidy(L, L.sequence), L.pause > 0, NEW M \in Resume(L)
  PROVE  Tidy(M, M.sequence) /\ M.pause = L.pause - 1
<1> DEFINE K == [L EXCEPT !.pause = 0]
           D == [L EXCEPT !.pause = @ - 1]
           flushed == UNION {FlushPending(F) : F \in Trace(K)}
<1>0. Resume(L) = IF L.pause = 0 THEN {L} ELSE IF L.pause > 1 THEN {D} ELSE flushed
  BY DEF Resume
<1>1. L \in Logs /\ L.sequence \in Nat /\ L.sequence <= L.sequence /\ L.pause \in Nat
  BY DEF Tidy, Logs
<1>2. /\ K \in Logs /\ K.sequence = L.sequence /\ K.ring = L.ring /\ K.file = L.file
      /\ K.pause = 0
  BY <1>1 DEF Logs
<1>3. L.pause - 1 \in Nat
  BY <1>1
<1>4. /\ D \in Logs /\ D.sequence = L.sequence /\ D.ring = L.ring /\ D.file = L.file
      /\ D.pause = L.pause - 1
  BY <1>1, <1>3 DEF Logs
<1>5. CASE L.pause > 1
  <2> HIDE DEF D, flushed
  <2>1. M = D
    BY <1>0, <1>1, <1>5
  <2>2. Tidy(D, L.sequence)
    BY <1>1, <1>4, TidyFrom
  <2> QED BY <1>4, <2>1, <2>2
<1>6. CASE L.pause = 1
  <2>1. M \in flushed
    <3> HIDE DEF flushed, D
    <3> QED BY <1>0, <1>6
  <2>2. PICK F \in Trace(K) : M \in FlushPending(F)
    BY <2>1
  <2> HIDE DEF K
  <2>3. Tidy(K, L.sequence)
    BY <1>1, <1>2, TidyFrom
  <2>4. Tidy(F, F.sequence) /\ F.pause = 0
    BY <1>2, <2>3, TraceTidy
  <2> DEFINE b == F.sequence
  <2>5. Tidy(F, b)
    BY <2>4
  <2> HIDE DEF b
  <2>6. Tidy(M, b) /\ M.pause = 0
    BY <2>2, <2>4, <2>5, FlushTidy
  <2>7. M \in Logs /\ M.sequence \in Nat /\ b <= M.sequence /\ M.sequence <= M.sequence
    BY <2>6 DEF Tidy, Logs
  <2>8. Tidy(M, M.sequence)
    BY <2>6, <2>7, TidyFrom
  <2> QED BY <1>6, <2>6, <2>8
<1> QED BY <1>1, <1>5, <1>6

LEMMA DetachTidy ==
  ASSUME NEW L, Tidy(L, L.sequence), NEW M \in Detach(L)
  PROVE  Tidy(M, M.sequence) /\ M.pause = L.pause
<1> DEFINE K == Detached(L)
<1>1. L \in Logs /\ L.sequence \in Nat /\ L.sequence <= L.sequence
  BY DEF Tidy, Logs
<1>2. /\ K \in Logs /\ K.sequence = L.sequence /\ K.ring = L.ring /\ K.file = L.file
      /\ K.pause = L.pause
  BY <1>1 DEF Detached, Logs
<1>3. M \in Printf(K)
  BY DEF Detach
<1> HIDE DEF K
<1>4. Tidy(K, L.sequence)
  BY <1>1, <1>2, TidyFrom
<1>5. Tidy(M, M.sequence) /\ M.pause = K.pause
  BY <1>2, <1>3, <1>4, PrintfTidy
<1> QED BY <1>2, <1>5

LEMMA AttachTidy ==
  ASSUME NEW L, Tidy(L, L.sequence), NEW M \in Attach(L)
  PROVE  Tidy(M, M.sequence) /\ M.pause = L.pause
<1> DEFINE K == [L EXCEPT !.io = TRUE, !.path = FALSE]
           Then1(F) == IF F.io THEN Printf(F) ELSE {F}
           Flush(p) == IF ~p.ok THEN {Detached(p.log)}
                       ELSE UNION {Then1(F) : F \in FlushPending(p.log)}
           found == UNION {Flush(p) : p \in EnsurePath(K)}
<1>0. Attach(L) = IF L.io /\ L.path THEN {L} ELSE IF L.pause # 0 THEN Trace(K) ELSE found
  BY DEF Attach
<1>1. L \in Logs /\ L.sequence \in Nat /\ L.sequence <= L.sequence
  BY DEF Tidy, Logs
<1>2. /\ K \in Logs /\ K.sequence = L.sequence /\ K.ring = L.ring /\ K.file = L.file
      /\ K.pause = L.pause
  BY <1>1 DEF Logs
<1> DEFINE b == L.sequence
<1> HIDE DEF K, found, b
<1>3. Tidy(K, b) /\ b = L.sequence
  BY <1>1, <1>2, TidyFrom DEF b
<1>4. CASE L.io /\ L.path
  BY <1>0, <1>4
<1>5. CASE ~(L.io /\ L.path) /\ L.pause # 0
  <2>1. M \in Trace(K)
    BY <1>0, <1>5
  <2>2. Tidy(M, M.sequence) /\ M.pause = K.pause
    BY <1>2, <1>3, <2>1, TraceTidy
  <2> QED BY <1>2, <2>2
<1>6. CASE ~(L.io /\ L.path) /\ ~(L.pause # 0)
  <2>1. M \in found
    BY <1>0, <1>6
  <2>2. PICK p \in EnsurePath(K) : M \in Flush(p)
    <3> HIDE DEF Flush
    <3> QED BY <2>1 DEF found
  <2> DEFINE P == p.log
             flush == UNION {Then1(F) : F \in FlushPending(p.log)}
  <2>3. Tidy(P, b) /\ P.pause = L.pause /\ P.sequence = b
    BY <1>2, <1>3, FoundTidy
  <2>4. M = Detached(P) \/ M \in flush
    <3>1. M \in IF ~p.ok THEN {Detached(P)} ELSE flush
      BY <2>2
    <3> HIDE DEF flush, P
    <3>2. CASE ~p.ok
      BY <3>1, <3>2
    <3>3. CASE p.ok
      BY <3>1, <3>3
    <3> QED BY <3>2, <3>3
  <2>5. CASE M = Detached(P)
    <3>1. P \in Logs
      BY <2>3 DEF Tidy
    <3>2. M \in Logs /\ M.ring = P.ring /\ M.file = P.file /\ M.sequence = b /\ M.pause = L.pause
      <4> HIDE DEF P
      <4> QED BY <2>3, <2>5, <3>1 DEF Detached, Logs
    <3> HIDE DEF P
    <3>3. b \in Nat /\ b <= b
      BY <1>1, <1>3
    <3>4. Tidy(M, b)
      BY <2>3, <3>2, <3>3, TidyFrom
    <3> QED BY <3>2, <3>4
  <2>6. CASE M \in flush
    <3>1. PICK F \in FlushPending(P) : M \in Then1(F)
      <4> HIDE DEF Then1
      <4> QED BY <2>6
    <3> HIDE DEF P
    <3>2. Tidy(F, b) /\ F.pause = L.pause
      BY <2>3, <3>1, FlushTidy
    <3>3. F \in Logs /\ F.sequence \in Nat /\ b <= F.sequence /\ F.sequence <= F.sequence
      BY <3>2 DEF Tidy, Logs
    <3>4. Tidy(F, F.sequence)
      BY <3>2, <3>3, TidyFrom
    <3>5. CASE M = F
      BY <3>2, <3>4, <3>5
    <3>6. CASE M \in Printf(F)
      <4>1. Tidy(M, M.sequence) /\ M.pause = F.pause
        BY <3>4, <3>6, PrintfTidy
      <4> QED BY <3>2, <4>1
    <3> QED BY <3>1, <3>5, <3>6
  <2> QED BY <2>4, <2>5, <2>6
<1> QED BY <1>4, <1>5, <1>6

(* The fields of a world.                                                  *)
LEMMA WorldParts ==
  ASSUME NEW w \in Worlds
  PROVE  /\ w.fx \in Clients /\ w.wb \in Batches /\ w.ra \in Caches /\ w.rc \in Int
         /\ w.out \in Seq(Int) /\ w.raw \in Seq(Int) /\ w.answered \in BOOLEAN
         /\ w.fx.mode \in {"WAIT", "NOWAIT"} /\ w.fx.rpc \in Requests
         /\ w.fx.open \in Fds \cup {0} /\ w.fx.pos \in Nat /\ w.fx.file \in Seq(Int)
         /\ w.fx.faults \in 0..MaxFaults /\ w.fx.shorts \in 0..MaxShorts
         /\ w.fx.last \in Fds \cup {0, Failed} /\ w.fx.last \in Int
         /\ w.wb.depth \in Nat /\ w.wb.fill \in Slots /\ w.wb.fd \in Fds \cup {0}
         /\ w.wb.async \in Slots \cup {NoSlot} /\ w.wb.expected \in 0..BatchUnits
         /\ w.wb.len \in [Slots -> 0..BatchUnits]
         /\ w.wb.buf \in [Slots -> [1..BatchUnits -> Int]]
         /\ w.ra.depth \in Nat /\ w.ra.fd \in Fds \cup {0} /\ w.ra.cur \in Slots \cup {NoSlot}
         /\ w.ra.async \in Slots \cup {NoSlot} /\ w.ra.ready \in Slots \cup {NoSlot}
         /\ w.ra.disabled \in BOOLEAN /\ w.ra.slot \in [Slots -> Buffers]
         /\ \A s \in Slots : w.ra.slot[s].data \in Seq(Int) /\ w.ra.slot[s].off \in Nat
<1>1. /\ w.fx \in Clients /\ w.wb \in Batches /\ w.ra \in Caches /\ w.rc \in Int
      /\ w.out \in Seq(Int) /\ w.raw \in Seq(Int) /\ w.answered \in BOOLEAN
  BY DEF Worlds
<1>2. /\ w.fx.mode \in {"WAIT", "NOWAIT"} /\ w.fx.rpc \in Requests
      /\ w.fx.open \in Fds \cup {0} /\ w.fx.pos \in Nat /\ w.fx.file \in Seq(Int)
      /\ w.fx.faults \in 0..MaxFaults /\ w.fx.shorts \in 0..MaxShorts
      /\ w.fx.last \in Fds \cup {0, Failed}
  BY <1>1 DEF Clients
<1>3. /\ w.wb.depth \in Nat /\ w.wb.fill \in Slots /\ w.wb.fd \in Fds \cup {0}
      /\ w.wb.async \in Slots \cup {NoSlot} /\ w.wb.expected \in 0..BatchUnits
      /\ w.wb.len \in [Slots -> 0..BatchUnits]
      /\ w.wb.buf \in [Slots -> [1..BatchUnits -> Int]]
  BY <1>1 DEF Batches
<1>4. /\ w.ra.depth \in Nat /\ w.ra.fd \in Fds \cup {0} /\ w.ra.cur \in Slots \cup {NoSlot}
      /\ w.ra.async \in Slots \cup {NoSlot} /\ w.ra.ready \in Slots \cup {NoSlot}
      /\ w.ra.disabled \in BOOLEAN /\ w.ra.slot \in [Slots -> Buffers]
  BY <1>1 DEF Caches
<1>5. \A s \in Slots : w.ra.slot[s].data \in Seq(Int) /\ w.ra.slot[s].off \in Nat
  BY <1>4 DEF Buffers
<1>6. w.fx.last \in Int
  <2> DEFINE n == w.fx.last
  <2>1. n \in Fds \cup {0, Failed} /\ Failed \in Int /\ Fds \subseteq Int
    BY <1>2, FileXioAssumption DEF Failed
  <2> HIDE DEF n
  <2>2. n \in Int
    BY <2>1
  <2> QED BY <2>2 DEF n
<1> QED BY <1>1, <1>2, <1>3, <1>4, <1>5, <1>6

LEMMA RequestParts ==
  ASSUME NEW r \in Requests
  PROVE  /\ r.st \in {"none", "queued", "done"}
         /\ r.st # "none" => r.kind \in Calls /\ r.slot \in Slots /\ r.len \in 1..BatchUnits
         /\ r.st = "done" => r.result \in {Failed} \cup (0..BatchUnits)
         /\ r.st = "none" => r = NoRequest
BY DEF Requests, NoRequest

(* Serving a request: the new world, piece by piece.                       *)
LEMMA RpcParts ==
  ASSUME NEW w \in Worlds, NEW v \in Requests
  PROVE  LET x == PutRpc(w, v) IN
         /\ x \in Worlds /\ x.wb = w.wb /\ x.ra = w.ra /\ SameCall(x, w) /\ SameFile(x, w)
         /\ x.fx.mode = w.fx.mode /\ x.fx.rpc = v
         /\ x.fx.faults = w.fx.faults /\ x.fx.shorts = w.fx.shorts
BY DEF PutRpc, Worlds, Clients, SameCall, SameFile

LEMMA FaultsParts ==
  ASSUME NEW w \in Worlds, w.fx.faults > 0
  PROVE  LET x == LessFaults(w) IN
         /\ x \in Worlds /\ x.wb = w.wb /\ x.ra = w.ra /\ SameCall(x, w) /\ SameFile(x, w)
         /\ x.fx.mode = w.fx.mode /\ x.fx.rpc = w.fx.rpc
<1>1. w.fx.faults - 1 \in 0..MaxFaults
  BY WorldParts, FileXioAssumption
<1> QED BY <1>1 DEF LessFaults, Worlds, Clients, SameCall, SameFile

LEMMA ShortsParts ==
  ASSUME NEW w \in Worlds, w.fx.shorts > 0
  PROVE  LET x == LessShorts(w) IN
         /\ x \in Worlds /\ x.wb = w.wb /\ x.ra = w.ra /\ SameCall(x, w) /\ SameFile(x, w)
         /\ x.fx.mode = w.fx.mode /\ x.fx.rpc = w.fx.rpc
<1>1. w.fx.shorts - 1 \in 0..MaxShorts
  BY WorldParts, FileXioAssumption
<1> QED BY <1>1 DEF LessShorts, Worlds, Clients, SameCall, SameFile

LEMMA FileParts ==
  ASSUME NEW w \in Worlds, NEW f \in Seq(Int)
  PROVE  LET x == PutFile(w, f) IN
         /\ x \in Worlds /\ x.wb = w.wb /\ x.ra = w.ra /\ SameCall(x, w)
         /\ x.fx.file = f /\ x.fx.open = w.fx.open /\ x.fx.pos = w.fx.pos
         /\ x.fx.mode = w.fx.mode /\ x.fx.rpc = w.fx.rpc
         /\ x.fx.faults = w.fx.faults /\ x.fx.shorts = w.fx.shorts
BY DEF PutFile, Worlds, Clients, SameCall

LEMMA PosParts ==
  ASSUME NEW w \in Worlds, NEW p \in Nat
  PROVE  LET x == PutPos(w, p) IN
         /\ x \in Worlds /\ x.wb = w.wb /\ x.ra = w.ra /\ SameCall(x, w)
         /\ x.fx.file = w.fx.file /\ x.fx.open = w.fx.open /\ x.fx.pos = p
         /\ x.fx.mode = w.fx.mode /\ x.fx.rpc = w.fx.rpc
         /\ x.fx.faults = w.fx.faults /\ x.fx.shorts = w.fx.shorts
BY DEF PutPos, Worlds, Clients, SameCall

LEMMA DataParts ==
  ASSUME NEW w \in Worlds, NEW s \in Slots, NEW d \in Seq(Int)
  PROVE  LET x == PutData(w, s, d) IN
         /\ x \in Worlds /\ x.wb = w.wb /\ x.fx = w.fx /\ SameCall(x, w)
         /\ x.ra = [w.ra EXCEPT !.slot[s] = [data |-> d, off |-> w.ra.slot[s].off]]
<1> DEFINE b == [w.ra.slot[s] EXCEPT !.data = d]
           c == [data |-> d, off |-> w.ra.slot[s].off]
           x == PutData(w, s, d)
<1>1. w.ra.slot[s] \in Buffers
  BY WorldParts
<1>2. b = c /\ c \in Buffers
  BY <1>1 DEF Buffers
<1>3. x = [w EXCEPT !.ra.slot[s] = b]
  BY DEF PutData
<1> HIDE DEF b, c, x
<1>5. /\ x \in Worlds /\ x.wb = w.wb /\ x.fx = w.fx /\ SameCall(x, w)
      /\ x.ra = [w.ra EXCEPT !.slot[s] = b]
  <2>1. b \in Buffers
    BY <1>2
  <2> QED BY <2>1, <1>3 DEF Worlds, Caches, SameCall
<1>6. /\ x \in Worlds /\ x.wb = w.wb /\ x.fx = w.fx /\ SameCall(x, w)
      /\ x.ra = [w.ra EXCEPT !.slot[s] = c]
  BY <1>2, <1>5
<1> QED BY <1>6 DEF c, x

LEMMA ServeOutcome ==
  ASSUME NEW w, Sound(w), Busy(w), NEW x \in ServeRequest(w)
  PROVE  \E k \in {Failed} \cup (0..BatchUnits) : ServedBy(w, x, k)
<1> DEFINE r == w.fx.rpc
           most == IF r.kind = "write" THEN r.len ELSE Lesser(r.len, Len(w.fx.file) - w.fx.pos)
           R(k) == [st |-> "done", kind |-> r.kind, slot |-> r.slot, len |-> r.len, result |-> k]
           Res(k) == PutRpc(w, R(k))
           Moved(k) == IF r.kind = "write"
                       THEN PutFile(Res(k), Res(k).fx.file \o SubSeq(w.wb.buf[r.slot], 1, k))
                       ELSE PutData(PutPos(Res(k), Res(k).fx.pos + k), r.slot,
                                    SubSeq(w.fx.file, w.fx.pos + 1, w.fx.pos + k))
<1>0. ServeRequest(w) =
         {Moved(most)}
         \cup {LessShorts(Moved(k)) : k \in {n \in 1..(most - 1) : w.fx.shorts > 0}}
         \cup {LessFaults(Res(Failed)) : n \in 1..w.fx.faults}
  BY DEF ServeRequest, PutRpc, PutFile, PutPos, PutData, LessFaults, LessShorts
<1>1. /\ w \in Worlds /\ r \in Requests /\ r.st = "queued" /\ w.fx.open # 0
      /\ r.kind \in Calls /\ r.slot \in Slots /\ r.len \in 1..BatchUnits
      /\ w.fx.pos <= Len(w.fx.file) /\ w.fx.pos \in Nat /\ w.fx.file \in Seq(Int)
      /\ Len(w.fx.file) \in Nat /\ BatchUnits \in Nat
      /\ w.fx.faults \in Nat /\ w.fx.shorts \in Nat
      /\ w.wb.buf[r.slot] \in [1..BatchUnits -> Int] /\ w.ra.slot \in [Slots -> Buffers]
  <2>1. w \in Worlds /\ r.st = "queued" /\ w.fx.open # 0 /\ w.fx.pos <= Len(w.fx.file)
    BY DEF Sound, Busy
  <2>2. /\ r \in Requests /\ w.fx.pos \in Nat /\ w.fx.file \in Seq(Int)
        /\ w.fx.faults \in Nat /\ w.fx.shorts \in Nat
        /\ w.wb.buf \in [Slots -> [1..BatchUnits -> Int]] /\ w.ra.slot \in [Slots -> Buffers]
    BY <2>1, WorldParts, FileXioAssumption
  <2> HIDE DEF r
  <2>3. r.kind \in Calls /\ r.slot \in Slots /\ r.len \in 1..BatchUnits
    BY <2>1, <2>2, RequestParts
  <2>4. w.wb.buf[r.slot] \in [1..BatchUnits -> Int]
    BY <2>2, <2>3
  <2>5. BatchUnits \in Nat /\ Len(w.fx.file) \in Nat
    BY <2>2, FileXioAssumption
  <2> QED BY <2>1, <2>2, <2>3, <2>4, <2>5
<1>2. most \in 0..r.len /\ (r.kind = "write" => most = r.len)
      /\ (r.kind = "read" => w.fx.pos + most <= Len(w.fx.file)
                             /\ (most = 0 => w.fx.pos = Len(w.fx.file)))
  <2> DEFINE n == Len(w.fx.file)
             p == w.fx.pos
  <2>1. /\ n \in Nat /\ p \in Nat /\ p <= n /\ r.len \in Nat /\ r.len >= 1
        /\ r.kind \in {"read", "write"}
    BY <1>1 DEF Calls
  <2>2. most = IF r.kind = "write" THEN r.len ELSE IF r.len <= n - p THEN r.len ELSE n - p
    BY DEF Lesser
  <2> HIDE DEF most, n, p, r
  <2>3. most \in 0..r.len /\ (r.kind = "write" => most = r.len)
        /\ (r.kind = "read" => p + most <= n /\ (most = 0 => p = n))
    BY <2>1, <2>2
  <2> QED BY <2>3 DEF n, p
<1> HIDE DEF most, r
<1>3. ASSUME NEW k \in {Failed} \cup (0..BatchUnits)
      PROVE  /\ R(k) \in Requests
             /\ Res(k) \in Worlds /\ Res(k).wb = w.wb /\ Res(k).ra = w.ra
             /\ SameCall(Res(k), w) /\ SameFile(Res(k), w)
             /\ Res(k).fx.mode = w.fx.mode /\ Res(k).fx.rpc = R(k)
             /\ Res(k).fx.faults = w.fx.faults /\ Res(k).fx.shorts = w.fx.shorts
  <2>1. R(k) \in Requests
    BY <1>1 DEF Requests
  <2> DEFINE v == R(k)
             y == PutRpc(w, v)
  <2>2. v \in Requests /\ w \in Worlds
    BY <2>1, <1>1
  <2>3. Res(k) = y
    OBVIOUS
  <2> HIDE DEF v, Res
  <2>4. /\ y \in Worlds /\ y.wb = w.wb /\ y.ra = w.ra /\ SameCall(y, w) /\ SameFile(y, w)
        /\ y.fx.mode = w.fx.mode /\ y.fx.rpc = v
        /\ y.fx.faults = w.fx.faults /\ y.fx.shorts = w.fx.shorts
    BY <2>2, RpcParts
  <2> QED BY <2>1, <2>3, <2>4 DEF v
<1>4. ASSUME NEW k \in 0..most, k # 0 \/ r.kind = "read", k # 0 \/ most = 0
      PROVE  ServedBy(w, Moved(k), k) /\ Moved(k).fx.shorts = w.fx.shorts
  <2> DEFINE y == Res(k)
  <2>0. k \in Nat /\ k \in 0..r.len /\ k # Failed /\ k \in 0..BatchUnits
    <3> DEFINE n == r.len
    <3>1. n \in 1..BatchUnits /\ BatchUnits \in Nat /\ most \in 0..n
      BY <1>1, <1>2
    <3> HIDE DEF n
    <3>2. most \in Nat /\ most <= n
      BY <3>1
    <3>3. k \in Nat /\ k <= n /\ k <= BatchUnits
      BY <3>1, <3>2
    <3>4. k # Failed
      BY <3>3 DEF Failed
    <3> QED BY <3>1, <3>3, <3>4 DEF n
  <2>1. /\ y \in Worlds /\ y.wb = w.wb /\ y.ra = w.ra /\ SameCall(y, w) /\ SameFile(y, w)
        /\ y.fx.mode = w.fx.mode /\ y.fx.rpc = R(k) /\ y.fx.shorts = w.fx.shorts
    BY <2>0, <1>3
  <2>2. CASE r.kind = "write"
    <3> DEFINE f == w.fx.file \o SubSeq(w.wb.buf[r.slot], 1, k)
               z == PutFile(y, f)
    <3>1. f \in Seq(Int)
      <4> DEFINE b == w.wb.buf[r.slot]
                 t == SubSeq(b, 1, k)
      <4>1. b \in Seq(Int) /\ Len(b) = BatchUnits
        <5>1. b \in [1..BatchUnits -> Int] /\ BatchUnits \in Nat
          BY <1>1
        <5> HIDE DEF b
        <5> QED BY <5>1
      <4>2. \A i \in 1..k : i \in 1..Len(b)
        BY <4>1, <2>0, <1>1
      <4>3. t \in Seq(Int)
        <5> HIDE DEF b
        <5> QED BY <4>1, <4>2, <2>0, SubSeqProperties
      <4> HIDE DEF t, b
      <4>4. w.fx.file \o t \in Seq(Int)
        BY <4>3, <1>1
      <4> QED BY <4>4 DEF t, b
    <3>2. Moved(k) = z
      BY <2>2, <2>1 DEF SameFile
    <3> HIDE DEF y, f
    <3>3. /\ z \in Worlds /\ z.wb = y.wb /\ z.ra = y.ra /\ SameCall(z, y)
          /\ z.fx.file = f /\ z.fx.open = y.fx.open /\ z.fx.pos = y.fx.pos
          /\ z.fx.mode = y.fx.mode /\ z.fx.rpc = y.fx.rpc
          /\ z.fx.shorts = y.fx.shorts
      BY <3>1, <2>1, FileParts
    <3> HIDE DEF z
    <3>4. k \in 1..r.len
      BY <2>0, <2>2, <1>4
    <3>5. ServedBy(w, z, k)
      BY <3>3, <3>4, <2>0, <2>1, <2>2 DEF ServedBy, SameCall, SameFile, r, f
    <3> HIDE DEF Moved
    <3> QED BY <3>2, <3>3, <3>5, <2>1
  <2>3. CASE r.kind = "read"
    <3> DEFINE p == w.fx.pos + k
               d == SubSeq(w.fx.file, w.fx.pos + 1, w.fx.pos + k)
               v == PutPos(y, p)
               z == PutData(v, r.slot, d)
    <3>1. p \in Nat /\ p <= Len(w.fx.file) /\ w.fx.pos <= p
      <4>1. w.fx.pos + most <= Len(w.fx.file) /\ k <= most /\ most \in Nat
        BY <1>2, <1>4, <2>3, <1>1
      <4> DEFINE a == w.fx.pos
                 c == Len(w.fx.file)
      <4>2. a \in Nat /\ c \in Nat /\ a + most <= c /\ k \in Nat /\ k <= most
        BY <4>1, <1>1, <2>0
      <4> HIDE DEF a, c
      <4>3. a + k \in Nat /\ a + k <= c /\ a <= a + k
        BY <4>1, <4>2
      <4> QED BY <4>3 DEF a, c
    <3>2. d \in Seq(Int)
      <4>1. \A i \in (w.fx.pos + 1)..p : i \in 1..Len(w.fx.file)
        <5> DEFINE a == w.fx.pos
                   c == Len(w.fx.file)
        <5>1. a \in Nat /\ p \in Nat /\ p <= c /\ c \in Nat
          BY <3>1, <1>1
        <5> HIDE DEF a, c, p
        <5>2. \A i \in (a + 1)..p : i \in 1..c
          BY <5>1
        <5> QED BY <5>2 DEF a, c
      <4> DEFINE f == w.fx.file
      <4>2. f \in Seq(Int) /\ \A i \in (w.fx.pos + 1)..p : i \in 1..Len(f)
        BY <4>1, <1>1
      <4>3. w.fx.pos + 1 \in Int /\ p \in Int /\ w.fx.pos + 1 <= p + 1
        <5> DEFINE a == w.fx.pos
        <5>1. a \in Nat /\ p \in Nat /\ a <= p
          BY <3>1, <1>1
        <5> HIDE DEF a, p
        <5>2. a + 1 \in Int /\ p \in Int /\ a + 1 <= p + 1
          BY <5>1
        <5> QED BY <5>2 DEF a
      <4> HIDE DEF f, p
      <4>4. SubSeq(f, w.fx.pos + 1, p) \in Seq(Int)
        BY <4>2, <4>3, SubSeqProperties
      <4> QED BY <4>4 DEF f, p
    <3>3. Moved(k) = z
      BY <2>3, <2>1 DEF SameFile
    <3> HIDE DEF y, p, d
    <3>4. /\ v \in Worlds /\ v.wb = y.wb /\ v.ra = y.ra /\ SameCall(v, y)
          /\ v.fx.file = y.fx.file /\ v.fx.open = y.fx.open /\ v.fx.pos = p
          /\ v.fx.mode = y.fx.mode /\ v.fx.rpc = y.fx.rpc
          /\ v.fx.shorts = y.fx.shorts
      BY <3>1, <2>1, PosParts
    <3> HIDE DEF v
    <3>5. /\ z \in Worlds /\ z.wb = v.wb /\ z.fx = v.fx /\ SameCall(z, v)
          /\ z.ra = [v.ra EXCEPT !.slot[r.slot] = [data |-> d, off |-> v.ra.slot[r.slot].off]]
      BY <3>2, <3>4, <1>1, DataParts
    <3> HIDE DEF z
    <3>6. z.ra = [w.ra EXCEPT !.slot[r.slot] = [data |-> d, off |-> w.ra.slot[r.slot].off]]
      BY <3>4, <3>5, <2>1
    <3>7. k = 0 => w.fx.pos = Len(w.fx.file)
      BY <1>2, <1>4, <2>3
    <3>8. ServedBy(w, z, k)
      BY <3>1, <3>4, <3>5, <3>6, <3>7, <2>0, <2>1, <2>3 DEF ServedBy, SameCall, SameFile, r, d, p
    <3> HIDE DEF Moved
    <3> QED BY <3>3, <3>4, <3>5, <3>8, <2>1
  <2> QED BY <2>2, <2>3, <1>1 DEF Calls
<1>5. ASSUME NEW n \in 1..w.fx.faults
      PROVE  ServedBy(w, LessFaults(Res(Failed)), Failed)
  <2> DEFINE y == Res(Failed)
             z == LessFaults(y)
  <2>1. /\ y \in Worlds /\ y.wb = w.wb /\ y.ra = w.ra /\ SameCall(y, w) /\ SameFile(y, w)
        /\ y.fx.mode = w.fx.mode /\ y.fx.rpc = R(Failed) /\ y.fx.faults > 0
    <3>1. Failed \in {Failed} \cup (0..BatchUnits)
      OBVIOUS
    <3>2. w.fx.faults > 0
      <4> DEFINE m == w.fx.faults
      <4>1. m \in Nat /\ n \in 1..m
        BY <1>1
      <4> HIDE DEF m
      <4>2. m > 0
        BY <4>1
      <4> QED BY <4>2 DEF m
    <3> QED BY <3>1, <3>2, <1>3
  <2> HIDE DEF y
  <2>2. /\ z \in Worlds /\ z.wb = y.wb /\ z.ra = y.ra /\ SameCall(z, y) /\ SameFile(z, y)
        /\ z.fx.mode = y.fx.mode /\ z.fx.rpc = y.fx.rpc
    BY <2>1, FaultsParts
  <2> HIDE DEF z
  <2>3. ServedBy(w, z, Failed)
    BY <2>1, <2>2 DEF ServedBy, SameCall, SameFile, r
  <2> QED BY <2>3 DEF z, y
<1>6. ASSUME NEW k \in 1..(most - 1), w.fx.shorts > 0
      PROVE  ServedBy(w, LessShorts(Moved(k)), k) /\ k \in 0..BatchUnits
  <2> DEFINE y == Moved(k)
             z == LessShorts(y)
  <2>0. k \in 0..most /\ k # 0 /\ k \in 0..BatchUnits
    <3> DEFINE n == r.len
               d == BatchUnits
    <3>1. n \in 1..d /\ d \in Nat /\ most \in 0..n
      BY <1>1, <1>2
    <3> HIDE DEF n, d
    <3>2. n \in Nat /\ most \in Nat /\ most <= n /\ n <= d
      BY <3>1
    <3>3. k \in 0..most /\ k # 0 /\ k \in 0..d
      BY <3>1, <3>2
    <3> QED BY <3>3 DEF d
  <2>1. ServedBy(w, y, k) /\ y.fx.shorts > 0
    <3>1. w.fx.shorts > 0
      BY <1>6
    <3> QED BY <3>1, <2>0, <1>4
  <2> HIDE DEF y
  <2>2. /\ z \in Worlds /\ z.wb = y.wb /\ z.ra = y.ra /\ SameCall(z, y) /\ SameFile(z, y)
        /\ z.fx.mode = y.fx.mode /\ z.fx.rpc = y.fx.rpc
    BY <2>1, ShortsParts DEF ServedBy
  <2> HIDE DEF z
  <2>3. ServedBy(w, z, k)
    BY <2>1, <2>2 DEF ServedBy, SameCall, SameFile, r
  <2> QED BY <2>0, <2>3 DEF z, y
<1>7. ServedBy(w, Moved(most), most) /\ most \in 0..BatchUnits
  <2>1. most \in 0..most /\ most \in 0..BatchUnits
    <3> DEFINE n == r.len
    <3>1. most \in 0..n /\ n \in 1..BatchUnits /\ BatchUnits \in Nat
      BY <1>1, <1>2
    <3> HIDE DEF n
    <3> QED BY <3>1
  <2>2. most # 0 \/ r.kind = "read"
    <3>1. r.kind = "read" \/ r.kind = "write"
      BY <1>1 DEF Calls
    <3>2. r.kind = "write" => most = r.len
      BY <1>2
    <3>3. r.len # 0
      BY <1>1
    <3> QED BY <3>1, <3>2, <3>3
  <2>3. most # 0 \/ most = 0
    OBVIOUS
  <2> QED BY <2>1, <2>2, <2>3, <1>4
<1> HIDE DEF Moved, Res
<1> QED BY <1>0, <1>5, <1>6, <1>7

LEMMA Piece ==
  ASSUME NEW S, NEW s \in Seq(S), NEW a \in Nat, NEW j \in Int, j <= Len(s)
  PROVE  /\ SubSeq(s, a + 1, j) \in Seq(S) /\ Len(SubSeq(s, a + 1, j)) \in Nat
         /\ Len(SubSeq(s, a + 1, j)) = IF a < j THEN j - a ELSE 0
         /\ \A i \in 1..(j - a) : SubSeq(s, a + 1, j)[i] = s[a + i]
<1> DEFINE n == Len(s)
<1>1. n \in Nat /\ j <= n
  OBVIOUS
<1>2. CASE a < j
  <2>1. a + 1 \in Int /\ j \in Int /\ a + 1 <= j + 1 /\ \A i \in (a + 1)..j : i \in 1..Len(s)
    <3> HIDE DEF n
    <3>1. \A i \in (a + 1)..j : i \in 1..n
      BY <1>1, <1>2
    <3> QED BY <3>1, <1>2 DEF n
  <2>2. /\ SubSeq(s, a + 1, j) \in Seq(S)
        /\ Len(SubSeq(s, a + 1, j)) = (IF a + 1 <= j THEN j - (a + 1) + 1 ELSE 0)
        /\ \A i \in 1..(j - (a + 1) + 1) : SubSeq(s, a + 1, j)[i] = s[(a + 1) + i - 1]
    BY <2>1, SubSeqProperties
  <2>3. j - (a + 1) + 1 = j - a /\ a + 1 <= j /\ j - a \in Nat
    BY <1>2
  <2>4. \A i \in 1..(j - a) : (a + 1) + i - 1 = a + i
    OBVIOUS
  <2>5. Len(SubSeq(s, a + 1, j)) = j - a
    BY <2>2, <2>3
  <2> QED BY <2>2, <2>3, <2>4, <2>5, <1>2
<1>3. CASE ~(a < j)
  <2> DEFINE t == SubSeq(s, a + 1, j)
  <2>1. t = <<>>
    <3>1. a + 1 > j
      BY <1>3
    <3> QED BY <3>1, SubSeqProperties
  <2>2. \A i \in 1..(j - a) : FALSE
    BY <1>3
  <2> HIDE DEF t
  <2>3. t \in Seq(S) /\ Len(t) = 0
    BY <2>1, EmptySeq
  <2> QED BY <2>2, <2>3, <1>3 DEF t
<1> QED BY <1>2, <1>3

(* What the setters of FileXio do.                                         *)
LEMMA ServedParts ==
  ASSUME NEW w \in Worlds
  PROVE  LET x == Served(w) IN
         /\ x \in Worlds /\ x.wb = w.wb /\ x.ra = w.ra /\ SameCall(x, w) /\ SameFile(x, w)
         /\ x.fx.mode = w.fx.mode /\ x.fx.rpc = NoRequest
         /\ x.fx.faults = w.fx.faults /\ x.fx.shorts = w.fx.shorts
<1>1. NoRequest \in Requests
  BY DEF NoRequest, Requests
<1>2. Served(w) = PutRpc(w, NoRequest)
  BY DEF Served, PutRpc
<1> QED BY <1>1, <1>2, RpcParts

LEMMA RetParts ==
  ASSUME NEW w \in Worlds, NEW rc \in Int
  PROVE  LET x == Ret(w, rc) IN
         /\ x \in Worlds /\ x.fx = w.fx /\ x.wb = w.wb /\ x.ra = w.ra
         /\ x.rc = rc /\ x.out = w.out /\ x.raw = w.raw /\ x.answered = w.answered
BY DEF Ret, Worlds

LEMMA ModeParts ==
  ASSUME NEW w \in Worlds, NEW m \in {"WAIT", "NOWAIT"}
  PROVE  LET x == SetMode(w, m) IN
         /\ x \in Worlds /\ x.wb = w.wb /\ x.ra = w.ra /\ SameCall(x, w) /\ SameFile(x, w)
         /\ x.fx.mode = m /\ x.fx.rpc = w.fx.rpc
         /\ x.fx.faults = w.fx.faults /\ x.fx.shorts = w.fx.shorts
BY DEF SetMode, Worlds, Clients, SameCall, SameFile

LEMMA FaultParts ==
  ASSUME NEW w \in Worlds, NEW n \in 1..w.fx.faults
  PROVE  LET x == Fault(w) IN
         /\ x \in Worlds /\ x.wb = w.wb /\ x.ra = w.ra /\ SameFile(x, w)
         /\ x.rc = Failed /\ x.out = w.out /\ x.raw = w.raw /\ x.answered = w.answered
         /\ x.fx.mode = w.fx.mode /\ x.fx.rpc = w.fx.rpc
<1>1. w.fx.faults - 1 \in 0..MaxFaults
  BY WorldParts, FileXioAssumption
<1>2. Failed \in Int
  BY DEF Failed
<1> QED BY <1>1, <1>2 DEF Fault, Worlds, Clients, SameFile

(* Only these fields matter for Sound.                                     *)
LEMMA SoundFrom ==
  ASSUME NEW w, Sound(w), NEW x \in Worlds, x.wb.fill = w.wb.fill, x.ra = w.ra,
         x.fx.open \in {0, w.fx.open}, x.fx.open = 0 => x.fx.rpc.st # "queued",
         x.fx.rpc = w.fx.rpc \/ x.fx.rpc.st # "queued",
         x.fx.open # 0 => x.fx.pos = w.fx.pos /\ Len(w.fx.file) <= Len(x.fx.file)
  PROVE  Sound(x)
<1>1. w \in Worlds /\ x \in Worlds
  BY DEF Sound
<1>2. x.fx.open # 0 => x.fx.pos <= Len(x.fx.file)
  <2> SUFFICES ASSUME x.fx.open # 0 PROVE x.fx.pos <= Len(x.fx.file)
    OBVIOUS
  <2>1. w.fx.open # 0 /\ w.fx.pos <= Len(w.fx.file)
    BY DEF Sound
  <2>2. w.fx.pos \in Nat /\ w.fx.file \in Seq(Int) /\ x.fx.file \in Seq(Int)
    BY <1>1, WorldParts
  <2>3. Len(w.fx.file) \in Nat /\ Len(x.fx.file) \in Nat
    BY <2>2
  <2> DEFINE a == w.fx.pos
             b == Len(w.fx.file)
             c == Len(x.fx.file)
  <2>4. a \in Nat /\ b \in Nat /\ c \in Nat /\ a <= b /\ b <= c /\ x.fx.pos = a
    BY <2>1, <2>2, <2>3
  <2> HIDE DEF a, b, c
  <2>5. x.fx.pos <= c
    BY <2>4
  <2> QED BY <2>5 DEF c
<1>3. Shape(x.ra)
  BY DEF Sound
<1>4. CASE x.fx.rpc = w.fx.rpc
  BY <1>1, <1>2, <1>3, <1>4, Zenon DEF Sound, Queued
<1>5. CASE x.fx.rpc.st # "queued"
  BY <1>1, <1>2, <1>3, <1>5, Zenon DEF Sound, Queued
<1> QED BY <1>4, <1>5

LEMMA ServeSound ==
  ASSUME NEW w, Sound(w), Busy(w), NEW k \in {Failed} \cup (0..BatchUnits),
         NEW x, ServedBy(w, x, k)
  PROVE  /\ Sound(x) /\ x.fx.rpc.st = "done" /\ x.fx.rpc.kind = w.fx.rpc.kind
         /\ x.fx.rpc.slot = w.fx.rpc.slot /\ x.fx.rpc.len = w.fx.rpc.len
         /\ x.fx.rpc.result = k /\ Len(w.fx.file) <= Len(x.fx.file)
<1> DEFINE r == w.fx.rpc
<1>1. /\ w \in Worlds /\ x \in Worlds /\ r.st = "queued" /\ w.fx.open # 0
      /\ x.wb = w.wb /\ x.fx.open = w.fx.open
  BY DEF Sound, Busy, ServedBy
<1>2. /\ r \in Requests /\ w.fx.file \in Seq(Int) /\ w.fx.pos \in Nat /\ x.fx.pos \in Nat
      /\ w.fx.pos <= Len(w.fx.file) /\ Len(w.fx.file) \in Nat
      /\ w.wb.buf \in [Slots -> [1..BatchUnits -> Int]] /\ w.ra.slot \in [Slots -> Buffers]
      /\ w.ra \in Caches
  BY <1>1, WorldParts DEF Sound
<1>3. r.kind \in Calls /\ r.slot \in Slots /\ r.len \in 1..BatchUnits
  <2> HIDE DEF r
  <2> QED BY <1>1, <1>2, RequestParts
<1>4. /\ x.fx.rpc.st = "done" /\ x.fx.rpc.kind = w.fx.rpc.kind
      /\ x.fx.rpc.slot = w.fx.rpc.slot /\ x.fx.rpc.len = w.fx.rpc.len
      /\ x.fx.rpc.result = k
  BY SMTT(30) DEF ServedBy
<1>5. CASE k = Failed
  <2>1. x.ra = w.ra /\ SameFile(x, w)
    BY <1>5 DEF ServedBy
  <2>2. Len(w.fx.file) <= Len(x.fx.file) /\ x.fx.pos = w.fx.pos
    BY <1>2, <2>1 DEF SameFile
  <2>3. Sound(x)
    BY <1>1, <1>4, <2>1, <2>2, SoundFrom
  <2> QED BY <1>4, <2>2, <2>3
<1>6. CASE k # Failed /\ r.kind = "write"
  <2>1. /\ k \in 1..r.len /\ x.fx.pos = w.fx.pos /\ x.ra = w.ra
        /\ x.fx.file = w.fx.file \o SubSeq(w.wb.buf[r.slot], 1, k)
    BY <1>6 DEF ServedBy
  <2> DEFINE b == w.wb.buf[r.slot]
             t == SubSeq(b, 1, k)
             f == w.fx.file
  <2>2. b \in Seq(Int) /\ Len(b) = BatchUnits /\ BatchUnits \in Nat
    <3>1. b \in [1..BatchUnits -> Int] /\ BatchUnits \in Nat
      BY <1>2, <1>3, FileXioAssumption
    <3> HIDE DEF b
    <3> QED BY <3>1
  <2>3. t \in Seq(Int)
    <3>1. k \in Int /\ k <= Len(b) /\ 0 \in Nat /\ 0 + 1 = 1
      <4> HIDE DEF r, b
      <4> QED BY <2>1, <2>2, <1>3
    <3> HIDE DEF b
    <3>2. SubSeq(b, 0 + 1, k) \in Seq(Int)
      BY <3>1, <2>2, Piece
    <3> QED BY <3>1, <3>2
  <2>4. f \in Seq(Int) /\ x.fx.file = f \o t
    BY <1>2, <2>1
  <2> HIDE DEF t, f, b, r
  <2>5. Len(f \o t) = Len(f) + Len(t) /\ Len(f) \in Nat /\ Len(t) \in Nat
    BY <2>3, <2>4, Joined
  <2>6. Len(f) <= Len(x.fx.file)
    BY <2>4, <2>5
  <2>7. Len(w.fx.file) <= Len(x.fx.file)
    BY <2>6 DEF f
  <2>8. Sound(x)
    BY <1>1, <1>4, <2>1, <2>7, SoundFrom
  <2> QED BY <1>4, <2>7, <2>8
<1>7. CASE k # Failed /\ r.kind = "read"
  <2>1. /\ x.fx.pos <= Len(w.fx.file) /\ x.fx.file = w.fx.file
        /\ x.ra = [w.ra EXCEPT !.slot[r.slot] =
                     [data |-> SubSeq(w.fx.file, w.fx.pos + 1, w.fx.pos + k),
                      off |-> w.ra.slot[r.slot].off]]
    BY <1>7 DEF ServedBy
  <2>2. w.ra.slot[r.slot].off = 0
    BY <1>1, <1>7 DEF Sound, Queued
  <2> DEFINE d == SubSeq(w.fx.file, w.fx.pos + 1, w.fx.pos + k)
             e == [data |-> d, off |-> 0]
  <2>3. /\ x.ra = [w.ra EXCEPT !.slot[r.slot] = e]
        /\ e.off = 0 /\ e.data = d
    BY <2>1, <2>2
  <2>4. x.ra.slot \in [Slots -> Buffers]
    BY <1>1, WorldParts
  <2> HIDE DEF e, d, r
  <2>5. x.ra.slot[r.slot] = e /\ \A s \in Slots : s # r.slot => x.ra.slot[s] = w.ra.slot[s]
    BY <1>2, <1>3, <2>3 DEF Caches
  <2>6. Shape(x.ra)
    <3>1. \A s \in Slots : w.ra.slot[s].off <= Len(w.ra.slot[s].data)
      BY DEF Sound, Shape
    <3>2. e.off <= Len(e.data)
      <4>1. e.data \in Seq(Int)
        BY <1>3, <2>4, <2>5 DEF Buffers
      <4> HIDE DEF e
      <4> QED BY <4>1, <2>3
    <3>3. \A s \in Slots : x.ra.slot[s].off <= Len(x.ra.slot[s].data)
      BY <3>1, <3>2, <2>5
    <3>4. x.ra.cur = w.ra.cur /\ x.ra.async = w.ra.async /\ x.ra.ready = w.ra.ready
      BY <1>2, <2>3 DEF Caches
    <3>5. w.ra.ready # NoSlot => w.ra.ready \in Slots /\ x.ra.slot[w.ra.ready].off = 0
      <4>1. w.ra.ready # NoSlot => w.ra.ready \in Slots /\ w.ra.slot[w.ra.ready].off = 0
        BY <1>2 DEF Caches, Sound, Shape
      <4> QED BY <4>1, <2>3, <2>5
    <3> QED BY <3>3, <3>4, <3>5 DEF Sound, Shape
  <2>7. Len(w.fx.file) <= Len(x.fx.file)
    BY <1>2, <2>1
  <2>8. Sound(x)
    BY <1>1, <1>4, <2>1, <2>6, Zenon DEF Sound, Queued
  <2> QED BY <1>4, <2>7, <2>8
<1> QED BY <1>3, <1>5, <1>6, <1>7 DEF Calls

LEMMA IdleOutcome ==
  ASSUME NEW w, Sound(w), NEW x \in Idle(w)
  PROVE  Rested(w, x) /\ SameCall(x, w)
<1>1. PICK v \in (IF Busy(w) THEN ServeRequest(w) ELSE {w}) : x = Served(v)
  BY DEF Idle
<1>2. CASE ~Busy(w)
  <2>1. v = w /\ w \in Worlds
    BY <1>1, <1>2 DEF Sound
  <2>2. /\ x \in Worlds /\ x.wb = w.wb /\ x.ra = w.ra /\ SameCall(x, w) /\ SameFile(x, w)
        /\ x.fx.mode = w.fx.mode /\ x.fx.rpc = NoRequest
    BY <1>1, <2>1, ServedParts
  <2>3. NoRequest.st # "queued" /\ x.fx.open = w.fx.open /\ x.fx.pos = w.fx.pos
        /\ x.fx.file = w.fx.file
    BY <2>2 DEF NoRequest, SameFile
  <2>4. Len(w.fx.file) <= Len(x.fx.file)
    <3>1. w.fx.file \in Seq(Int)
      BY <2>1, WorldParts
    <3>2. Len(w.fx.file) \in Nat
      BY <3>1
    <3> QED BY <3>2, <2>3
  <2>5. Sound(x)
    BY <2>2, <2>3, <2>4, SoundFrom
  <2> QED BY <1>2, <2>2, <2>3, <2>5 DEF Rested
<1>3. CASE Busy(w)
  <2>1. v \in ServeRequest(w)
    BY <1>1, <1>3
  <2>2. PICK k \in {Failed} \cup (0..BatchUnits) : ServedBy(w, v, k)
    BY <1>3, <2>1, ServeOutcome
  <2>3. Sound(v)
    BY <1>3, <2>2, ServeSound
  <2>4. v \in Worlds /\ v.wb = w.wb /\ v.fx.open = w.fx.open /\ v.fx.mode = w.fx.mode
        /\ SameCall(v, w)
    BY <2>2 DEF ServedBy
  <2>5. /\ x \in Worlds /\ x.wb = v.wb /\ x.ra = v.ra /\ SameCall(x, v) /\ SameFile(x, v)
        /\ x.fx.mode = v.fx.mode /\ x.fx.rpc = NoRequest
    BY <1>1, <2>4, ServedParts
  <2>6. NoRequest.st # "queued" /\ x.fx.open = v.fx.open /\ x.fx.pos = v.fx.pos
        /\ x.fx.file = v.fx.file
    BY <2>5 DEF NoRequest, SameFile
  <2>7. Len(v.fx.file) <= Len(x.fx.file)
    <3>1. v.fx.file \in Seq(Int)
      BY <2>4, WorldParts
    <3>2. Len(v.fx.file) \in Nat
      BY <3>1
    <3> QED BY <3>2, <2>6
  <2>8. Sound(x)
    BY <2>3, <2>5, <2>6, <2>7, SoundFrom
  <2>9. SameCall(x, w)
    BY <2>4, <2>5 DEF SameCall
  <2> QED BY <1>3, <2>2, <2>4, <2>5, <2>6, <2>8, <2>9 DEF Rested
<1> QED BY <1>2, <1>3

(* The calls of the client.                                                *)
LEMMA AnswersParts ==
  ASSUME NEW w \in Worlds, NEW rc \in Fds \cup {0, Failed}
  PROVE  LET x == Answers(w, rc) IN
         /\ x \in Worlds /\ x.wb = w.wb /\ x.ra = w.ra /\ x.rc = rc /\ x.fx.last = rc
         /\ x.out = w.out /\ x.raw = w.raw /\ x.answered = w.answered
         /\ x.fx.mode = w.fx.mode /\ x.fx.rpc = w.fx.rpc /\ x.fx.faults = w.fx.faults
         /\ x.fx.open = w.fx.open /\ x.fx.pos = w.fx.pos /\ x.fx.file = w.fx.file
<1> DEFINE c == [w.fx EXCEPT !.last = rc]
           x == [w EXCEPT !.rc = rc, !.fx = c]
<1>1. w.fx \in Clients /\ rc \in Int
  BY FileXioAssumption DEF Worlds, Failed
<1>2. /\ c \in Clients /\ c.mode = w.fx.mode /\ c.rpc = w.fx.rpc /\ c.faults = w.fx.faults
      /\ c.open = w.fx.open /\ c.pos = w.fx.pos /\ c.file = w.fx.file /\ c.last = rc
  BY <1>1 DEF Clients
<1>3. Answers(w, rc) = x
  BY DEF Answers, Worlds
<1> HIDE DEF c
<1>4. /\ x \in Worlds /\ x.wb = w.wb /\ x.ra = w.ra /\ x.fx = c
      /\ x.rc = rc /\ x.out = w.out /\ x.raw = w.raw /\ x.answered = w.answered
  BY <1>1, <1>2 DEF Worlds
<1> HIDE DEF x
<1> QED BY <1>2, <1>3, <1>4

LEMMA RefuseParts ==
  ASSUME NEW w \in Worlds, NEW n \in 1..w.fx.faults
  PROVE  LET x == Refuse(w) IN
         /\ x \in Worlds /\ x.wb = w.wb /\ x.ra = w.ra /\ x.rc = Failed /\ x.fx.last = Failed
         /\ x.out = w.out /\ x.raw = w.raw /\ x.answered = w.answered
         /\ x.fx.mode = w.fx.mode /\ x.fx.rpc = w.fx.rpc
         /\ x.fx.open = w.fx.open /\ x.fx.pos = w.fx.pos /\ x.fx.file = w.fx.file
<1> DEFINE u == Fault(w)
<1>1. /\ u \in Worlds /\ u.wb = w.wb /\ u.ra = w.ra /\ SameFile(u, w)
      /\ u.out = w.out /\ u.raw = w.raw /\ u.answered = w.answered
      /\ u.fx.mode = w.fx.mode /\ u.fx.rpc = w.fx.rpc
  BY FaultParts
<1>2. Refuse(w) = Answers(u, Failed)
  BY DEF Refuse
<1> HIDE DEF u
<1>3. LET x == Answers(u, Failed) IN
      /\ x \in Worlds /\ x.wb = u.wb /\ x.ra = u.ra /\ x.rc = Failed /\ x.fx.last = Failed
      /\ x.out = u.out /\ x.raw = u.raw /\ x.answered = u.answered
      /\ x.fx.mode = u.fx.mode /\ x.fx.rpc = u.fx.rpc
      /\ x.fx.open = u.fx.open /\ x.fx.pos = u.fx.pos /\ x.fx.file = u.fx.file
  BY <1>1, AnswersParts
<1> QED BY <1>1, <1>2, <1>3 DEF SameFile

LEMMA OpenParts ==
  ASSUME NEW w \in Worlds, NEW fd \in Fds, NEW f \in Seq(Int)
  PROVE  LET x == PutOpen(w, fd, f) IN
         /\ x \in Worlds /\ x.wb = w.wb /\ x.ra = w.ra
         /\ x.rc = fd /\ x.out = w.out /\ x.raw = w.raw /\ x.answered = w.answered
         /\ x.fx.mode = w.fx.mode /\ x.fx.rpc = w.fx.rpc /\ x.fx.last = fd
         /\ x.fx.open = fd /\ x.fx.pos = 0 /\ x.fx.file = f
<1> DEFINE u == Answers(w, fd)
           c == [u.fx EXCEPT !.open = fd, !.pos = 0, !.file = f]
           x == [u EXCEPT !.fx = c]
<1>0. /\ u \in Worlds /\ u.wb = w.wb /\ u.ra = w.ra /\ u.rc = fd /\ u.fx.last = fd
      /\ u.out = w.out /\ u.raw = w.raw /\ u.answered = w.answered
      /\ u.fx.mode = w.fx.mode /\ u.fx.rpc = w.fx.rpc
  BY AnswersParts
<1> HIDE DEF u
<1>1. u.fx \in Clients /\ fd \in Fds \cup {0} /\ 0 \in Nat
  BY <1>0 DEF Worlds
<1>2. /\ c \in Clients /\ c.mode = u.fx.mode /\ c.rpc = u.fx.rpc /\ c.last = u.fx.last
      /\ c.open = fd /\ c.pos = 0 /\ c.file = f
  BY <1>1 DEF Clients
<1>3. PutOpen(w, fd, f) = x
  BY <1>0 DEF PutOpen, Worlds, u
<1> HIDE DEF c
<1>4. /\ x \in Worlds /\ x.wb = u.wb /\ x.ra = u.ra /\ x.fx = c
      /\ x.rc = u.rc /\ x.out = u.out /\ x.raw = u.raw /\ x.answered = u.answered
  BY <1>0, <1>2 DEF Worlds
<1> HIDE DEF x
<1> QED BY <1>0, <1>2, <1>3, <1>4

LEMMA OpenOutcome ==
  ASSUME NEW w, Sound(w), w.fx.open = 0, NEW fd \in Fds, NEW f \in Seq(Int),
         NEW x \in OpenCall(w, fd, f)
  PROVE  /\ Sound(x) /\ x.wb = w.wb /\ x.ra = w.ra /\ x.fx.mode = w.fx.mode
         /\ x.out = w.out /\ x.raw = w.raw /\ x.answered = w.answered /\ x.fx.rpc = NoRequest
         /\ \/ /\ x.rc = fd /\ x.fx.last = fd
               /\ x.fx.open = fd /\ x.fx.pos = 0 /\ x.fx.file = f
            \/ /\ x.rc = Failed /\ x.fx.open = w.fx.open /\ x.fx.pos = w.fx.pos
               /\ x.fx.file = w.fx.file
<1>1. PICK v \in Idle(w) : \/ x = PutOpen(v, fd, f)
                           \/ \E n \in 1..v.fx.faults : x = Refuse(v)
  BY DEF OpenCall, After, PutOpen
<1>2. Rested(w, v) /\ SameCall(v, w)
  BY IdleOutcome
<1>3. ~Busy(w)
  BY DEF Sound, Busy
<1>4. /\ Sound(v) /\ v \in Worlds /\ v.wb = w.wb /\ v.ra = w.ra /\ v.fx.mode = w.fx.mode
      /\ v.fx.rpc = NoRequest /\ SameFile(v, w) /\ NoRequest.st # "queued"
  BY <1>2, <1>3 DEF Rested, Sound, NoRequest
<1>5. CASE x = PutOpen(v, fd, f)
  <2>1. /\ x \in Worlds /\ x.wb = v.wb /\ x.ra = v.ra
        /\ x.rc = fd /\ x.out = v.out /\ x.raw = v.raw /\ x.answered = v.answered
        /\ x.fx.mode = v.fx.mode /\ x.fx.rpc = v.fx.rpc /\ x.fx.last = fd
        /\ x.fx.open = fd /\ x.fx.pos = 0 /\ x.fx.file = f
    BY <1>4, <1>5, OpenParts
  <2>2. 0 <= Len(f)
    OBVIOUS
  <2>3. Shape(x.ra)
    BY <1>4, <2>1, Zenon DEF Sound
  <2>4. fd # 0
    BY FileXioAssumption
  <2>5. x.fx.pos <= Len(x.fx.file)
    BY <2>1, <2>2
  <2>6. x.fx.rpc.st # "queued"
    BY <1>4, <2>1
  <2>7. Sound(x)
    BY <2>1, <2>3, <2>4, <2>5, <2>6, Zenon DEF Sound, Queued
  <2> QED BY <1>2, <1>4, <2>1, <2>7 DEF SameCall
<1>6. ASSUME NEW n \in 1..v.fx.faults, x = Refuse(v)
      PROVE  /\ Sound(x) /\ x.wb = w.wb /\ x.ra = w.ra /\ x.fx.mode = w.fx.mode
             /\ x.out = w.out /\ x.raw = w.raw /\ x.answered = w.answered
             /\ x.fx.rpc = NoRequest /\ x.rc = Failed /\ x.fx.open = w.fx.open
             /\ x.fx.pos = w.fx.pos /\ x.fx.file = w.fx.file
  <2>1. /\ x \in Worlds /\ x.wb = v.wb /\ x.ra = v.ra /\ x.rc = Failed
        /\ x.out = v.out /\ x.raw = v.raw /\ x.answered = v.answered
        /\ x.fx.mode = v.fx.mode /\ x.fx.rpc = v.fx.rpc
        /\ x.fx.open = v.fx.open /\ x.fx.pos = v.fx.pos /\ x.fx.file = v.fx.file
    BY <1>4, <1>6, RefuseParts
  <2>2. Len(v.fx.file) <= Len(x.fx.file)
    <3>1. v.fx.file \in Seq(Int) /\ x.fx.file = v.fx.file
      BY <1>4, <2>1, WorldParts
    <3> QED BY <3>1
  <2>3. Sound(x)
    BY <1>4, <2>1, <2>2, SoundFrom
  <2> QED BY <1>2, <1>4, <2>1, <2>3 DEF SameCall, SameFile
<1> QED BY <1>1, <1>5, <1>6

LEMMA ClosedParts ==
  ASSUME NEW w \in Worlds
  PROVE  LET x == PutClosed(w) IN
         /\ x \in Worlds /\ x.wb = w.wb /\ x.ra = w.ra
         /\ x.rc = 0 /\ x.out = w.out /\ x.raw = w.raw /\ x.answered = w.answered
         /\ x.fx.mode = w.fx.mode /\ x.fx.rpc = w.fx.rpc /\ x.fx.faults = w.fx.faults
         /\ x.fx.open = 0 /\ x.fx.pos = w.fx.pos /\ x.fx.file = w.fx.file
<1> DEFINE u == Answers(w, 0)
           c == [u.fx EXCEPT !.open = 0]
           x == [u EXCEPT !.fx = c]
<1>0. /\ u \in Worlds /\ u.wb = w.wb /\ u.ra = w.ra /\ u.rc = 0
      /\ u.out = w.out /\ u.raw = w.raw /\ u.answered = w.answered
      /\ u.fx.mode = w.fx.mode /\ u.fx.rpc = w.fx.rpc /\ u.fx.faults = w.fx.faults
      /\ u.fx.pos = w.fx.pos /\ u.fx.file = w.fx.file
  BY AnswersParts
<1> HIDE DEF u
<1>1. u.fx \in Clients /\ 0 \in Fds \cup {0}
  BY <1>0 DEF Worlds
<1>2. /\ c \in Clients /\ c.mode = u.fx.mode /\ c.rpc = u.fx.rpc /\ c.faults = u.fx.faults
      /\ c.open = 0 /\ c.pos = u.fx.pos /\ c.file = u.fx.file
  BY <1>1 DEF Clients
<1>3. PutClosed(w) = x
  BY <1>0 DEF PutClosed, Worlds, u
<1> HIDE DEF c
<1>4. /\ x \in Worlds /\ x.wb = u.wb /\ x.ra = u.ra /\ x.fx = c
      /\ x.rc = u.rc /\ x.out = u.out /\ x.raw = u.raw /\ x.answered = u.answered
  BY <1>0, <1>2 DEF Worlds
<1> HIDE DEF x
<1> QED BY <1>0, <1>2, <1>3, <1>4

LEMMA CloseOutcome ==
  ASSUME NEW w, Sound(w), NEW x \in CloseCall(w)
  PROVE  ClosedTo(w, x)
<1>1. PICK v \in Idle(w) : \/ x = PutClosed(v)
                           \/ \E n \in 1..PutClosed(v).fx.faults : x = Refuse(PutClosed(v))
  <2>1. \E v \in Idle(w) : \/ x = PutClosed(v)
                           \/ \E n \in 1..v.fx.faults : x = Refuse(PutClosed(v))
    BY DEF CloseCall, After, PutClosed
  <2>2. \A v \in Idle(w) : PutClosed(v).fx.faults = v.fx.faults
    <3> TAKE v \in Idle(w)
    <3>1. v \in Worlds
      BY IdleOutcome DEF Rested, Sound
    <3> QED BY <3>1, ClosedParts
  <2> QED BY <2>1, <2>2
<1>2. Rested(w, v) /\ SameCall(v, w)
  BY IdleOutcome
<1>3. /\ Sound(v) /\ v \in Worlds /\ v.wb = w.wb /\ v.fx.mode = w.fx.mode
      /\ v.fx.rpc = NoRequest /\ NoRequest.st # "queued" /\ v.out = w.out
  BY <1>2 DEF Rested, Sound, NoRequest, SameCall
<1> DEFINE y == PutClosed(v)
<1>4. /\ y \in Worlds /\ y.wb = v.wb /\ y.ra = v.ra /\ y.rc = 0 /\ y.out = v.out
      /\ y.fx.mode = v.fx.mode /\ y.fx.rpc = v.fx.rpc
      /\ y.fx.open = 0 /\ y.fx.pos = v.fx.pos /\ y.fx.file = v.fx.file
  BY <1>3, ClosedParts
<1>5. x = y \/ \E n \in 1..y.fx.faults : x = Refuse(y)
  BY <1>1
<1> HIDE DEF y
<1>6. /\ x \in Worlds /\ x.wb = v.wb /\ x.ra = v.ra /\ x.rc \in {0, Failed} /\ x.out = v.out
      /\ x.fx.mode = v.fx.mode /\ x.fx.rpc = v.fx.rpc
      /\ x.fx.open = 0 /\ x.fx.pos = v.fx.pos /\ x.fx.file = v.fx.file
  <2>1. CASE x = y
    BY <1>4, <2>1
  <2>2. ASSUME NEW n \in 1..y.fx.faults, x = Refuse(y)
        PROVE  /\ x \in Worlds /\ x.wb = v.wb /\ x.ra = v.ra /\ x.rc = Failed /\ x.out = v.out
               /\ x.fx.mode = v.fx.mode /\ x.fx.rpc = v.fx.rpc
               /\ x.fx.open = 0 /\ x.fx.pos = v.fx.pos /\ x.fx.file = v.fx.file
    BY <1>4, <2>2, RefuseParts
  <2> QED BY <1>5, <2>1, <2>2
<1>7. Sound(x)
  BY <1>3, <1>6, SoundFrom
<1> QED BY <1>2, <1>3, <1>6, <1>7 DEF ClosedTo

LEMMA WriteOutcome ==
  ASSUME NEW w, Sound(w), NEW data \in Seq(Int), NEW off \in Nat,
         NEW x \in WriteCalls(w, data, off)
  PROVE  Written(w, x, data, off)
<1> DEFINE P(v, j) == SubSeq(data, off + 1, j)
           U(v, j) == PutFile(SetMode(v, "WAIT"), SetMode(v, "WAIT").fx.file \o P(v, j))
<1>1. PICK v \in Idle(w) : \/ x = Ret(U(v, Len(data)), 0)
                           \/ \E j \in {n \in off..(Len(data) - 1) : v.fx.faults > 0} :
                                 x = Fault(U(v, j))
  BY DEF WriteCalls, After, PutFile
<1>2. Rested(w, v) /\ SameCall(v, w)
  BY IdleOutcome
<1>3. /\ Sound(v) /\ v \in Worlds /\ v.wb = w.wb /\ v.fx.open = w.fx.open
      /\ v.fx.rpc = NoRequest /\ NoRequest.st # "queued" /\ v.out = w.out
      /\ v.fx.file \in Seq(Int) /\ v.fx.faults \in 0..MaxFaults
  <2>1. v \in Worlds
    BY <1>2 DEF Rested, Sound
  <2> QED BY <1>2, <2>1, WorldParts DEF Rested, Sound, NoRequest, SameCall
<1>4. ASSUME NEW j \in Int, j <= Len(data)
      PROVE  LET y == U(v, j) IN
             /\ y \in Worlds /\ y.wb = v.wb /\ y.ra = v.ra /\ y.out = v.out
             /\ y.fx.mode = "WAIT" /\ y.fx.rpc = v.fx.rpc /\ y.fx.faults = v.fx.faults
             /\ y.fx.open = v.fx.open /\ y.fx.pos = v.fx.pos
             /\ y.fx.file = v.fx.file \o P(v, j) /\ Len(v.fx.file) <= Len(y.fx.file)
  <2> DEFINE u == SetMode(v, "WAIT")
             t == P(v, j)
             f == v.fx.file
             y == PutFile(u, f \o t)
  <2>1. /\ u \in Worlds /\ u.wb = v.wb /\ u.ra = v.ra /\ SameCall(u, v) /\ SameFile(u, v)
        /\ u.fx.mode = "WAIT" /\ u.fx.rpc = v.fx.rpc /\ u.fx.faults = v.fx.faults
    BY <1>3, ModeParts
  <2>2. U(v, j) = y
    BY <2>1 DEF SameFile
  <2>3. t \in Seq(Int) /\ f \in Seq(Int)
    BY <1>3, <1>4, Piece
  <2> HIDE DEF u, t, f, U
  <2>4. f \o t \in Seq(Int) /\ Len(f) <= Len(f \o t)
    <3>1. f \o t \in Seq(Int) /\ Len(f \o t) = Len(f) + Len(t) /\ Len(f) \in Nat /\ Len(t) \in Nat
      BY <2>3, Joined
    <3> QED BY <3>1
  <2>5. /\ y \in Worlds /\ y.wb = u.wb /\ y.ra = u.ra /\ SameCall(y, u)
        /\ y.fx.file = f \o t /\ y.fx.open = u.fx.open /\ y.fx.pos = u.fx.pos
        /\ y.fx.mode = u.fx.mode /\ y.fx.rpc = u.fx.rpc
        /\ y.fx.faults = u.fx.faults
    BY <2>1, <2>4, FileParts
  <2> HIDE DEF y
  <2> QED BY <2>1, <2>2, <2>4, <2>5 DEF SameCall, SameFile, t, f
<1> HIDE DEF U, P
<1>5. ASSUME x = Ret(U(v, Len(data)), 0)
      PROVE  /\ Sound(x) /\ x.wb = w.wb /\ x.ra = v.ra
             /\ x.fx.mode = "WAIT" /\ x.fx.rpc = NoRequest
             /\ x.fx.open = w.fx.open /\ x.fx.pos = v.fx.pos /\ x.out = w.out
             /\ x.rc = 0 /\ x.fx.file = v.fx.file \o P(v, Len(data))
  <2> DEFINE y == U(v, Len(data))
  <2>1. Len(data) \in Int /\ Len(data) <= Len(data) /\ 0 \in Int
    OBVIOUS
  <2>2. /\ y \in Worlds /\ y.wb = v.wb /\ y.ra = v.ra /\ y.out = v.out
        /\ y.fx.mode = "WAIT" /\ y.fx.rpc = v.fx.rpc
        /\ y.fx.open = v.fx.open /\ y.fx.pos = v.fx.pos
        /\ y.fx.file = v.fx.file \o P(v, Len(data)) /\ Len(v.fx.file) <= Len(y.fx.file)
    BY <1>4, <2>1
  <2> HIDE DEF y
  <2>3. x \in Worlds /\ x.fx = y.fx /\ x.wb = y.wb /\ x.ra = y.ra /\ x.rc = 0 /\ x.out = y.out
    BY <1>5, <2>1, <2>2, RetParts DEF y
  <2>4. Sound(x)
    BY <1>3, <2>2, <2>3, SoundFrom
  <2> QED BY <1>3, <2>2, <2>3, <2>4
<1>6. ASSUME NEW j \in {n \in off..(Len(data) - 1) : v.fx.faults > 0}, x = Fault(U(v, j))
      PROVE  /\ Sound(x) /\ x.wb = w.wb /\ x.ra = v.ra
             /\ x.fx.mode = "WAIT" /\ x.fx.rpc = NoRequest
             /\ x.fx.open = w.fx.open /\ x.fx.pos = v.fx.pos /\ x.out = w.out
             /\ x.rc = Failed /\ x.fx.file = v.fx.file \o P(v, j)
             /\ j \in off..(Len(data) - 1)
  <2> DEFINE y == U(v, j)
  <2>1. j \in Int /\ j <= Len(data)
    OBVIOUS
  <2>2. /\ y \in Worlds /\ y.wb = v.wb /\ y.ra = v.ra /\ y.out = v.out
        /\ y.fx.mode = "WAIT" /\ y.fx.rpc = v.fx.rpc /\ y.fx.faults = v.fx.faults
        /\ y.fx.open = v.fx.open /\ y.fx.pos = v.fx.pos
        /\ y.fx.file = v.fx.file \o P(v, j) /\ Len(v.fx.file) <= Len(y.fx.file)
    BY <1>4, <2>1
  <2>3. x = Fault(y) /\ 1 \in 1..y.fx.faults
    <3>1. v.fx.faults > 0 /\ v.fx.faults \in Int
      BY <1>3
    <3> HIDE DEF y
    <3> QED BY <1>6, <2>2, <3>1 DEF y
  <2> HIDE DEF y
  <2>4. /\ x \in Worlds /\ x.wb = y.wb /\ x.ra = y.ra /\ SameFile(x, y)
        /\ x.rc = Failed /\ x.out = y.out /\ x.fx.mode = y.fx.mode /\ x.fx.rpc = y.fx.rpc
    BY <2>2, <2>3, FaultParts
  <2>5. Sound(x)
    BY <1>3, <2>2, <2>4, SoundFrom DEF SameFile
  <2> QED BY <1>3, <2>2, <2>4, <2>5 DEF SameFile
<1>7. /\ Sound(x) /\ x.wb = w.wb /\ x.ra = v.ra
      /\ x.fx.mode = "WAIT" /\ x.fx.rpc = NoRequest
      /\ x.fx.open = w.fx.open /\ x.fx.pos = v.fx.pos /\ x.out = w.out
      /\ \/ x.rc = 0 /\ x.fx.file = v.fx.file \o P(v, Len(data))
         \/ x.rc = Failed /\ \E j \in off..(Len(data) - 1) : x.fx.file = v.fx.file \o P(v, j)
  <2>1. CASE x = Ret(U(v, Len(data)), 0)
    BY <1>5, <2>1
  <2>2. CASE \E j \in {n \in off..(Len(data) - 1) : v.fx.faults > 0} : x = Fault(U(v, j))
    BY <1>6, <2>2
  <2> QED BY <1>1, <2>1, <2>2
<1> QED BY <1>2, <1>7 DEF Written, P

LEMMA SoundQuiet ==
  ASSUME NEW x \in Worlds, Shape(x.ra), x.fx.rpc.st # "queued",
         x.fx.open # 0 => x.fx.pos <= Len(x.fx.file)
  PROVE  Sound(x)
BY DEF Sound, Queued

LEMMA ReadParts ==
  ASSUME NEW w \in Worlds, NEW k \in Nat, NEW rc \in Int, NEW raw \in Seq(Int)
  PROVE  LET x == PutRead(w, k, rc, raw) IN
         /\ x \in Worlds /\ x.wb = w.wb /\ x.ra = w.ra
         /\ x.rc = rc /\ x.out = w.out /\ x.raw = raw /\ x.answered = w.answered
         /\ x.fx.mode = w.fx.mode /\ x.fx.rpc = w.fx.rpc /\ x.fx.open = w.fx.open
         /\ x.fx.pos = w.fx.pos + k /\ x.fx.file = w.fx.file
         /\ x.fx.faults = w.fx.faults /\ x.fx.shorts = w.fx.shorts
<1> DEFINE p == w.fx.pos + k
           c == [w.fx EXCEPT !.pos = p]
           x == [w EXCEPT !.rc = rc, !.fx = c, !.raw = raw]
<1>1. w.fx \in Clients /\ w.fx.pos \in Nat
  BY DEF Worlds, Clients
<1>2. p \in Nat
  BY <1>1
<1> HIDE DEF p
<1>3. /\ c \in Clients /\ c.mode = w.fx.mode /\ c.rpc = w.fx.rpc /\ c.open = w.fx.open
      /\ c.pos = p /\ c.file = w.fx.file /\ c.faults = w.fx.faults /\ c.shorts = w.fx.shorts
  BY <1>1, <1>2 DEF Clients
<1>4. PutRead(w, k, rc, raw) = x
  BY DEF PutRead, Worlds, p
<1> HIDE DEF c
<1>5. /\ x \in Worlds /\ x.wb = w.wb /\ x.ra = w.ra /\ x.fx = c
      /\ x.rc = rc /\ x.out = w.out /\ x.raw = raw /\ x.answered = w.answered
  BY <1>3 DEF Worlds
<1> HIDE DEF x
<1> QED BY <1>3, <1>4, <1>5 DEF p

LEMMA QueuedParts ==
  ASSUME NEW w \in Worlds, NEW v \in Requests
  PROVE  LET x == PutQueued(w, v) IN
         /\ x \in Worlds /\ x.wb = w.wb /\ x.ra = w.ra
         /\ x.rc = 0 /\ x.out = w.out /\ x.raw = w.raw /\ x.answered = w.answered
         /\ x.fx.mode = w.fx.mode /\ x.fx.rpc = v /\ SameFile(x, w)
<1> DEFINE c == [w.fx EXCEPT !.rpc = v]
           x == [w EXCEPT !.rc = 0, !.fx = c]
<1>1. w.fx \in Clients /\ 0 \in Int
  BY DEF Worlds
<1>2. /\ c \in Clients /\ c.mode = w.fx.mode /\ c.rpc = v /\ c.open = w.fx.open
      /\ c.pos = w.fx.pos /\ c.file = w.fx.file /\ c.last = w.fx.last
  BY <1>1 DEF Clients
<1>3. PutQueued(w, v) = x
  BY DEF PutQueued, Worlds
<1> HIDE DEF c
<1>4. /\ x \in Worlds /\ x.wb = w.wb /\ x.ra = w.ra /\ x.fx = c
      /\ x.rc = 0 /\ x.out = w.out /\ x.raw = w.raw /\ x.answered = w.answered
  BY <1>1, <1>2 DEF Worlds
<1> HIDE DEF x
<1> QED BY <1>2, <1>3, <1>4 DEF SameFile

LEMMA AnswerParts ==
  ASSUME NEW w \in Worlds, NEW rc \in Int, NEW yes \in BOOLEAN
  PROVE  LET x == PutAnswer(w, rc, yes) IN
         /\ x \in Worlds /\ x.wb = w.wb /\ x.ra = w.ra /\ x.fx = w.fx
         /\ x.rc = rc /\ x.out = w.out /\ x.raw = w.raw /\ x.answered = yes
BY DEF PutAnswer, Worlds

LEMMA SubmitOutcome ==
  ASSUME NEW w, Sound(w), NEW kind \in Calls, NEW s \in Slots, NEW len \in 1..BatchUnits,
         NEW x \in SubmitCall(w, kind, s, len)
  PROVE  Requested(w, x, kind, s, len)
<1> DEFINE q == [st |-> "queued", kind |-> kind, slot |-> s, len |-> len]
<1>1. PICK v \in Idle(w) : \/ x = PutQueued(SetMode(v, "NOWAIT"), q)
                           \/ \E n \in 1..v.fx.faults : x = SetMode(Fault(v), "WAIT")
  BY DEF SubmitCall, After, PutQueued
<1>2. Rested(w, v) /\ SameCall(v, w)
  BY IdleOutcome
<1>3. /\ Sound(v) /\ v \in Worlds /\ v.wb = w.wb /\ v.fx.rpc = NoRequest
      /\ NoRequest.st # "queued" /\ v.out = w.out
  BY <1>2 DEF Rested, Sound, NoRequest, SameCall
<1>4. q \in Requests
  BY DEF Requests
<1> HIDE DEF q
<1>5. ASSUME x = PutQueued(SetMode(v, "NOWAIT"), q)
      PROVE  /\ x \in Worlds /\ x.wb = w.wb /\ x.ra = v.ra /\ SameFile(x, v)
             /\ x.out = w.out /\ x.rc = 0 /\ x.fx.mode = "NOWAIT" /\ x.fx.rpc = q
  <2> DEFINE u == SetMode(v, "NOWAIT")
  <2>1. /\ u \in Worlds /\ u.wb = v.wb /\ u.ra = v.ra /\ SameCall(u, v) /\ SameFile(u, v)
        /\ u.fx.mode = "NOWAIT"
    BY <1>3, ModeParts
  <2> HIDE DEF u
  <2>2. /\ x \in Worlds /\ x.wb = u.wb /\ x.ra = u.ra /\ x.rc = 0 /\ x.out = u.out
        /\ x.fx.mode = u.fx.mode /\ x.fx.rpc = q /\ SameFile(x, u)
    BY <1>4, <1>5, <2>1, QueuedParts DEF u
  <2> QED BY <1>3, <2>1, <2>2 DEF SameFile, SameCall
<1>6. ASSUME NEW n \in 1..v.fx.faults, x = SetMode(Fault(v), "WAIT")
      PROVE  /\ x \in Worlds /\ x.wb = w.wb /\ x.ra = v.ra
             /\ SameFile(x, v) /\ x.out = w.out
             /\ x.rc = Failed /\ x.fx.mode = "WAIT" /\ x.fx.rpc = NoRequest
             /\ Sound(x)
  <2> DEFINE u == Fault(v)
  <2>1. /\ u \in Worlds /\ u.wb = v.wb /\ u.ra = v.ra /\ SameFile(u, v)
        /\ u.rc = Failed /\ u.out = v.out /\ u.fx.rpc = v.fx.rpc
    BY <1>3, FaultParts
  <2> HIDE DEF u
  <2>2. /\ x \in Worlds /\ x.wb = u.wb /\ x.ra = u.ra /\ SameCall(x, u) /\ SameFile(x, u)
        /\ x.fx.mode = "WAIT" /\ x.fx.rpc = u.fx.rpc
    BY <1>6, <2>1, ModeParts DEF u
  <2>3. Sound(x)
    <3>1. Shape(x.ra) /\ x.fx.rpc.st # "queued"
      BY <1>3, <2>1, <2>2 DEF Sound
    <3>2. x.fx.open # 0 => x.fx.pos <= Len(x.fx.file)
      BY <1>3, <2>1, <2>2 DEF Sound, SameFile
    <3> QED BY <2>2, <3>1, <3>2, SoundQuiet
  <2> QED BY <1>3, <2>1, <2>2, <2>3 DEF SameFile, SameCall
<1>7. /\ x \in Worlds /\ x.wb = w.wb /\ x.ra = v.ra /\ SameFile(x, v) /\ x.out = w.out
      /\ \/ x.rc = 0 /\ x.fx.mode = "NOWAIT" /\ x.fx.rpc = q
         \/ x.rc = Failed /\ x.fx.mode = "WAIT" /\ x.fx.rpc = NoRequest /\ Sound(x)
  BY <1>1, <1>5, <1>6
<1> QED BY <1>2, <1>7 DEF Requested, q

LEMMA WaitOutcome ==
  ASSUME NEW w, Sound(w), NEW x \in WaitAsync(w)
  PROVE  /\ Sound(x) /\ x.wb = w.wb /\ x.out = w.out
         /\ x.fx.mode = w.fx.mode /\ x.fx.open = w.fx.open
         /\ \/ /\ x.answered /\ x.fx.rpc = NoRequest
               /\ \/ /\ ~Busy(w) /\ SameFile(x, w) /\ x.ra = w.ra
                     /\ x.rc = IF w.fx.rpc.st = "done" THEN w.fx.rpc.result ELSE w.fx.last
                  \/ /\ Busy(w) /\ x.rc \in {Failed} \cup (0..BatchUnits)
                     /\ \E v : ServedBy(w, v, x.rc) /\ SameFile(x, v) /\ x.ra = v.ra
            \/ ~x.answered /\ x.rc = Failed /\ SameFile(x, w) /\ x.ra = w.ra
               /\ x.fx.rpc = w.fx.rpc
<1> DEFINE Rc(v) == IF v.fx.rpc.st = "done" THEN v.fx.rpc.result ELSE v.fx.last
<1>1. \/ \E v \in (IF Busy(w) THEN ServeRequest(w) ELSE {w}) :
            x = PutAnswer(Served(v), Rc(v), TRUE)
      \/ \E n \in 1..w.fx.faults : x = PutAnswer(Fault(w), Fault(w).rc, FALSE)
  <2> DEFINE V == IF Busy(w) THEN ServeRequest(w) ELSE {w}
  <2>1. \/ \E v \in V : x = PutAnswer(Served(v), Rc(v), TRUE)
        \/ \E n \in 1..w.fx.faults : x = [Fault(w) EXCEPT !.answered = FALSE]
    <3>1. ASSUME NEW v \in V
          PROVE  [Served(v) EXCEPT !.answered = TRUE,
                    !.rc = IF v.fx.rpc.st = "done" THEN v.fx.rpc.result ELSE v.fx.last]
                 = PutAnswer(Served(v), Rc(v), TRUE)
      <4>1. v \in Worlds
        <5>1. CASE Busy(w)
          BY <5>1, <3>1, ServeOutcome DEF ServedBy
        <5>2. CASE ~Busy(w)
          BY <5>2, <3>1 DEF Sound
        <5> QED BY <5>1, <5>2
      <4> DEFINE u == Served(v)
                 r == Rc(v)
      <4>2. u \in Worlds
        BY <4>1, ServedParts
      <4> HIDE DEF u, r
      <4>3. [u EXCEPT !.answered = TRUE, !.rc = r] = PutAnswer(u, r, TRUE)
        BY <4>2 DEF PutAnswer, Worlds
      <4> QED BY <4>3 DEF u, r
    <3>2. \/ \E v \in V : x = [Served(v) EXCEPT !.answered = TRUE,
                    !.rc = IF v.fx.rpc.st = "done" THEN v.fx.rpc.result ELSE v.fx.last]
          \/ \E n \in 1..w.fx.faults : x = [Fault(w) EXCEPT !.answered = FALSE]
      BY DEF WaitAsync
    <3> HIDE DEF V, Rc
    <3> QED BY <3>1, <3>2
  <2>2. ASSUME NEW n \in 1..w.fx.faults
        PROVE  [Fault(w) EXCEPT !.answered = FALSE] = PutAnswer(Fault(w), Fault(w).rc, FALSE)
    <3> DEFINE u == Fault(w)
    <3>1. u \in Worlds
      BY FaultParts DEF Sound
    <3> HIDE DEF u
    <3>2. [u EXCEPT !.answered = FALSE] = PutAnswer(u, u.rc, FALSE)
      BY <3>1 DEF PutAnswer, Worlds
    <3> QED BY <3>2 DEF u
  <2> QED BY <2>1, <2>2
<1>2. ASSUME NEW v, Sound(v), v.fx.rpc.st # "queued", x = PutAnswer(Served(v), Rc(v), TRUE)
      PROVE  /\ Sound(x) /\ x.wb = v.wb /\ x.ra = v.ra /\ SameFile(x, v)
             /\ x.fx.mode = v.fx.mode /\ x.fx.rpc = NoRequest /\ x.answered /\ x.out = v.out
             /\ x.rc = Rc(v)
  <2> DEFINE u == Served(v)
             r == Rc(v)
  <2>1. v \in Worlds
    BY <1>2 DEF Sound
  <2>2. r \in Int
    <3>1. v.fx.rpc \in Requests
      BY <2>1, WorldParts
    <3>2. v.fx.rpc.st = "done" => v.fx.rpc.result \in Int
      BY <3>1, RequestParts, FileXioAssumption DEF Failed
    <3>3. v.fx.last \in Int
      BY <2>1, WorldParts
    <3> QED BY <3>2, <3>3
  <2>3. /\ u \in Worlds /\ u.wb = v.wb /\ u.ra = v.ra /\ SameCall(u, v) /\ SameFile(u, v)
        /\ u.fx.mode = v.fx.mode /\ u.fx.rpc = NoRequest
    BY <2>1, ServedParts
  <2> HIDE DEF u, r
  <2>4. /\ x \in Worlds /\ x.wb = u.wb /\ x.ra = u.ra /\ x.fx = u.fx
        /\ x.rc = r /\ x.out = u.out /\ x.answered
    BY <1>2, <2>2, <2>3, AnswerParts DEF u, r
  <2>5. Sound(x)
    <3>1. Shape(x.ra) /\ x.fx.rpc.st # "queued"
      <4>1. Shape(v.ra) /\ NoRequest.st # "queued"
        BY <1>2 DEF Sound, NoRequest
      <4> QED BY <4>1, <2>3, <2>4
    <3>2. x.fx.open # 0 => x.fx.pos <= Len(x.fx.file)
      BY <1>2, <2>3, <2>4 DEF Sound, SameFile
    <3> QED BY <2>4, <3>1, <3>2, SoundQuiet
  <2> QED BY <2>3, <2>4, <2>5 DEF SameFile, SameCall, r
<1>3. ASSUME NEW v \in (IF Busy(w) THEN ServeRequest(w) ELSE {w}),
             x = PutAnswer(Served(v), Rc(v), TRUE)
      PROVE  /\ Sound(x) /\ x.wb = w.wb /\ x.out = w.out
             /\ x.fx.mode = w.fx.mode /\ x.fx.open = w.fx.open
             /\ x.answered /\ x.fx.rpc = NoRequest
             /\ \/ /\ ~Busy(w) /\ SameFile(x, w) /\ x.ra = w.ra
                   /\ x.rc = IF w.fx.rpc.st = "done" THEN w.fx.rpc.result ELSE w.fx.last
                \/ /\ Busy(w) /\ x.rc \in {Failed} \cup (0..BatchUnits)
                   /\ \E u : ServedBy(w, u, x.rc) /\ SameFile(x, u) /\ x.ra = u.ra
  <2>1. CASE ~Busy(w)
    <3>1. v = w /\ w.fx.rpc.st # "queued"
      BY <1>3, <2>1 DEF Busy
    <3>2. /\ Sound(x) /\ x.wb = w.wb /\ x.ra = w.ra /\ SameFile(x, w)
          /\ x.fx.mode = w.fx.mode /\ x.fx.rpc = NoRequest /\ x.answered /\ x.out = w.out
          /\ x.rc = Rc(w)
      BY <1>2, <1>3, <3>1
    <3> QED BY <2>1, <3>2 DEF SameFile
  <2>2. CASE Busy(w)
    <3>1. v \in ServeRequest(w)
      BY <1>3, <2>2
    <3>2. PICK k \in {Failed} \cup (0..BatchUnits) : ServedBy(w, v, k)
      BY <2>2, <3>1, ServeOutcome
    <3>3. Sound(v) /\ v.fx.rpc.st = "done" /\ v.fx.rpc.result = k
      BY <2>2, <3>2, ServeSound
    <3>4. /\ Sound(x) /\ x.wb = v.wb /\ x.ra = v.ra /\ SameFile(x, v)
          /\ x.fx.mode = v.fx.mode /\ x.fx.rpc = NoRequest /\ x.answered /\ x.out = v.out
          /\ x.rc = Rc(v)
      BY <1>2, <1>3, <3>3
    <3>5. x.rc = k
      BY <3>3, <3>4
    <3>6. v.wb = w.wb /\ v.out = w.out /\ v.fx.mode = w.fx.mode /\ v.fx.open = w.fx.open
      BY <3>2 DEF ServedBy, SameCall
    <3> HIDE DEF Rc
    <3>7. x.fx.open = v.fx.open
      BY <3>4 DEF SameFile
    <3> QED BY <2>2, <3>2, <3>4, <3>5, <3>6, <3>7
  <2> QED BY <2>1, <2>2
<1>4. ASSUME NEW n \in 1..w.fx.faults, x = PutAnswer(Fault(w), Fault(w).rc, FALSE)
      PROVE  /\ Sound(x) /\ x.wb = w.wb /\ x.out = w.out
             /\ x.fx.mode = w.fx.mode /\ x.fx.open = w.fx.open
             /\ ~x.answered /\ x.rc = Failed /\ SameFile(x, w) /\ x.ra = w.ra
             /\ x.fx.rpc = w.fx.rpc
  <2> DEFINE u == Fault(w)
  <2>1. w \in Worlds
    BY DEF Sound
  <2>2. /\ u \in Worlds /\ u.wb = w.wb /\ u.ra = w.ra /\ SameFile(u, w)
        /\ u.rc = Failed /\ u.out = w.out /\ u.fx.mode = w.fx.mode /\ u.fx.rpc = w.fx.rpc
    BY <2>1, FaultParts
  <2> HIDE DEF u
  <2>3. /\ x \in Worlds /\ x.wb = u.wb /\ x.ra = u.ra /\ x.fx = u.fx
        /\ x.rc = u.rc /\ x.out = u.out /\ x.answered = FALSE
    <3>1. u.rc \in Int
      BY <2>2 DEF Failed
    <3> QED BY <1>4, <2>2, <3>1, AnswerParts DEF u
  <2>4. Len(w.fx.file) <= Len(x.fx.file)
    <3>1. w.fx.file \in Seq(Int) /\ x.fx.file = w.fx.file
      BY <2>1, <2>2, <2>3, WorldParts DEF SameFile
    <3> QED BY <3>1
  <2>5. x.fx.open = w.fx.open /\ x.fx.pos = w.fx.pos /\ x.fx.rpc = w.fx.rpc
    BY <2>2, <2>3 DEF SameFile
  <2>6. x.fx.open = 0 => x.fx.rpc.st # "queued"
    BY <2>5 DEF Sound
  <2>7. Sound(x)
    BY <2>2, <2>3, <2>4, <2>5, <2>6, SoundFrom
  <2> QED BY <2>2, <2>3, <2>7 DEF SameFile
<1> HIDE DEF Rc
<1> QED BY <1>1, <1>3, <1>4

LEMMA RestedParts ==
  ASSUME NEW w, Sound(w), NEW v, Rested(w, v)
  PROVE  /\ Sound(v) /\ v \in Worlds /\ v.wb = w.wb /\ v.fx.open = w.fx.open
         /\ v.fx.mode = w.fx.mode /\ v.fx.rpc = NoRequest /\ v.fx.rpc.st = "none" /\ Shape(v.ra)
         /\ v.fx.file \in Seq(Int) /\ v.fx.pos \in Nat /\ Len(v.fx.file) \in Nat
         /\ v.fx.open # 0 => v.fx.pos <= Len(v.fx.file)
<1>1. /\ Sound(v) /\ v \in Worlds /\ v.wb = w.wb /\ v.fx.open = w.fx.open
      /\ v.fx.mode = w.fx.mode /\ v.fx.rpc = NoRequest
  BY DEF Rested, Sound
<1>2. v.fx.file \in Seq(Int) /\ v.fx.pos \in Nat
  BY <1>1, WorldParts
<1>3. v.fx.rpc.st = "none" /\ Shape(v.ra) /\ (v.fx.open # 0 => v.fx.pos <= Len(v.fx.file))
  <2>1. NoRequest.st = "none"
    BY DEF NoRequest
  <2> QED BY <1>1, <2>1 DEF Sound
<1>4. Len(v.fx.file) \in Nat
  BY <1>2
<1> QED BY <1>1, <1>2, <1>3, <1>4

LEMMA ReadOutcome ==
  ASSUME NEW w, Sound(w), w.fx.open # 0, NEW least \in Nat, NEW room \in Nat, least <= room,
         NEW x \in ReadCalls(w, least, room)
  PROVE  ReadTo(w, x, least, room)
<1> DEFINE P(v, k) == SubSeq(v.fx.file, v.fx.pos + 1, v.fx.pos + k)
           G(v, k, rc) == PutRead(SetMode(v, "WAIT"), k, rc, P(v, k))
           Avail(v) == Len(v.fx.file) - v.fx.pos
           Most(v) == Lesser(room, Avail(v))
<1>1. PICK v \in Idle(w) :
        IF Avail(v) < least
        THEN \/ x = G(v, Avail(v), 0)
             \/ \E k \in {n \in 0..Avail(v) : v.fx.faults > 0} : x = Fault(G(v, k, 0))
        ELSE \/ x = G(v, Most(v), Most(v))
             \/ \E k \in {n \in least..(Most(v) - 1) : v.fx.shorts > 0} : x = LessShorts(G(v, k, k))
             \/ \E k \in {n \in 0..(least - 1) : v.fx.faults > 0} : x = Fault(G(v, k, 0))
  BY DEF ReadCalls, After, PutRead, LessShorts
<1>2. Rested(w, v) /\ SameCall(v, w)
  BY IdleOutcome
<1>3. /\ Sound(v) /\ v \in Worlds /\ v.wb = w.wb /\ v.fx.open = w.fx.open
      /\ v.fx.rpc = NoRequest /\ v.fx.rpc.st # "queued" /\ v.out = w.out /\ Shape(v.ra)
      /\ v.fx.file \in Seq(Int) /\ v.fx.pos \in Nat /\ Len(v.fx.file) \in Nat
      /\ v.fx.pos <= Len(v.fx.file) /\ v.fx.faults \in Int
  BY <1>2, RestedParts, WorldParts, FileXioAssumption DEF SameCall
<1>4. /\ Avail(v) \in Nat /\ Most(v) \in 0..room /\ Most(v) <= Avail(v)
      /\ ~(Avail(v) < least) => least <= Most(v)
      /\ \A k \in Nat : k <= Avail(v) => v.fx.pos + k <= Len(v.fx.file)
      /\ v.fx.pos + Avail(v) = Len(v.fx.file)
  <2> DEFINE a == Len(v.fx.file)
             p == v.fx.pos
  <2>1. a \in Nat /\ p \in Nat /\ p <= a
    BY <1>3
  <2>2. Avail(v) = a - p /\ Most(v) = IF room <= a - p THEN room ELSE a - p
    BY DEF Lesser
  <2> HIDE DEF a, p, Avail, Most
  <2>3. /\ Avail(v) \in Nat /\ Most(v) \in 0..room /\ Most(v) <= Avail(v)
        /\ ~(Avail(v) < least) => least <= Most(v)
        /\ \A k \in Nat : k <= Avail(v) => p + k <= a
        /\ p + Avail(v) = a
    BY <2>1, <2>2
  <2> QED BY <2>3 DEF a, p
<1> HIDE DEF Avail, Most
<1>5. ASSUME NEW k \in Nat, k <= Avail(v), NEW rc \in Int
      PROVE  LET y == G(v, k, rc) IN
             /\ y \in Worlds /\ y.wb = v.wb /\ y.ra = v.ra /\ y.out = v.out
             /\ y.fx.mode = "WAIT" /\ y.fx.rpc = NoRequest /\ y.fx.open = v.fx.open
             /\ y.fx.file = v.fx.file /\ y.fx.pos = v.fx.pos + k /\ y.rc = rc
             /\ y.raw = P(v, k) /\ y.fx.faults = v.fx.faults /\ y.fx.shorts = v.fx.shorts
  <2> DEFINE u == SetMode(v, "WAIT")
             t == P(v, k)
             y == PutRead(u, k, rc, t)
  <2>1. /\ u \in Worlds /\ u.wb = v.wb /\ u.ra = v.ra /\ SameCall(u, v) /\ SameFile(u, v)
        /\ u.fx.mode = "WAIT" /\ u.fx.rpc = v.fx.rpc
        /\ u.fx.faults = v.fx.faults /\ u.fx.shorts = v.fx.shorts
    BY <1>3, ModeParts
  <2>2. t \in Seq(Int)
    <3> DEFINE f == v.fx.file
               p == v.fx.pos
               j == p + k
    <3>1. f \in Seq(Int) /\ p \in Nat /\ j \in Int /\ j <= Len(f)
      BY <1>3, <1>4, <1>5
    <3> HIDE DEF f, p, j
    <3>2. SubSeq(f, p + 1, j) \in Seq(Int)
      BY <3>1, Piece
    <3> QED BY <3>2 DEF f, p, j
  <2> HIDE DEF u, t
  <2>3. /\ y \in Worlds /\ y.wb = u.wb /\ y.ra = u.ra
        /\ y.rc = rc /\ y.out = u.out /\ y.raw = t /\ y.answered = u.answered
        /\ y.fx.mode = u.fx.mode /\ y.fx.rpc = u.fx.rpc /\ y.fx.open = u.fx.open
        /\ y.fx.pos = u.fx.pos + k /\ y.fx.file = u.fx.file
        /\ y.fx.faults = u.fx.faults /\ y.fx.shorts = u.fx.shorts
    BY <1>5, <2>1, <2>2, ReadParts
  <2>4. G(v, k, rc) = y
    BY DEF u, t
  <2> HIDE DEF y, G
  <2> QED BY <1>3, <2>1, <2>3, <2>4 DEF SameFile, SameCall, t
<1>6. ASSUME NEW y \in Worlds, y.wb = v.wb, y.ra = v.ra, y.out = v.out,
             y.fx.mode = "WAIT", y.fx.rpc = NoRequest, y.fx.open = v.fx.open,
             NEW k \in Nat, k <= Avail(v),
             y.fx.file = v.fx.file, y.fx.pos = v.fx.pos + k
      PROVE  Sound(y)
  <2>1. Shape(y.ra) /\ y.fx.rpc.st # "queued"
    <3>1. y.fx.rpc = v.fx.rpc
      BY <1>3, <1>6
    <3> QED BY <1>3, <1>6, <3>1
  <2>2. y.fx.pos <= Len(y.fx.file)
    BY <1>4, <1>6
  <2> QED BY <1>6, <2>1, <2>2, SoundQuiet
<1> HIDE DEF G, P
<1>7. ASSUME NEW k \in Nat, k <= Avail(v), NEW rc \in Int, x = G(v, k, rc)
      PROVE  /\ Sound(x) /\ x.wb = w.wb /\ x.ra = v.ra
             /\ x.fx.mode = "WAIT" /\ x.fx.rpc = NoRequest /\ x.fx.open = w.fx.open
             /\ x.fx.file = v.fx.file /\ x.out = w.out
             /\ v.fx.pos + k <= Len(v.fx.file) /\ x.fx.pos = v.fx.pos + k
             /\ x.raw = P(v, k) /\ x.rc = rc
  <2>1. /\ x \in Worlds /\ x.wb = v.wb /\ x.ra = v.ra /\ x.out = v.out
        /\ x.fx.mode = "WAIT" /\ x.fx.rpc = NoRequest /\ x.fx.open = v.fx.open
        /\ x.fx.file = v.fx.file /\ x.fx.pos = v.fx.pos + k /\ x.rc = rc
        /\ x.raw = P(v, k)
    BY <1>5, <1>7
  <2>2. Sound(x)
    BY <1>6, <1>7, <2>1
  <2>3. v.fx.pos + k <= Len(v.fx.file)
    BY <1>4, <1>7
  <2> QED BY <1>3, <2>1, <2>2, <2>3
<1>8. ASSUME NEW k \in Nat, k <= Avail(v), v.fx.faults > 0, x = Fault(G(v, k, 0))
      PROVE  /\ Sound(x) /\ x.wb = w.wb /\ x.ra = v.ra
             /\ x.fx.mode = "WAIT" /\ x.fx.rpc = NoRequest /\ x.fx.open = w.fx.open
             /\ x.fx.file = v.fx.file /\ x.out = w.out
             /\ v.fx.pos + k <= Len(v.fx.file) /\ x.fx.pos = v.fx.pos + k
             /\ x.raw = P(v, k) /\ x.rc = Failed
  <2> DEFINE y == G(v, k, 0)
  <2>1. /\ y \in Worlds /\ y.wb = v.wb /\ y.ra = v.ra /\ y.out = v.out
        /\ y.fx.mode = "WAIT" /\ y.fx.rpc = NoRequest /\ y.fx.open = v.fx.open
        /\ y.fx.file = v.fx.file /\ y.fx.pos = v.fx.pos + k
        /\ y.raw = P(v, k) /\ y.fx.faults = v.fx.faults
    <3>1. 0 \in Int
      OBVIOUS
    <3> QED BY <1>5, <1>8, <3>1
  <2>2. x = Fault(y) /\ 1 \in 1..y.fx.faults
    <3>1. v.fx.faults \in Int /\ v.fx.faults > 0
      BY <1>3, <1>8
    <3> HIDE DEF y
    <3> QED BY <1>8, <2>1, <3>1 DEF y
  <2> HIDE DEF y
  <2>3. /\ x \in Worlds /\ x.wb = y.wb /\ x.ra = y.ra /\ SameFile(x, y)
        /\ x.rc = Failed /\ x.out = y.out /\ x.raw = y.raw
        /\ x.fx.mode = y.fx.mode /\ x.fx.rpc = y.fx.rpc
    BY <2>1, <2>2, FaultParts
  <2>4. Sound(x)
    BY <1>6, <1>8, <2>1, <2>3 DEF SameFile
  <2> QED BY <1>3, <1>4, <1>8, <2>1, <2>3, <2>4 DEF SameFile
<1>9. ASSUME NEW k \in Nat, k <= Avail(v), v.fx.shorts > 0, x = LessShorts(G(v, k, k))
      PROVE  /\ Sound(x) /\ x.wb = w.wb /\ x.ra = v.ra
             /\ x.fx.mode = "WAIT" /\ x.fx.rpc = NoRequest /\ x.fx.open = w.fx.open
             /\ x.fx.file = v.fx.file /\ x.out = w.out
             /\ v.fx.pos + k <= Len(v.fx.file) /\ x.fx.pos = v.fx.pos + k
             /\ x.raw = P(v, k) /\ x.rc = k
  <2> DEFINE y == G(v, k, k)
  <2>1. /\ y \in Worlds /\ y.wb = v.wb /\ y.ra = v.ra /\ y.out = v.out
        /\ y.fx.mode = "WAIT" /\ y.fx.rpc = NoRequest /\ y.fx.open = v.fx.open
        /\ y.fx.file = v.fx.file /\ y.fx.pos = v.fx.pos + k
        /\ y.raw = P(v, k) /\ y.fx.shorts > 0 /\ y.rc = k
    <3>1. k \in Int
      OBVIOUS
    <3> QED BY <1>5, <1>9, <3>1
  <2>2. x = LessShorts(y)
    BY <1>9
  <2> HIDE DEF y
  <2>3. /\ x \in Worlds /\ x.wb = y.wb /\ x.ra = y.ra /\ SameFile(x, y) /\ SameCall(x, y)
        /\ x.fx.mode = y.fx.mode /\ x.fx.rpc = y.fx.rpc
    BY <2>1, <2>2, ShortsParts
  <2>4. Sound(x)
    BY <1>6, <1>9, <2>1, <2>3 DEF SameFile, SameCall
  <2> QED BY <1>3, <1>4, <1>9, <2>1, <2>3, <2>4 DEF SameFile, SameCall
<1> DEFINE Done(k) == /\ Sound(x) /\ x.wb = w.wb /\ x.ra = v.ra
             /\ x.fx.mode = "WAIT" /\ x.fx.rpc = NoRequest /\ x.fx.open = w.fx.open
             /\ x.fx.file = v.fx.file /\ x.out = w.out
             /\ v.fx.pos + k <= Len(v.fx.file) /\ x.fx.pos = v.fx.pos + k
             /\ x.raw = P(v, k)
<1>10. \E k \in 0..room : /\ Done(k)
                          /\ \/ x.rc = Failed
                             \/ x.rc = k /\ least <= k
                             \/ x.rc = 0 /\ k < least /\ v.fx.pos + k = Len(v.fx.file)
  <2>1. CASE Avail(v) < least /\ x = G(v, Avail(v), 0)
    <3> DEFINE k == Avail(v)
    <3>1. k \in Nat /\ k <= Avail(v) /\ 0 \in Int /\ k \in 0..room /\ k < least
          /\ v.fx.pos + k = Len(v.fx.file)
      BY <1>4, <2>1
    <3>2. Done(k) /\ x.rc = 0
      <4>1. x = G(v, k, 0)
        BY <2>1
      <4> HIDE DEF k
      <4> QED BY <1>7, <3>1, <4>1
    <3> HIDE DEF k, Done
    <3> QED BY <3>1, <3>2
  <2>2. ASSUME Avail(v) < least, NEW k \in {n \in 0..Avail(v) : v.fx.faults > 0},
               x = Fault(G(v, k, 0))
        PROVE  k \in 0..room /\ Done(k) /\ x.rc = Failed
    <3>1. k \in Nat /\ k <= Avail(v) /\ v.fx.faults > 0 /\ k \in 0..room
      BY <1>4, <2>2
    <3> HIDE DEF Done
    <3>2. Done(k) /\ x.rc = Failed
      BY <1>8, <2>2, <3>1 DEF Done
    <3> QED BY <3>1, <3>2
  <2>3. CASE ~(Avail(v) < least) /\ x = G(v, Most(v), Most(v))
    <3> DEFINE k == Most(v)
    <3>1. k \in Nat /\ k <= Avail(v) /\ k \in Int /\ k \in 0..room /\ least <= k
      BY <1>4, <2>3
    <3>2. Done(k) /\ x.rc = k
      <4>1. x = G(v, k, k)
        BY <2>3
      <4> HIDE DEF k
      <4> QED BY <1>7, <3>1, <4>1
    <3> HIDE DEF k, Done
    <3> QED BY <3>1, <3>2
  <2>4. ASSUME ~(Avail(v) < least), NEW k \in {n \in least..(Most(v) - 1) : v.fx.shorts > 0},
               x = LessShorts(G(v, k, k))
        PROVE  k \in 0..room /\ Done(k) /\ x.rc = k /\ least <= k
    <3>1. k \in Nat /\ k <= Avail(v) /\ v.fx.shorts > 0 /\ k \in 0..room /\ least <= k
      BY <1>4, <2>4
    <3> HIDE DEF Done
    <3>2. Done(k) /\ x.rc = k
      BY <1>9, <2>4, <3>1 DEF Done
    <3> QED BY <3>1, <3>2
  <2>5. ASSUME ~(Avail(v) < least), NEW k \in {n \in 0..(least - 1) : v.fx.faults > 0},
               x = Fault(G(v, k, 0))
        PROVE  k \in 0..room /\ Done(k) /\ x.rc = Failed
    <3>1. k \in Nat /\ k <= Avail(v) /\ v.fx.faults > 0 /\ k \in 0..room
      BY <1>4, <2>5
    <3> HIDE DEF Done
    <3>2. Done(k) /\ x.rc = Failed
      BY <1>8, <2>5, <3>1 DEF Done
    <3> QED BY <3>1, <3>2
  <2> HIDE DEF Done
  <2> QED BY <1>1, <2>1, <2>2, <2>3, <2>4, <2>5
<1>11. /\ Sound(x) /\ x.wb = w.wb /\ x.ra = v.ra
       /\ x.fx.mode = "WAIT" /\ x.fx.rpc = NoRequest /\ x.fx.open = w.fx.open
       /\ x.fx.file = v.fx.file /\ x.out = w.out
       /\ \E k \in 0..room :
             /\ v.fx.pos + k <= Len(v.fx.file) /\ x.fx.pos = v.fx.pos + k /\ x.raw = P(v, k)
             /\ \/ x.rc = Failed
                \/ x.rc = k /\ least <= k
                \/ x.rc = 0 /\ k < least /\ v.fx.pos + k = Len(v.fx.file)
  BY <1>10
<1> QED BY <1>2, <1>11 DEF ReadTo, P

(* --------------------------- the write batch --------------------------- *)
LEMMA LenParts ==
  ASSUME NEW w \in Worlds, NEW s \in Slots, NEW n \in 0..BatchUnits
  PROVE  LET x == PutLen(w, s, n) IN
         /\ x \in Worlds /\ x.fx = w.fx /\ x.ra = w.ra /\ SameCall(x, w) /\ SameBatch(x, w)
         /\ x.wb.async = w.wb.async /\ x.wb.expected = w.wb.expected
         /\ x.wb.len[s] = n /\ \A t \in Slots : t # s => x.wb.len[t] = w.wb.len[t]
<1> DEFINE l == [w.wb.len EXCEPT ![s] = n]
           x == PutLen(w, s, n)
<1>1. w.wb.len \in [Slots -> 0..BatchUnits]
  BY WorldParts
<1>2. l \in [Slots -> 0..BatchUnits] /\ l[s] = n /\ \A t \in Slots : t # s => l[t] = w.wb.len[t]
  BY <1>1
<1>3. x = [w EXCEPT !.wb.len = l]
  BY DEF PutLen
<1> HIDE DEF l, x
<1>4. /\ x \in Worlds /\ x.fx = w.fx /\ x.ra = w.ra /\ SameCall(x, w) /\ SameBatch(x, w)
      /\ x.wb.async = w.wb.async /\ x.wb.expected = w.wb.expected /\ x.wb.len = l
  BY <1>2, <1>3 DEF Worlds, Batches, SameCall, SameBatch
<1> QED BY <1>2, <1>4 DEF x

LEMMA AsyncParts ==
  ASSUME NEW w \in Worlds, NEW s \in Slots \cup {NoSlot}
  PROVE  LET x == PutAsync(w, s) IN
         /\ x \in Worlds /\ x.fx = w.fx /\ x.ra = w.ra /\ SameCall(x, w) /\ SameBatch(x, w)
         /\ x.wb.async = s /\ x.wb.expected = w.wb.expected /\ x.wb.len = w.wb.len
BY DEF PutAsync, Worlds, Batches, SameCall, SameBatch

LEMMA ExpectedParts ==
  ASSUME NEW w \in Worlds, NEW n \in 0..BatchUnits
  PROVE  LET x == PutExpected(w, n) IN
         /\ x \in Worlds /\ x.fx = w.fx /\ x.ra = w.ra /\ SameCall(x, w) /\ SameBatch(x, w)
         /\ x.wb.async = w.wb.async /\ x.wb.expected = n /\ x.wb.len = w.wb.len
BY DEF PutExpected, Worlds, Batches, SameCall, SameBatch

LEMMA SubmittedParts ==
  ASSUME NEW w \in Worlds, NEW s \in Slots, NEW n \in 0..BatchUnits
  PROVE  LET x == PutSubmitted(w, s, n) IN
         /\ x \in Worlds /\ x.fx = w.fx /\ x.ra = w.ra /\ SameCall(x, w) /\ SameBatch(x, w)
         /\ x.wb.async = s /\ x.wb.expected = n /\ x.wb.len = w.wb.len
<1> DEFINE u == PutAsync(w, s)
           x == PutExpected(u, n)
<1>1. /\ u \in Worlds /\ u.fx = w.fx /\ u.ra = w.ra /\ SameCall(u, w) /\ SameBatch(u, w)
      /\ u.wb.async = s /\ u.wb.len = w.wb.len
  BY AsyncParts
<1>2. PutSubmitted(w, s, n) = x
  BY DEF PutSubmitted, PutAsync, PutExpected
<1> HIDE DEF u
<1>3. /\ x \in Worlds /\ x.fx = u.fx /\ x.ra = u.ra /\ SameCall(x, u) /\ SameBatch(x, u)
      /\ x.wb.async = u.wb.async /\ x.wb.expected = n /\ x.wb.len = u.wb.len
  BY <1>1, ExpectedParts
<1> HIDE DEF x
<1> QED BY <1>1, <1>2, <1>3 DEF SameCall, SameBatch

LEMMA FillParts ==
  ASSUME NEW w \in Worlds, NEW s \in Slots
  PROVE  LET x == PutFill(w, s) IN
         /\ x \in Worlds /\ x.fx = w.fx /\ x.ra = w.ra /\ SameCall(x, w)
         /\ x.wb.depth = w.wb.depth /\ x.wb.fd = w.wb.fd /\ x.wb.buf = w.wb.buf
         /\ x.wb.fill = s /\ x.wb.async = w.wb.async /\ x.wb.expected = w.wb.expected
         /\ x.wb.len = w.wb.len
BY DEF PutFill, Worlds, Batches, SameCall

LEMMA FdParts ==
  ASSUME NEW w \in Worlds, NEW fd \in Fds \cup {0}
  PROVE  LET x == PutFd(w, fd) IN
         /\ x \in Worlds /\ x.fx = w.fx /\ x.ra = w.ra /\ SameCall(x, w)
         /\ x.wb.depth = w.wb.depth /\ x.wb.fill = w.wb.fill /\ x.wb.buf = w.wb.buf
         /\ x.wb.fd = fd /\ x.wb.async = w.wb.async /\ x.wb.expected = w.wb.expected
         /\ x.wb.len = w.wb.len
BY DEF PutFd, Worlds, Batches, SameCall

LEMMA SoundSame ==
  ASSUME NEW w, Sound(w), NEW x \in Worlds, x.wb.fill = w.wb.fill, x.ra = w.ra,
         SameFile(x, w), x.fx.rpc = w.fx.rpc
  PROVE  Sound(x)
BY Zenon DEF Sound, SameFile, Queued

(* The first units of the image, and the next ones.                        *)
LEMMA UnitsParts ==
  ASSUME NEW n \in Nat
  PROVE  Units(n) \in Seq(Int) /\ Len(Units(n)) = n /\ \A i \in 1..n : Units(n)[i] = i
BY DEF Units

LEMMA UnitsExtend ==
  ASSUME NEW n \in Nat, NEW k \in Nat, NEW t \in Seq(Int), Len(t) = k,
         \A i \in 1..k : t[i] = n + i
  PROVE  Units(n) \o t = Units(n + k)
<1> DEFINE f == Units(n)
           g == f \o t
           h == Units(n + k)
<1>1. f \in Seq(Int) /\ Len(f) = n /\ \A i \in 1..n : f[i] = i
  BY UnitsParts
<1>2. h \in Seq(Int) /\ Len(h) = n + k /\ \A i \in 1..(n + k) : h[i] = i
  BY UnitsParts
<1> HIDE DEF f, h
<1>3. /\ g \in Seq(Int) /\ Len(g) = n + k
      /\ \A i \in 1..(n + k) : g[i] = IF i <= n THEN f[i] ELSE t[i - n]
  BY <1>1, ConcatProperties
<1> HIDE DEF g
<1>4. ASSUME NEW i \in 1..(n + k) PROVE g[i] = h[i]
  <2>1. CASE i <= n
    BY <1>1, <1>2, <1>3, <2>1
  <2>2. CASE ~(i <= n)
    <3>1. i - n \in 1..k /\ n + (i - n) = i
      BY <2>2
    <3>2. t[i - n] = i
      BY <3>1
    <3> QED BY <1>2, <1>3, <2>2, <3>2
  <2> QED BY <2>1, <2>2
<1>5. g = h
  BY <1>2, <1>3, <1>4, SeqEqual
<1> QED BY <1>5 DEF f, g, h

(* What is outstanding lies behind what is in the file.                    *)
LEMMA StoredRange ==
  ASSUME NEW w \in Worlds
  PROVE  /\ Stored(w) \in 0..BatchUnits /\ Size(w) \in Nat
         /\ w.fx.rpc.st # "done" => Stored(w) = 0
<1>1. w.fx.rpc \in Requests /\ w.fx.file \in Seq(Int)
  BY WorldParts
<1>2. w.fx.rpc.st = "done" => w.fx.rpc.result \in {Failed} \cup (0..BatchUnits)
  BY <1>1, RequestParts
<1>3. Size(w) \in Nat
  BY <1>1 DEF Size
<1> DEFINE r == w.fx.rpc.result
<1>4. Stored(w) = IF w.fx.rpc.st = "done" /\ r > 0 THEN r ELSE 0
  BY DEF Stored
<1> HIDE DEF r
<1>5. Stored(w) \in 0..BatchUnits
  BY <1>2, <1>4, FileXioAssumption DEF r, Failed
<1> QED BY <1>3, <1>4, <1>5

LEMMA PendingParts ==
  ASSUME NEW w, Sound(w), Pending(w)
  PROVE  /\ Size(w) \in Nat /\ Size(w) <= ImageUnits /\ w.fx.file = Units(Size(w))
         /\ Base(w) \in Nat /\ Size(w) <= Base(w) /\ Base(w) <= ImageUnits
         /\ w.wb.async = NoSlot => Base(w) = Size(w)
         /\ w.wb.async # NoSlot =>
              /\ w.wb.async \in Slots /\ w.wb.expected \in 0..BatchUnits /\ Stored(w) \in Nat
              /\ Base(w) = Size(w) - Stored(w) + w.wb.expected
              /\ Stored(w) <= w.wb.expected /\ Stored(w) <= Size(w)
              /\ w.fx.rpc.st \in {"queued", "done"} /\ w.fx.rpc.kind = "write"
              /\ w.fx.rpc.slot = w.wb.async /\ w.fx.rpc.len = w.wb.expected
              /\ build = "asyncwrite"
              /\ \A i \in 1..w.wb.expected :
                    w.wb.buf[w.wb.async][i] = Size(w) - Stored(w) + i
<1>1. w \in Worlds
  BY DEF Sound
<1>2. Stored(w) \in 0..BatchUnits /\ Size(w) \in Nat
  BY <1>1, StoredRange
<1>3. Size(w) <= ImageUnits /\ w.fx.file = Units(Size(w))
  BY DEF Pending
<1>4. w.wb.expected \in 0..BatchUnits /\ BatchUnits \in Nat /\ w.wb.async \in Slots \cup {NoSlot}
  BY <1>1, WorldParts, FileXioAssumption
<1>5. CASE w.wb.async = NoSlot
  <2>1. Base(w) = Size(w) + 0
    BY <1>5 DEF Base
  <2>2. Base(w) = Size(w)
    <3> DEFINE a == Size(w)
    <3>1. a + 0 = a
      <4> HIDE DEF a
      <4>1. a \in Nat
        BY <1>2 DEF a
      <4> QED BY <4>1
    <3> QED BY <2>1, <3>1
  <2>3. Size(w) <= Size(w)
    <3> HIDE DEF Size
    <3> QED BY <1>2
  <2> QED BY <1>2, <1>3, <1>5, <2>2, <2>3
<1>6. CASE w.wb.async # NoSlot
  <2>1. /\ w.fx.rpc.st # "none" /\ w.fx.rpc.kind = "write" /\ build = "asyncwrite"
        /\ w.fx.rpc.slot = w.wb.async /\ w.fx.rpc.len = w.wb.expected
        /\ Stored(w) <= w.wb.expected /\ Stored(w) <= Size(w)
        /\ Size(w) - Stored(w) + w.wb.expected <= ImageUnits
        /\ \A i \in 1..w.wb.expected : w.wb.buf[w.wb.async][i] = Size(w) - Stored(w) + i
    BY <1>6 DEF Pending
  <2>2. Base(w) = Size(w) + (w.wb.expected - Stored(w))
    BY <1>6 DEF Base
  <2>3. w.fx.rpc.st \in {"queued", "done"}
    <3>1. w.fx.rpc \in Requests
      BY <1>1, WorldParts
    <3> QED BY <2>1, <3>1, RequestParts
  <2> DEFINE a == Size(w)
             b == Stored(w)
             e == w.wb.expected
  <2>4. a \in Nat /\ b \in Nat /\ e \in Nat /\ b <= e /\ b <= a /\ a - b + e <= ImageUnits
        /\ Base(w) = a + (e - b)
    BY <1>2, <1>4, <2>1, <2>2
  <2> HIDE DEF a, b, e
  <2>5. Base(w) \in Nat /\ a <= Base(w) /\ Base(w) <= ImageUnits /\ Base(w) = a - b + e
    BY <2>4, FileXioAssumption
  <2> QED BY <1>2, <1>3, <1>4, <1>6, <2>1, <2>3, <2>4, <2>5 DEF a, b, e
<1> QED BY <1>5, <1>6

LEMMA PendingSame ==
  ASSUME NEW w, Pending(w), NEW x, x.fx.file = w.fx.file, x.fx.rpc = w.fx.rpc,
         x.wb.buf = w.wb.buf, x.wb.async = w.wb.async,
         w.wb.async # NoSlot => x.wb.expected = w.wb.expected
  PROVE  Pending(x) /\ Base(x) = Base(w) /\ Size(x) = Size(w) /\ Stored(x) = Stored(w)
<1>1. Size(x) = Size(w) /\ Stored(x) = Stored(w)
  BY DEF Size, Stored
<1>2. Base(x) = Base(w)
  BY <1>1 DEF Base
<1> HIDE DEF Size, Stored
<1>3. Pending(x)
  BY <1>1 DEF Pending, Queued
<1> QED BY <1>1, <1>2, <1>3

LEMMA PendingQuiet ==
  ASSUME NEW x, x.fx.file = Units(Size(x)), Size(x) <= ImageUnits,
         x.wb.async = NoSlot, ~Queued(x, "write")
  PROVE  Pending(x)
BY DEF Pending

LEMMA ServePending ==
  ASSUME NEW w, Sound(w), Pending(w), Busy(w),
         NEW k \in {Failed} \cup (0..BatchUnits), NEW x, ServedBy(w, x, k)
  PROVE  /\ Pending(x) /\ Size(w) <= Size(x)
         /\ w.fx.rpc.kind = "read" \/ k = Failed => x.fx.file = w.fx.file
         /\ w.fx.rpc.kind = "write" /\ k # Failed => Size(x) = Size(w) + k /\ k \in 1..w.fx.rpc.len
         /\ w.wb.async # NoSlot => Base(x) = Base(w)
<1> DEFINE r == w.fx.rpc
<1>1. /\ w \in Worlds /\ x \in Worlds /\ r.st = "queued" /\ x.wb = w.wb
      /\ x.fx.rpc.st = "done" /\ x.fx.rpc.kind = r.kind /\ x.fx.rpc.slot = r.slot
      /\ x.fx.rpc.len = r.len /\ x.fx.rpc.result = k
  BY SMTT(30) DEF Sound, Busy, ServedBy
<1>2. r \in Requests /\ r.kind \in Calls /\ r.slot \in Slots /\ r.len \in 1..BatchUnits
      /\ w.wb.buf \in [Slots -> [1..BatchUnits -> Int]] /\ BatchUnits \in Nat
  <2>1. r \in Requests /\ w.wb.buf \in [Slots -> [1..BatchUnits -> Int]]
    BY <1>1, WorldParts
  <2> HIDE DEF r
  <2> QED BY <1>1, <2>1, RequestParts, FileXioAssumption
<1>3. /\ Stored(w) = 0 /\ Size(w) \in Nat /\ Size(x) \in Nat
      /\ Size(w) <= ImageUnits /\ w.fx.file = Units(Size(w)) /\ w.fx.file \in Seq(Int)
  BY <1>1, StoredRange, WorldParts DEF Pending
<1>4. ~Queued(x, "write")
  BY <1>1 DEF Queued
<1>5. CASE r.kind = "write" /\ k # Failed
  <2>1. /\ k \in 1..r.len /\ x.fx.file = w.fx.file \o SubSeq(w.wb.buf[r.slot], 1, k)
    BY <1>5 DEF ServedBy
  <2>2. Queued(w, "write")
    BY <1>1, <1>5 DEF Queued
  <2>3. /\ Size(w) + r.len <= ImageUnits
        /\ \A i \in 1..r.len : w.wb.buf[r.slot][i] = Size(w) + i
    BY <2>2 DEF Pending
  <2> DEFINE b == w.wb.buf[r.slot]
             t == SubSeq(b, 1, k)
             n == Size(w)
             m == r.len
  <2>4. b \in [1..BatchUnits -> Int] /\ n \in Nat /\ m \in Nat /\ m <= BatchUnits /\ k \in 1..m
        /\ n + m <= ImageUnits /\ \A i \in 1..m : b[i] = n + i
    <3>1. b \in [1..BatchUnits -> Int] /\ n \in Nat
      BY <1>2, <1>3
    <3>2. m \in 1..BatchUnits /\ k \in 1..m /\ BatchUnits \in Nat
      BY <1>2, <2>1
    <3>3. n + m <= ImageUnits /\ \A i \in 1..m : b[i] = n + i
      BY <2>3
    <3> HIDE DEF b, n, m
    <3> QED BY <3>1, <3>2, <3>3
  <2> HIDE DEF b, n, m, r
  <2>5. b \in Seq(Int) /\ Len(b) = BatchUnits
    BY <1>2, <2>4
  <2>6. k \in Int /\ 0 \in Nat /\ k <= Len(b) /\ 0 + 1 = 1 /\ 0 < k /\ k - 0 = k /\ k \in Nat
    BY <1>2, <2>4, <2>5
  <2>7. /\ SubSeq(b, 0 + 1, k) \in Seq(Int)
        /\ Len(SubSeq(b, 0 + 1, k)) = k
        /\ \A i \in 1..(k - 0) : SubSeq(b, 0 + 1, k)[i] = b[0 + i]
    BY <2>5, <2>6, Piece
  <2>8. t \in Seq(Int) /\ Len(t) = k /\ \A i \in 1..k : t[i] = n + i
    <3>1. t \in Seq(Int) /\ Len(t) = k /\ \A i \in 1..k : t[i] = b[0 + i]
      BY <2>6, <2>7
    <3>2. \A i \in 1..k : 0 + i = i /\ i \in 1..m
      BY <2>4
    <3> QED BY <2>4, <3>1, <3>2
  <2> HIDE DEF t
  <2>9. x.fx.file = Units(n + k)
    <3>1. Units(n) \o t = Units(n + k)
      BY <2>4, <2>6, <2>8, UnitsExtend
    <3> QED BY <1>3, <2>1, <3>1 DEF n, t, b
  <2>10. Size(x) = n + k
    <3>1. n + k \in Nat
      BY <2>4
    <3> QED BY <2>9, <3>1, UnitsParts DEF Size
  <2>11. Stored(x) = k
    <3>1. k > 0
      BY <2>4
    <3> QED BY <1>1, <3>1 DEF Stored
  <2>12. Size(x) <= ImageUnits /\ n <= Size(x) /\ x.fx.file = Units(Size(x)) /\ k <= Size(x)
         /\ Size(x) - k = n
    BY <2>4, <2>9, <2>10, FileXioAssumption
  <2>13. CASE w.wb.async = NoSlot
    <3>1. Pending(x)
      BY <1>1, <1>4, <2>12, <2>13, PendingQuiet
    <3> QED BY <1>5, <2>1, <2>10, <2>12, <2>13, <3>1 DEF n, r
  <2>14. CASE w.wb.async # NoSlot
    <3>1. /\ build = "asyncwrite" /\ r.slot = w.wb.async /\ r.len = w.wb.expected
          /\ w.fx.rpc.kind = "write"
          /\ \A i \in 1..w.wb.expected : w.wb.buf[w.wb.async][i] = Size(w) - Stored(w) + i
          /\ Base(w) = Size(w) + (w.wb.expected - Stored(w))
      BY <2>14 DEF Pending, Base, r
    <3>2. m = w.wb.expected /\ n = Size(w)
      BY <3>1 DEF m, n
    <3>3. x.wb.expected = m /\ x.wb.async = r.slot /\ x.wb.buf[r.slot] = b
      BY <1>1, <3>1 DEF m, b
    <3>4. /\ k <= m /\ n + m <= ImageUnits
      BY <2>4
    <3>5. \A i \in 1..x.wb.expected : x.wb.buf[x.wb.async][i] = Size(x) - Stored(x) + i
      BY <2>4, <2>11, <2>12, <3>3
    <3>6. Size(x) - Stored(x) + x.wb.expected <= ImageUnits
      BY <2>11, <2>12, <3>3, <3>4
    <3>7. Pending(x)
      <4>1. /\ x.fx.rpc.st # "none" /\ x.fx.rpc.kind = "write"
            /\ x.fx.rpc.slot = x.wb.async /\ x.fx.rpc.len = x.wb.expected
        BY <1>1, <1>5, <3>1, <3>3 DEF r, m
      <4>2. Stored(x) <= x.wb.expected /\ Stored(x) <= Size(x)
        BY <2>11, <2>12, <3>3, <3>4
      <4> HIDE DEF Size, Stored
      <4> QED BY <1>4, <2>12, <3>1, <3>5, <3>6, <4>1, <4>2 DEF Pending
    <3>8. Base(x) = Base(w)
      <4>1. Base(x) = Size(x) + (m - k)
        BY <1>1, <2>11, <2>14, <3>2 DEF Base
      <4>2. Base(w) = n + (m - 0)
        BY <1>3, <3>1, <3>2
      <4> HIDE DEF Size
      <4> QED BY <2>4, <2>10, <4>1, <4>2
    <3> QED BY <1>5, <2>1, <2>10, <2>12, <3>7, <3>8 DEF n, r
  <2> QED BY <2>13, <2>14
<1>6. CASE ~(r.kind = "write" /\ k # Failed)
  <2>1. r.kind = "read" \/ k = Failed
    BY <1>2, <1>6 DEF Calls
  <2>2. x.fx.file = w.fx.file
    BY <2>1 DEF ServedBy, SameFile
  <2>3. Size(x) = Size(w) /\ Size(w) <= Size(x)
    <3>1. Size(x) = Size(w)
      BY <2>2 DEF Size
    <3> HIDE DEF Size
    <3> QED BY <1>3, <3>1
  <2>4. CASE w.wb.async = NoSlot
    <3>1. Pending(x)
      <4>1. x.fx.file = Units(Size(x)) /\ Size(x) <= ImageUnits
        BY <1>3, <2>2, <2>3
      <4> QED BY <1>1, <1>4, <2>4, <4>1, PendingQuiet
    <3> QED BY <1>6, <2>2, <2>3, <2>4, <3>1
  <2>5. CASE w.wb.async # NoSlot
    <3>1. r.kind = "write" /\ k = Failed
      BY <2>1, <2>5 DEF Pending
    <3>2. Stored(x) = 0
      <4>1. ~(Failed > 0)
        BY DEF Failed
      <4> QED BY <1>1, <3>1, <4>1 DEF Stored
    <3>3. Pending(x)
      <4> HIDE DEF Size, Stored
      <4>1. /\ w.fx.rpc.slot = w.wb.async /\ w.fx.rpc.len = w.wb.expected /\ build = "asyncwrite"
            /\ Stored(w) <= w.wb.expected /\ Stored(w) <= Size(w)
            /\ Size(w) - Stored(w) + w.wb.expected <= ImageUnits
            /\ \A i \in 1..w.wb.expected : w.wb.buf[w.wb.async][i] = Size(w) - Stored(w) + i
        BY <2>5 DEF Pending
      <4> QED BY <1>1, <1>3, <1>4, <2>2, <2>3, <3>1, <3>2, <4>1 DEF Pending
    <3>4. Base(x) = Base(w)
      BY <1>1, <1>3, <2>3, <3>2 DEF Base
    <3> QED BY <1>6, <2>2, <2>3, <3>3, <3>4
  <2> QED BY <2>4, <2>5
<1> QED BY <1>5, <1>6

LEMMA RestedPending ==
  ASSUME NEW w, Sound(w), Pending(w), NEW v, Rested(w, v)
  PROVE  /\ v.fx.file = Units(Size(v)) /\ Size(v) \in Nat /\ Size(v) <= ImageUnits
         /\ Size(w) <= Size(v)
         /\ ~Queued(w, "write") => v.fx.file = w.fx.file /\ Size(v) = Size(w)
         /\ ~Queued(w, "read") => v.ra = w.ra /\ v.fx.pos = w.fx.pos
<1>1. v.fx.file \in Seq(Int) /\ Size(v) \in Nat /\ Size(w) \in Nat
      /\ w.fx.file = Units(Size(w)) /\ Size(w) <= ImageUnits
  BY RestedParts, PendingParts DEF Size
<1>2. CASE ~Busy(w)
  <2>1. SameFile(v, w) /\ v.ra = w.ra
    BY <1>2 DEF Rested
  <2>2. v.fx.file = w.fx.file /\ Size(v) = Size(w) /\ v.fx.pos = w.fx.pos
    BY <2>1 DEF SameFile, Size
  <2> HIDE DEF Size
  <2>3. Size(w) <= Size(v)
    BY <1>1, <2>2
  <2> QED BY <1>1, <2>1, <2>2, <2>3
<1>3. CASE Busy(w)
  <2>1. PICK k \in {Failed} \cup (0..BatchUnits), u \in Worlds :
               ServedBy(w, u, k) /\ SameFile(v, u) /\ v.ra = u.ra
    BY <1>3 DEF Rested
  <2>2. /\ Pending(u) /\ Size(w) <= Size(u)
        /\ (w.fx.rpc.kind = "read" \/ k = Failed => u.fx.file = w.fx.file)
    BY <1>3, <2>1, ServePending
  <2>3. v.fx.file = u.fx.file /\ Size(v) = Size(u) /\ v.fx.pos = u.fx.pos
    BY <2>1 DEF SameFile, Size
  <2>4. u.fx.file = Units(Size(u)) /\ Size(u) <= ImageUnits
    BY <2>2 DEF Pending
  <2>5. w.fx.rpc \in Requests /\ w.fx.rpc.st = "queued"
    BY <1>3, WorldParts DEF Sound, Busy
  <2>6. w.fx.rpc.kind = "read" \/ w.fx.rpc.kind = "write"
    BY <2>5, RequestParts DEF Calls
  <2>7. ~Queued(w, "write") => u.fx.file = w.fx.file
    BY <2>2, <2>5, <2>6 DEF Queued
  <2>8. ~Queued(w, "read") => u.ra = w.ra /\ u.fx.pos = w.fx.pos
    BY <2>1, <2>5, <2>6 DEF Queued, ServedBy, SameFile
  <2>9. ~Queued(w, "write") => Size(u) = Size(w)
    BY <2>7 DEF Size
  <2> HIDE DEF Size
  <2> QED BY <1>1, <2>1, <2>2, <2>3, <2>4, <2>7, <2>8, <2>9
<1> QED BY <1>2, <1>3

(* Writing the next units of the image.                                    *)
LEMMA WriteFeeds ==
  ASSUME NEW w, Sound(w), ~Busy(w), w.fx.file = Units(Size(w)),
         NEW data \in Seq(Int), NEW off \in 0..Len(data), NEW b \in Nat, Size(w) = b + off,
         \A i \in 1..Len(data) : data[i] = b + i, b + Len(data) <= ImageUnits,
         NEW x \in WriteCalls(w, data, off)
  PROVE  /\ Sound(x) /\ x.wb = w.wb /\ x.ra = w.ra /\ x.fx.mode = "WAIT" /\ x.fx.rpc = NoRequest
         /\ x.fx.open = w.fx.open /\ x.fx.pos = w.fx.pos /\ x.out = w.out
         /\ x.fx.file = Units(Size(x)) /\ Size(x) \in Nat /\ Size(x) <= ImageUnits
         /\ Size(w) <= Size(x) /\ x.rc \in {0, Failed}
         /\ x.rc = 0 => Size(x) = b + Len(data)
<1> DEFINE P(j) == SubSeq(data, off + 1, j)
           n == Len(data)
<1>0. n \in Nat /\ off \in Nat /\ off <= n
  <2>1. n \in Nat
    OBVIOUS
  <2>2. off \in 0..n
    OBVIOUS
  <2> HIDE DEF n
  <2> QED BY <2>1, <2>2
<1> HIDE DEF P
<1>1. PICK v : /\ Rested(w, v) /\ Sound(x) /\ x.wb = w.wb /\ x.ra = v.ra
               /\ x.fx.mode = "WAIT" /\ x.fx.rpc = NoRequest
               /\ x.fx.open = w.fx.open /\ x.fx.pos = v.fx.pos /\ x.out = w.out
               /\ \/ x.rc = 0 /\ x.fx.file = v.fx.file \o SubSeq(data, off + 1, Len(data))
                  \/ x.rc = Failed /\ \E j \in off..(Len(data) - 1) :
                        x.fx.file = v.fx.file \o SubSeq(data, off + 1, j)
  <2>1. off \in Nat
    BY <1>0
  <2>2. Written(w, x, data, off)
    BY <2>1, WriteOutcome
  <2> QED BY <2>2 DEF Written
<1>2. SameFile(v, w) /\ v.ra = w.ra
  BY <1>1 DEF Rested
<1>3. v.fx.file = w.fx.file /\ v.fx.pos = w.fx.pos
  BY <1>2 DEF SameFile
<1>4. PICK j \in off..n : x.fx.file = w.fx.file \o P(j) /\ (x.rc = 0 => j = n)
                          /\ x.rc \in {0, Failed}
  <2>1. n \in off..n /\ \A j \in off..(n - 1) : j \in off..n
    <3> HIDE DEF n
    <3> QED BY <1>0
  <2>2. Failed # 0
    BY DEF Failed
  <2>3. \/ x.rc = 0 /\ x.fx.file = w.fx.file \o P(n)
        \/ x.rc = Failed /\ \E j \in off..(n - 1) : x.fx.file = w.fx.file \o P(j)
    BY <1>1, <1>3 DEF P
  <2> HIDE DEF n
  <2> QED BY <2>1, <2>2, <2>3
<1> DEFINE t == P(j)
           m == j - off
           s == Size(w)
<1>5. s \in Nat /\ m \in Nat /\ j \in Int /\ j <= n /\ s = b + off /\ s + m = b + j
      /\ (off < j => m = j - off) /\ (~(off < j) => m = 0)
  <2>1. s = b + off /\ j \in off..n
    OBVIOUS
  <2> HIDE DEF s, n
  <2> QED BY <1>0, <2>1
<1>6. t \in Seq(Int) /\ Len(t) = m /\ \A i \in 1..m : t[i] = s + i
  <2>1. /\ t \in Seq(Int) /\ Len(t) = IF off < j THEN j - off ELSE 0
        /\ \A i \in 1..(j - off) : t[i] = data[off + i]
    <3>1. off \in Nat /\ j \in Int /\ j <= Len(data) /\ data \in Seq(Int)
      BY <1>0, <1>5
    <3> HIDE DEF m, s, n
    <3> QED BY <3>1, Piece DEF P
  <2> HIDE DEF t
  <2>2. Len(t) = m
    BY <1>5, <2>1
  <2>3. ASSUME NEW i \in 1..m PROVE t[i] = s + i
    <3>1. t[i] = data[off + i]
      BY <2>1
    <3>2. off + i \in 1..n /\ b + (off + i) = s + i
      <4> HIDE DEF s, n
      <4> QED BY <1>0, <1>5
    <3>3. data[off + i] = b + (off + i)
      BY <3>2
    <3> QED BY <3>1, <3>2, <3>3
  <2> QED BY <2>1, <2>2, <2>3
<1>7. x.fx.file = Units(s + m)
  <2> HIDE DEF t, m, s
  <2>1. Units(s) \o t = Units(s + m)
    BY <1>5, <1>6, UnitsExtend
  <2> QED BY <1>4, <2>1 DEF t, s
<1>8. Size(x) = s + m
  <2>1. s + m \in Nat
    <3> HIDE DEF s, m
    <3> QED BY <1>5
  <2> HIDE DEF s, m
  <2> QED BY <1>7, <2>1, UnitsParts DEF Size
<1>9. Size(x) \in Nat /\ Size(x) <= ImageUnits /\ s <= Size(x) /\ (j = n => Size(x) = b + n)
  <2>1. b + n <= ImageUnits
    OBVIOUS
  <2> HIDE DEF s, m, n, Size
  <2> QED BY <1>0, <1>5, <1>8, <2>1, FileXioAssumption
<1>10. x.fx.file = Units(Size(x))
  BY <1>7, <1>8
<1> HIDE DEF n, m, t
<1> QED BY <1>1, <1>2, <1>3, <1>4, <1>9, <1>10 DEF n

LEMMA WaitPending ==
  ASSUME NEW w, Sound(w), Pending(w), w.wb.async # NoSlot, NEW x \in WaitAsync(w)
  PROVE  /\ Sound(x) /\ x.wb = w.wb /\ x.out = w.out /\ x.ra = w.ra
         /\ x.fx.mode = w.fx.mode /\ x.fx.open = w.fx.open /\ x.fx.pos = w.fx.pos
         /\ x.fx.file = Units(Size(x)) /\ Size(x) \in Nat /\ Size(x) <= ImageUnits
         /\ Size(w) <= Size(x) /\ x.rc \in Int
         /\ \/ /\ x.answered /\ x.fx.rpc = NoRequest
               /\ x.rc > 0 => /\ x.rc \in 1..w.wb.expected
                              /\ Size(x) = (Size(w) - Stored(w)) + x.rc
            \/ ~x.answered /\ x.fx.rpc = w.fx.rpc /\ x.fx.file = w.fx.file
<1>1. /\ Size(w) \in Nat /\ Size(w) <= ImageUnits /\ w.fx.file = Units(Size(w))
      /\ w.wb.expected \in 0..BatchUnits /\ Stored(w) \in Nat
      /\ Stored(w) <= w.wb.expected /\ Stored(w) <= Size(w)
      /\ w.fx.rpc.st \in {"queued", "done"} /\ w.fx.rpc.kind = "write"
      /\ w.fx.rpc.len = w.wb.expected
  BY PendingParts
<1>2. /\ Sound(x) /\ x.wb = w.wb /\ x.out = w.out
      /\ x.fx.mode = w.fx.mode /\ x.fx.open = w.fx.open
  BY WaitOutcome
<1>3. x.rc \in Int
  BY <1>2 DEF Sound, Worlds
<1>4. CASE x.fx.file = w.fx.file /\ x.fx.pos = w.fx.pos /\ x.ra = w.ra
           /\ \/ /\ x.answered /\ x.fx.rpc = NoRequest
                 /\ x.rc > 0 => x.rc \in 1..w.wb.expected /\ x.rc = Stored(w)
              \/ ~x.answered /\ x.fx.rpc = w.fx.rpc
  <2>1. Size(x) = Size(w)
    BY <1>4 DEF Size
  <2> DEFINE a == Size(w)
             b == Stored(w)
  <2>2. a \in Nat /\ b \in Nat /\ a <= ImageUnits /\ Size(x) = a
    BY <1>1, <2>1
  <2>3. a <= a /\ (x.rc = b => a = (a - b) + x.rc)
    <3> HIDE DEF a, b
    <3> QED BY <2>2
  <2> HIDE DEF Size, Stored
  <2> QED BY <1>1, <1>2, <1>3, <1>4, <2>1, <2>3
<1>5. CASE ~x.answered
  <2>1. SameFile(x, w) /\ x.ra = w.ra /\ x.fx.rpc = w.fx.rpc
    BY <1>5, WaitOutcome
  <2> QED BY <1>4, <1>5, <2>1 DEF SameFile
<1>6. CASE x.answered /\ ~Busy(w)
  <2>1. /\ SameFile(x, w) /\ x.ra = w.ra /\ x.fx.rpc = NoRequest
        /\ x.rc = IF w.fx.rpc.st = "done" THEN w.fx.rpc.result ELSE w.fx.last
    BY <1>6, WaitOutcome
  <2>2. w.fx.rpc.st = "done" /\ x.rc = w.fx.rpc.result
    BY <1>1, <1>6, <2>1 DEF Busy
  <2>3. x.rc > 0 => x.rc = Stored(w)
    BY <2>2 DEF Stored
  <2> HIDE DEF Stored
  <2>4. x.rc > 0 => x.rc \in 1..w.wb.expected
    BY <1>1, <1>3, <2>3
  <2> QED BY <1>4, <1>6, <2>1, <2>3, <2>4 DEF SameFile
<1>7. CASE x.answered /\ Busy(w)
  <2>1. PICK v : /\ ServedBy(w, v, x.rc) /\ SameFile(x, v) /\ x.ra = v.ra
                 /\ x.fx.rpc = NoRequest /\ x.rc \in {Failed} \cup (0..BatchUnits)
    BY <1>7, WaitOutcome
  <2> DEFINE k == x.rc
  <2>2. k \in {Failed} \cup (0..BatchUnits) /\ ServedBy(w, v, k)
    BY <2>1
  <2> HIDE DEF k
  <2>3. /\ Pending(v) /\ Size(w) <= Size(v)
        /\ k = Failed => v.fx.file = w.fx.file
        /\ k # Failed => Size(v) = Size(w) + k /\ k \in 1..w.fx.rpc.len
    BY <1>1, <1>7, <2>2, ServePending
  <2>4. v.ra = w.ra /\ v.fx.pos = w.fx.pos
    BY <1>1, <2>2 DEF ServedBy, SameFile
  <2>5. x.fx.file = v.fx.file /\ x.fx.pos = v.fx.pos /\ Size(x) = Size(v)
    BY <2>1 DEF SameFile, Size
  <2>6. v.fx.file = Units(Size(v)) /\ Size(v) <= ImageUnits
    BY <2>3 DEF Pending
  <2>7. Stored(w) = 0
    BY <1>7, StoredRange DEF Busy, Sound
  <2>8. Size(x) \in Nat
    BY <1>2, StoredRange DEF Sound
  <2> DEFINE a == Size(w)
             b == Stored(w)
  <2>9. x.rc > 0 => x.rc \in 1..w.wb.expected /\ Size(x) = (a - b) + x.rc
    <3>1. k > 0 => k # Failed
      BY DEF Failed
    <3>2. a \in Nat /\ b = 0 /\ (k # Failed => Size(x) = a + k)
      BY <1>1, <2>3, <2>5, <2>7
    <3> HIDE DEF a, b
    <3>3. a - b = a
      BY <3>2
    <3> QED BY <1>1, <2>3, <3>1, <3>2, <3>3 DEF k
  <2> HIDE DEF Size, Stored
  <2> QED BY <1>2, <1>3, <1>7, <2>1, <2>3, <2>4, <2>5, <2>6, <2>8, <2>9
<1> QED BY <1>5, <1>6, <1>7

(* Settling the outstanding batch.                                         *)
LEMMA FinishOutcome ==
  ASSUME NEW w, Sound(w), Pending(w), NEW x \in WbFinish(w)
  PROVE  Finished(w, x)
<1>1. /\ w \in Worlds /\ Size(w) \in Nat /\ Base(w) \in Nat
      /\ w.wb.async \in Slots \cup {NoSlot} /\ BatchUnits \in Nat /\ Size(w) <= ImageUnits
      /\ 0 \in Int /\ Failed \in Int /\ 0 \in 0..BatchUnits
  BY PendingParts, WorldParts, FileXioAssumption DEF Sound, Failed
<1>2. CASE w.wb.async = NoSlot
  <2>1. x = Ret(w, 0)
    BY <1>2 DEF WbFinish
  <2>2. /\ x \in Worlds /\ x.fx = w.fx /\ x.wb = w.wb /\ x.ra = w.ra
        /\ x.rc = 0 /\ x.out = w.out
    BY <1>1, <2>1, RetParts
  <2>3. Sound(x)
    BY <2>2, SoundSame DEF SameFile
  <2>4. Pending(x) /\ Base(x) = Base(w) /\ Size(x) = Size(w)
    BY <2>2, PendingSame
  <2>5. Base(w) = Size(w) /\ Size(w) <= Size(x)
    <3>1. Base(w) = Size(w)
      BY <1>2, PendingParts
    <3> HIDE DEF Size
    <3> QED BY <1>1, <2>4, <3>1
  <2> QED BY <1>2, <2>2, <2>3, <2>4, <2>5 DEF Finished, SameBatch
<1>3. CASE w.wb.async # NoSlot
  <2> DEFINE slot == w.wb.async
             e == w.wb.expected
             b == Size(w) - Stored(w)
  <2>1. /\ slot \in Slots /\ e \in 0..BatchUnits /\ Stored(w) \in Nat /\ Stored(w) <= Size(w)
        /\ Base(w) = b + e /\ build = "asyncwrite"
        /\ w.fx.rpc.kind = "write" /\ w.fx.rpc.slot = slot /\ w.fx.rpc.len = e
        /\ \A i \in 1..e : w.wb.buf[slot][i] = b + i
    BY <1>3, PendingParts
  <2>2. b \in Nat /\ b + e <= ImageUnits
    <3>1. b \in Nat
      <4> DEFINE s == Size(w)
                 t == Stored(w)
      <4>1. s \in Nat /\ t \in Nat /\ t <= s /\ b = s - t
        BY <1>1, <2>1
      <4> HIDE DEF s, t, b
      <4> QED BY <4>1
    <3>2. Base(w) <= ImageUnits
      BY PendingParts
    <3> HIDE DEF b
    <3> QED BY <2>1, <3>1, <3>2
  <2>3. PICK y \in WaitAsync(w) :
          LET v == SetMode(PutAsync(y, NoSlot), "WAIT") IN
          x \in IF ~y.answered THEN {Ret(v, Failed)}
                ELSE IF y.rc <= 0 THEN {PutLen(Ret(v, Failed), slot, 0)}
                ELSE {PutLen(PutExpected(z, 0), slot, 0) :
                        z \in WriteCalls(v, SubSeq(v.wb.buf[slot], 1, v.wb.expected), y.rc)}
    BY <1>3 DEF WbFinish, After, PutAsync, WbReset, PutLen, PutExpected
  <2>4. /\ Sound(y) /\ y.wb = w.wb /\ y.out = w.out /\ y.ra = w.ra
        /\ y.fx.mode = w.fx.mode /\ y.fx.open = w.fx.open /\ y.fx.pos = w.fx.pos
        /\ y.fx.file = Units(Size(y)) /\ Size(y) \in Nat /\ Size(y) <= ImageUnits
        /\ Size(w) <= Size(y) /\ y.rc \in Int
        /\ \/ /\ y.answered /\ y.fx.rpc = NoRequest
              /\ y.rc > 0 => y.rc \in 1..e /\ Size(y) = b + y.rc
           \/ ~y.answered /\ y.fx.rpc = w.fx.rpc /\ y.fx.file = w.fx.file
    BY <1>3, WaitPending
  <2> HIDE DEF b, e, slot
  <2> DEFINE u == PutAsync(y, NoSlot)
             v == SetMode(u, "WAIT")
  <2>5. /\ u \in Worlds /\ u.fx = y.fx /\ u.ra = y.ra /\ SameCall(u, y) /\ SameBatch(u, y)
        /\ u.wb.async = NoSlot /\ u.wb.expected = y.wb.expected /\ u.wb.len = y.wb.len
    <3>1. y \in Worlds /\ NoSlot \in Slots \cup {NoSlot}
      BY <2>4 DEF Sound
    <3> QED BY <3>1, AsyncParts
  <2>6. /\ x \in IF ~y.answered THEN {Ret(v, Failed)}
                ELSE IF y.rc <= 0 THEN {PutLen(Ret(v, Failed), slot, 0)}
                ELSE {PutLen(PutExpected(z, 0), slot, 0) :
                        z \in WriteCalls(v, SubSeq(v.wb.buf[slot], 1, v.wb.expected), y.rc)}
    BY <2>3
  <2> HIDE DEF u
  <2>7. /\ v \in Worlds /\ v.wb = u.wb /\ v.ra = u.ra /\ SameCall(v, u) /\ SameFile(v, u)
        /\ v.fx.mode = "WAIT" /\ v.fx.rpc = u.fx.rpc
    BY <2>5, ModeParts
  <2> HIDE DEF v
  <2>8. /\ v \in Worlds /\ SameBatch(v, w) /\ v.wb.async = NoSlot /\ v.wb.expected = e
        /\ v.wb.len = w.wb.len /\ v.wb.fill = w.wb.fill /\ v.wb.buf = w.wb.buf
        /\ v.ra = w.ra /\ v.out = w.out /\ v.fx.mode = "WAIT"
        /\ v.fx.open = w.fx.open /\ v.fx.pos = w.fx.pos /\ v.fx.file = y.fx.file
        /\ v.fx.rpc = y.fx.rpc /\ Size(v) = Size(y) /\ SameFile(v, y)
    BY <2>4, <2>5, <2>7 DEF SameBatch, SameCall, SameFile, Size, e
  <2>9. Sound(v)
    <3>1. v.wb.fill = y.wb.fill /\ v.ra = y.ra
      BY <2>4, <2>8
    <3> QED BY <2>4, <2>8, <3>1, SoundSame
  <2>10. ASSUME NEW z, Sound(z), z.wb.async = NoSlot, z.fx.rpc = NoRequest \/ z.fx.rpc = w.fx.rpc,
                SameBatch(z, w), z.fx.open = w.fx.open, z.fx.pos = w.fx.pos, z.ra = w.ra,
                z.out = w.out, z.fx.file = Units(Size(z)), Size(z) <= ImageUnits, Size(w) <= Size(z),
                z.fx.rpc = w.fx.rpc => z.fx.file = w.fx.file,
                \A s \in Slots : s # w.wb.async => z.wb.len[s] = w.wb.len[s],
                \/ z.rc = Failed
                \/ z.rc = 0 /\ Size(z) = Base(w) /\ z.fx.rpc = NoRequest /\ z.fx.mode = "WAIT"
         PROVE  Finished(w, z)
    <3>1. Pending(z)
      <4>1. CASE z.fx.rpc = NoRequest
        <5>1. ~Queued(z, "write")
          BY <4>1 DEF Queued, NoRequest
        <5> QED BY <2>10, <5>1, PendingQuiet
      <4>2. CASE z.fx.rpc = w.fx.rpc
        <5>1. z.fx.file = w.fx.file
          BY <2>10, <4>2
        <5>2. Size(z) = Size(w) /\ z.wb.buf = w.wb.buf
          BY <2>10, <5>1 DEF Size, SameBatch
        <5>3. Queued(z, "write") =>
                /\ Size(z) + z.fx.rpc.len <= ImageUnits
                /\ \A i \in 1..z.fx.rpc.len : z.wb.buf[z.fx.rpc.slot][i] = Size(z) + i
          BY <4>2, <5>2 DEF Pending, Queued
        <5> HIDE DEF Size
        <5> QED BY <2>10, <5>3 DEF Pending
      <4> QED BY <2>10, <4>1, <4>2
    <3>2. z.fx.rpc.st = "queued" => z.fx.rpc = w.fx.rpc
      BY <2>10 DEF NoRequest
    <3>3. z.rc = 0 => Size(z) = Base(w) /\ z.fx.rpc = NoRequest /\ z.fx.mode = "WAIT"
      BY <2>10 DEF Failed
    <3>4. z.rc \in {0, Failed}
      BY <2>10
    <3> QED BY <1>3, <2>10, <3>1, <3>2, <3>3, <3>4, Zenon DEF Finished
  <2>11. ASSUME NEW q, q = Ret(v, Failed)
         PROVE  /\ Sound(q) /\ q \in Worlds /\ q.fx = v.fx /\ q.wb = v.wb /\ q.ra = v.ra
                /\ q.rc = Failed /\ q.out = v.out /\ Size(q) = Size(v)
    <3>1. /\ q \in Worlds /\ q.fx = v.fx /\ q.wb = v.wb /\ q.ra = v.ra
          /\ q.rc = Failed /\ q.out = v.out
      BY <1>1, <2>8, <2>11, RetParts
    <3>2. Sound(q)
      BY <2>9, <3>1, SoundSame DEF SameFile
    <3> QED BY <3>1, <3>2 DEF Size
  <2>12. CASE ~y.answered
    <3>1. x = Ret(v, Failed)
      BY <2>6, <2>12
    <3>2. /\ Sound(x) /\ x.fx = v.fx /\ x.wb = v.wb /\ x.ra = v.ra
          /\ x.rc = Failed /\ x.out = v.out /\ Size(x) = Size(v)
      BY <2>11, <3>1
    <3>3. y.fx.rpc = w.fx.rpc /\ y.fx.file = w.fx.file
      BY <2>4, <2>12
    <3>4. SameBatch(x, w)
      BY <2>8, <3>2 DEF SameBatch
    <3> HIDE DEF Size
    <3> QED BY <2>4, <2>8, <2>10, <3>2, <3>3, <3>4
  <2>13. CASE y.answered /\ y.rc <= 0
    <3> DEFINE q == Ret(v, Failed)
    <3>1. x = PutLen(q, slot, 0)
      BY <2>6, <2>13
    <3>2. /\ Sound(q) /\ q \in Worlds /\ q.fx = v.fx /\ q.wb = v.wb /\ q.ra = v.ra
          /\ q.rc = Failed /\ q.out = v.out /\ Size(q) = Size(v)
      BY <2>11
    <3> HIDE DEF q
    <3>3. /\ x \in Worlds /\ x.fx = q.fx /\ x.ra = q.ra /\ SameCall(x, q) /\ SameBatch(x, q)
          /\ x.wb.async = q.wb.async
          /\ \A t \in Slots : t # slot => x.wb.len[t] = q.wb.len[t]
      <4> DEFINE p == PutLen(q, slot, 0)
      <4>1. x = p /\ slot \in Slots
        BY <2>1, <3>1
      <4>2. /\ p \in Worlds /\ p.fx = q.fx /\ p.ra = q.ra /\ SameCall(p, q) /\ SameBatch(p, q)
            /\ p.wb.async = q.wb.async
            /\ \A t \in Slots : t # slot => p.wb.len[t] = q.wb.len[t]
        BY <1>1, <3>2, <4>1, LenParts
      <4> HIDE DEF p
      <4> QED BY <4>1, <4>2
    <3>4. y.fx.rpc = NoRequest
      BY <2>4, <2>13
    <3>5. Sound(x)
      BY <3>2, <3>3, SoundSame DEF SameFile, SameBatch
    <3>6. SameBatch(x, w) /\ Size(x) = Size(v) /\ x.rc = Failed /\ x.out = v.out
      BY <2>8, <3>2, <3>3 DEF SameBatch, Size, SameCall
    <3>7. x.fx.rpc = w.fx.rpc => FALSE
      BY <2>8, <3>2, <3>3, <3>4, <1>3 DEF Pending, NoRequest
    <3> HIDE DEF Size
    <3> QED BY <2>4, <2>8, <2>10, <3>2, <3>3, <3>4, <3>5, <3>6, <3>7 DEF slot
  <2>14. CASE y.answered /\ ~(y.rc <= 0)
    <3> DEFINE d == SubSeq(v.wb.buf[slot], 1, v.wb.expected)
               k == y.rc
    <3>1. PICK z \in WriteCalls(v, d, k) : x = PutLen(PutExpected(z, 0), slot, 0)
      BY <2>6, <2>14
    <3>2. k \in 1..e /\ Size(y) = b + k /\ y.fx.rpc = NoRequest
      <4>1. y.rc > 0
        BY <2>4, <2>14
      <4> QED BY <2>4, <2>14, <4>1
    <3>3. d \in Seq(Int) /\ Len(d) = e /\ \A i \in 1..e : d[i] = b + i
      <4> DEFINE c == v.wb.buf[slot]
      <4>1. c \in [1..BatchUnits -> Int] /\ \A i \in 1..e : c[i] = b + i
        <5>1. w.wb.buf \in [Slots -> [1..BatchUnits -> Int]]
          BY <1>1, WorldParts
        <5>2. c = w.wb.buf[slot]
          BY <2>8
        <5>3. \A i \in 1..e : w.wb.buf[slot][i] = b + i
          BY <2>1 DEF e, slot, b
        <5>4. slot \in Slots
          BY <2>1
        <5> HIDE DEF c
        <5> QED BY <5>1, <5>2, <5>3, <5>4
      <4>2. d = SubSeq(c, 1, e)
        BY <2>8
      <4> HIDE DEF c, d
      <4>3. e \in Nat /\ e <= BatchUnits /\ e > 0
        BY <1>1, <2>1, <3>2 DEF e
      <4>4. c \in Seq(Int) /\ Len(c) = BatchUnits
        BY <1>1, <4>1
      <4>5. e \in Int /\ e <= Len(c) /\ 0 \in Nat /\ 0 + 1 = 1 /\ 0 < e /\ e - 0 = e
            /\ \A i \in 1..e : 0 + i = i
        BY <1>1, <4>3, <4>4
      <4>6. /\ SubSeq(c, 0 + 1, e) \in Seq(Int)
            /\ Len(SubSeq(c, 0 + 1, e)) = e
            /\ \A i \in 1..(e - 0) : SubSeq(c, 0 + 1, e)[i] = c[0 + i]
        BY <4>4, <4>5, Piece
      <4> QED BY <4>1, <4>2, <4>5, <4>6
    <3>4. k \in 0..Len(d) /\ Size(v) = b + k /\ b + Len(d) <= ImageUnits
          /\ v.fx.file = Units(Size(v)) /\ ~Busy(v)
          /\ \A i \in 1..Len(d) : d[i] = b + i
      <4>1. k \in 0..Len(d) /\ b + Len(d) <= ImageUnits
        <5> HIDE DEF d, k
        <5>1. e \in Nat
          BY <1>1, <2>1 DEF e
        <5> QED BY <2>2, <3>2, <3>3, <5>1
      <4>2. ~Busy(v)
        BY <2>8, <3>2 DEF Busy, NoRequest
      <4>3. Size(v) = b + k /\ v.fx.file = Units(Size(v))
        <5> HIDE DEF Size, k
        <5> QED BY <2>4, <2>8, <3>2
      <4> QED BY <3>3, <4>1, <4>2, <4>3
    <3> HIDE DEF d, k
    <3>5. /\ Sound(z) /\ z.wb = v.wb /\ z.ra = v.ra /\ z.fx.mode = "WAIT" /\ z.fx.rpc = NoRequest
          /\ z.fx.open = v.fx.open /\ z.fx.pos = v.fx.pos /\ z.out = v.out
          /\ z.fx.file = Units(Size(z)) /\ Size(z) \in Nat /\ Size(z) <= ImageUnits
          /\ Size(v) <= Size(z) /\ z.rc \in {0, Failed}
          /\ z.rc = 0 => Size(z) = b + Len(d)
      BY <2>2, <2>9, <3>1, <3>3, <3>4, WriteFeeds
    <3> DEFINE q == PutExpected(z, 0)
    <3>6. /\ q \in Worlds /\ q.fx = z.fx /\ q.ra = z.ra /\ SameCall(q, z) /\ SameBatch(q, z)
          /\ q.wb.async = z.wb.async /\ q.wb.len = z.wb.len
      <4>1. z \in Worlds
        BY <3>5 DEF Sound
      <4> QED BY <1>1, <4>1, ExpectedParts
    <3>7. x = PutLen(q, slot, 0)
      BY <3>1
    <3> HIDE DEF q
    <3>8. /\ x \in Worlds /\ x.fx = q.fx /\ x.ra = q.ra /\ SameCall(x, q) /\ SameBatch(x, q)
          /\ x.wb.async = q.wb.async
          /\ \A t \in Slots : t # slot => x.wb.len[t] = q.wb.len[t]
      <4> DEFINE p == PutLen(q, slot, 0)
      <4>1. x = p /\ slot \in Slots
        BY <2>1, <3>7
      <4>2. /\ p \in Worlds /\ p.fx = q.fx /\ p.ra = q.ra /\ SameCall(p, q) /\ SameBatch(p, q)
            /\ p.wb.async = q.wb.async
            /\ \A t \in Slots : t # slot => p.wb.len[t] = q.wb.len[t]
        BY <1>1, <3>6, <4>1, LenParts
      <4> HIDE DEF p
      <4> QED BY <4>1, <4>2
    <3>9. Sound(x)
      BY <3>5, <3>6, <3>8, SoundSame DEF SameFile, SameBatch
    <3>10. SameBatch(x, w) /\ Size(x) = Size(z) /\ x.rc = z.rc /\ x.out = w.out /\ x.fx = z.fx
           /\ x.ra = w.ra /\ x.wb.async = NoSlot /\ x.wb.len = x.wb.len
           /\ \A s \in Slots : s # w.wb.async => x.wb.len[s] = w.wb.len[s]
      BY <2>8, <3>5, <3>6, <3>8 DEF SameBatch, Size, SameCall, slot
    <3>11. x.fx.rpc = w.fx.rpc => FALSE
      BY <1>3, <3>5, <3>10 DEF Pending, NoRequest
    <3>12. Size(w) <= Size(x)
      <4>1. Size(w) \in Nat /\ Size(v) = Size(y) /\ Size(w) <= Size(y) /\ Size(v) <= Size(z)
            /\ Size(y) \in Nat /\ Size(z) \in Nat
        BY <1>1, <2>4, <2>8, <3>5
      <4> HIDE DEF Size
      <4> QED BY <3>10, <4>1
    <3>13. x.rc = Failed \/ (x.rc = 0 /\ Size(x) = Base(w))
      <4>1. Base(w) = b + e
        BY <2>1 DEF b, e
      <4> HIDE DEF Size, Base
      <4> QED BY <3>3, <3>5, <3>10, <4>1
    <3> HIDE DEF Size, Base
    <3> QED BY <2>8, <2>10, <3>5, <3>9, <3>10, <3>11, <3>12, <3>13
  <2> QED BY <2>12, <2>13, <2>14
<1> QED BY <1>2, <1>3

(* Multiples of the sizes.                                                 *)
LEMMA Monotone ==
  ASSUME NEW m \in Nat, NEW p \in Nat, NEW q \in Nat, p <= q
  PROVE  p * m <= q * m
<1> DEFINE d == q - p
<1>1. d \in Nat /\ q = p + d
  OBVIOUS
<1> HIDE DEF d
<1>2. (p + d) * m = p * m + d * m
  BY <1>1
<1>3. d * m \in Nat /\ p * m \in Nat
  BY <1>1
<1> QED BY <1>1, <1>2, <1>3

LEMMA MultipleStep ==
  ASSUME NEW m \in Nat \ {0}, NEW a \in Nat, NEW b \in Nat, Multiple(a, m), Multiple(b, m)
  PROVE  /\ Multiple(a + m, m) /\ Multiple(a + b, m)
         /\ a < b => a + m <= b
<1>1. PICK p \in Nat : a = p * m
  BY DEF Multiple
<1>2. PICK q \in Nat : b = q * m
  BY DEF Multiple
<1>3. (p + 1) * m = p * m + m /\ p + 1 \in Nat /\ (p + q) * m = p * m + q * m /\ p + q \in Nat
  OBVIOUS
<1>4. Multiple(a + m, m) /\ Multiple(a + b, m)
  BY <1>1, <1>2, <1>3 DEF Multiple
<1>5. a < b => a + m <= b
  <2> SUFFICES ASSUME a < b PROVE a + m <= b
    OBVIOUS
  <2>1. ~(q <= p)
    <3> SUFFICES ASSUME q <= p PROVE FALSE
      OBVIOUS
    <3>1. q * m <= p * m
      BY Monotone
    <3> QED BY <1>1, <1>2, <3>1
  <2>2. p + 1 <= q
    BY <2>1
  <2>3. (p + 1) * m <= q * m
    BY <1>3, <2>2, Monotone
  <2> QED BY <1>1, <1>2, <1>3, <2>3
<1> QED BY <1>4, <1>5

LEMMA DividesMultiple ==
  ASSUME NEW m \in Nat \ {0}, NEW a \in Nat, a % m = 0
  PROVE  Multiple(a, m)
<1>1. a \div m \in Nat /\ a = m * (a \div m) + (a % m)
  OBVIOUS
<1>2. a = (a \div m) * m
  BY <1>1
<1> QED BY <1>1, <1>2 DEF Multiple

LEMMA MultipleOf ==
  ASSUME NEW m \in Nat, NEW b \in Nat, NEW a \in Nat, Multiple(b, m), Multiple(a, b)
  PROVE  Multiple(a, m)
<1>1. PICK p \in Nat : a = p * b
  BY DEF Multiple
<1>2. PICK q \in Nat : b = q * m
  BY DEF Multiple
<1>3. p * (q * m) = (p * q) * m /\ p * q \in Nat
  OBVIOUS
<1> QED BY <1>1, <1>2, <1>3 DEF Multiple

(* The sizes of records, batches and images.                               *)
LEMMA Sizes ==
  /\ RecordUnits \in Nat \ {0} /\ BatchUnits \in Nat \ {0} /\ ImageUnits \in Nat \ {0}
  /\ Multiple(BatchUnits, RecordUnits) /\ Multiple(ImageUnits, BatchUnits)
  /\ Multiple(ImageUnits, RecordUnits) /\ RecordUnits <= BatchUnits
<1>1. RecordUnits \in Nat \ {0} /\ BatchUnits \in Nat \ {0} /\ ImageUnits \in Nat \ {0}
      /\ BatchUnits % RecordUnits = 0 /\ ImageUnits % BatchUnits = 0
  BY FileXioAssumption
<1>2. Multiple(BatchUnits, RecordUnits) /\ Multiple(ImageUnits, BatchUnits)
  BY <1>1, DividesMultiple
<1>3. Multiple(ImageUnits, RecordUnits)
  BY <1>1, <1>2, MultipleOf
<1>4. RecordUnits <= BatchUnits
  <2>1. Multiple(0, RecordUnits)
    <3>1. 0 = 0 * RecordUnits /\ 0 \in Nat
      BY <1>1
    <3> QED BY <3>1 DEF Multiple
  <2>2. 0 \in Nat /\ 0 < BatchUnits /\ 0 + RecordUnits = RecordUnits
    BY <1>1
  <2> QED BY <1>1, <1>2, <2>1, <2>2, MultipleStep
<1> QED BY <1>1, <1>2, <1>3, <1>4

(* ------------------------- handing a batch on ------------------------- *)
LEMMA FedStart ==
  ASSUME NEW x, Pending(x), x.wb.async # x.wb.fill,
         x.wb.async = NoSlot => x.fx.rpc.st # "queued",
         x.wb.len[x.wb.fill] = 0, Multiple(Base(x), BatchUnits), Base(x) \in Nat,
         Base(x) <= ImageUnits
  PROVE  Fed(x, Base(x))
<1> DEFINE n == x.wb.len[x.wb.fill]
<1>1. n = 0 /\ n < BatchUnits /\ \A i \in 1..n : FALSE
  <2>1. n = 0
    OBVIOUS
  <2> HIDE DEF n
  <2> QED BY <2>1, FileXioAssumption
<1>2. Multiple(n, RecordUnits)
  <2>1. 0 = 0 * RecordUnits /\ 0 \in Nat
    BY FileXioAssumption
  <2> QED BY <1>1, <2>1 DEF Multiple
<1>3. Base(x) = Base(x) + n
  <2> HIDE DEF Base, n
  <2> QED BY <1>1
<1> HIDE DEF Base
<1> QED BY <1>1, <1>2, <1>3 DEF Fed

LEMMA SubmitFills ==
  ASSUME NEW y, Sound(y), Pending(y), y.wb.async = NoSlot, ~Busy(y), y.fx.open # 0,
         NEW s \in Slots, y.wb.fill = s, y.wb.len[s] = BatchUnits, build = "asyncwrite",
         Size(y) + BatchUnits <= ImageUnits,
         \A i \in 1..BatchUnits : y.wb.buf[s][i] = Size(y) + i,
         NEW z \in WbSubmit(y, s),
         NEW x, x = IF z.rc < 0 THEN z ELSE PutLen(PutFill(z, 1 - s), 1 - s, 0)
  PROVE  /\ Kept(y, x) /\ x.wb.buf = y.wb.buf /\ Size(x) = Size(y)
         /\ x.rc = 0 => /\ x.wb.async = s /\ x.wb.fill = 1 - s /\ x.wb.len[1 - s] = 0
                        /\ Base(x) = Size(y) + BatchUnits
<1>0. /\ y \in Worlds /\ Size(y) \in Nat /\ Size(y) <= ImageUnits /\ y.fx.file = Units(Size(y))
      /\ BatchUnits \in Nat \ {0} /\ BatchUnits \in 1..BatchUnits /\ BatchUnits \in 0..BatchUnits
      /\ 0 \in 0..BatchUnits
  <2>1. BatchUnits \in Nat \ {0}
    BY FileXioAssumption
  <2>2. BatchUnits \in 1..BatchUnits /\ BatchUnits \in 0..BatchUnits /\ 0 \in 0..BatchUnits
    BY <2>1
  <2> QED BY <2>1, <2>2, PendingParts DEF Sound
<1>1. PICK u \in SubmitCall(y, "write", s, BatchUnits) :
         z = IF u.rc < 0 THEN u ELSE PutSubmitted(u, s, BatchUnits)
  <2>1. ~(y.wb.async # NoSlot \/ y.wb.len[s] = 0)
    BY <1>0
  <2> QED BY <2>1, ZenonT(30) DEF WbSubmit, PutSubmitted
<1>2. PICK v : /\ Rested(y, v) /\ u \in Worlds /\ u.wb = y.wb /\ u.ra = v.ra
               /\ SameFile(u, v) /\ u.out = y.out
               /\ \/ /\ u.rc = 0 /\ u.fx.mode = "NOWAIT"
                     /\ u.fx.rpc = [st |-> "queued", kind |-> "write", slot |-> s,
                                    len |-> BatchUnits]
                  \/ /\ u.rc = Failed /\ u.fx.mode = "WAIT" /\ u.fx.rpc = NoRequest
                     /\ Sound(u)
  <2>1. "write" \in Calls
    BY DEF Calls
  <2>2. Requested(y, u, "write", s, BatchUnits)
    BY <1>0, <2>1, SubmitOutcome
  <2> QED BY <2>2 DEF Requested
<1>3. SameFile(v, y) /\ v.ra = y.ra
  BY <1>2 DEF Rested
<1>4. /\ u.ra = y.ra /\ u.fx.open = y.fx.open /\ u.fx.pos = y.fx.pos /\ u.fx.file = y.fx.file
      /\ Size(u) = Size(y)
  BY <1>2, <1>3 DEF SameFile, Size
<1>5. CASE u.rc = Failed /\ u.fx.rpc = NoRequest /\ Sound(u)
  <2>1. x = u
    BY <1>1, <1>5 DEF Failed
  <2>2. ~Queued(u, "write") /\ ~Queued(u, "read")
    BY <1>5 DEF Queued, NoRequest
  <2>3. Size(y) <= Size(u) /\ Failed # 0 /\ u.fx.file = Units(Size(u)) /\ Size(u) <= ImageUnits
    <3>1. Failed # 0
      BY DEF Failed
    <3> HIDE DEF Size
    <3> QED BY <1>0, <1>4, <3>1
  <2>4. Pending(u)
    BY <1>2, <2>2, <2>3, PendingQuiet
  <2> QED BY <1>2, <1>4, <1>5, <2>1, <2>2, <2>3, <2>4 DEF Kept
<1>6. CASE /\ u.rc = 0
           /\ u.fx.rpc = [st |-> "queued", kind |-> "write", slot |-> s, len |-> BatchUnits]
  <2> DEFINE t == 1 - s
             q == PutFill(z, t)
  <2>1. t \in Slots /\ t # s /\ s # NoSlot
    BY DEF Slots, NoSlot
  <2>2. z = PutSubmitted(u, s, BatchUnits)
    BY <1>1, <1>6
  <2> HIDE DEF t
  <2>3. /\ z \in Worlds /\ z.fx = u.fx /\ z.ra = u.ra /\ SameCall(z, u) /\ SameBatch(z, u)
        /\ z.wb.async = s /\ z.wb.expected = BatchUnits /\ z.wb.len = u.wb.len
    <3> DEFINE p == PutSubmitted(u, s, BatchUnits)
    <3>1. /\ p \in Worlds /\ p.fx = u.fx /\ p.ra = u.ra /\ SameCall(p, u) /\ SameBatch(p, u)
          /\ p.wb.async = s /\ p.wb.expected = BatchUnits /\ p.wb.len = u.wb.len
      BY <1>0, <1>2, SubmittedParts
    <3> HIDE DEF p
    <3> QED BY <2>2, <3>1 DEF p
  <2>4. /\ q \in Worlds /\ q.fx = z.fx /\ q.ra = z.ra /\ SameCall(q, z)
        /\ q.wb.depth = z.wb.depth /\ q.wb.fd = z.wb.fd /\ q.wb.buf = z.wb.buf
        /\ q.wb.fill = t /\ q.wb.async = z.wb.async /\ q.wb.expected = z.wb.expected
        /\ q.wb.len = z.wb.len
    BY <2>1, <2>3, FillParts
  <2>5. x = PutLen(q, t, 0)
    BY <1>6, <2>3 DEF t, SameCall
  <2> HIDE DEF q
  <2>6. /\ x \in Worlds /\ x.fx = q.fx /\ x.ra = q.ra /\ SameCall(x, q) /\ SameBatch(x, q)
        /\ x.wb.async = q.wb.async /\ x.wb.expected = q.wb.expected /\ x.wb.len[t] = 0
    <3> DEFINE p == PutLen(q, t, 0)
    <3>1. /\ p \in Worlds /\ p.fx = q.fx /\ p.ra = q.ra /\ SameCall(p, q) /\ SameBatch(p, q)
          /\ p.wb.async = q.wb.async /\ p.wb.expected = q.wb.expected /\ p.wb.len[t] = 0
      BY <1>0, <2>1, <2>4, LenParts
    <3> HIDE DEF p
    <3> QED BY <2>5, <3>1 DEF p
  <2>7. /\ x.fx = u.fx /\ x.ra = y.ra /\ x.rc = 0 /\ x.out = y.out
        /\ x.wb.depth = y.wb.depth /\ x.wb.fd = y.wb.fd /\ x.wb.buf = y.wb.buf
        /\ x.wb.fill = t /\ x.wb.async = s /\ x.wb.expected = BatchUnits
    BY <1>2, <1>4, <1>6, <2>3, <2>4, <2>6 DEF SameCall, SameBatch
  <2>8. /\ x.fx.rpc.st = "queued" /\ x.fx.rpc.kind = "write" /\ x.fx.rpc.slot = s
        /\ x.fx.rpc.len = BatchUnits /\ x.fx.open = y.fx.open /\ x.fx.pos = y.fx.pos
        /\ x.fx.file = y.fx.file /\ ~Queued(x, "read")
    BY <1>4, <1>6, <2>7 DEF Queued
  <2>9. Sound(x)
    <3>1. Shape(y.ra) /\ y.fx.pos <= Len(y.fx.file)
      BY DEF Sound
    <3> QED BY <2>1, <2>6, <2>7, <2>8, <3>1, Zenon DEF Sound, Queued
  <2>10. Stored(x) = 0 /\ Size(x) = Size(y)
    BY <2>8 DEF Stored, Size
  <2>11. Base(x) = Size(y) + BatchUnits /\ Size(x) - Stored(x) + x.wb.expected <= ImageUnits
         /\ Stored(x) <= x.wb.expected /\ Stored(x) <= Size(x) /\ Size(y) <= Size(x)
         /\ Size(x) - Stored(x) = Size(x)
    <3>1. Base(x) = Size(x) + (x.wb.expected - Stored(x))
      BY <2>1, <2>7 DEF Base
    <3> HIDE DEF Size, Stored, Base
    <3> QED BY <1>0, <2>7, <2>10, <3>1
  <2>12. Pending(x)
    <3> HIDE DEF Size, Stored
    <3>1. /\ \A i \in 1..x.fx.rpc.len : x.wb.buf[x.fx.rpc.slot][i] = Size(x) + i
          /\ Size(x) + x.fx.rpc.len <= ImageUnits
      BY <1>0, <2>7, <2>8, <2>10, SMTT(30)
    <3>2. \A i \in 1..x.wb.expected : x.wb.buf[x.wb.async][i] = Size(x) - Stored(x) + i
      BY <1>0, <2>7, <2>10, <2>11
    <3>3. /\ x.fx.file = Units(Size(x)) /\ Size(x) <= ImageUnits
          /\ x.fx.rpc.st # "none" /\ x.fx.rpc.slot = x.wb.async /\ x.fx.rpc.len = x.wb.expected
      BY <1>0, <2>7, <2>8, <2>10
    <3> QED BY <2>8, <2>11, <3>1, <3>2, <3>3, Zenon DEF Pending
  <2>13. Kept(y, x)
    BY <2>7, <2>8, <2>9, <2>11, <2>12 DEF Kept
  <2> QED BY <2>6, <2>7, <2>10, <2>11, <2>13 DEF t
<1> QED BY <1>2, <1>5, <1>6

LEMMA FlushOutcome ==
  ASSUME NEW w, NEW s \in Slots, Filled(w, s), NEW x \in FlushFullSlot(w, s)
  PROVE  /\ Kept(w, x) /\ x.wb.buf = w.wb.buf
         /\ x.rc = 0 => Fed(x, Base(w) + BatchUnits)
<1>0. /\ Sound(w) /\ Pending(w) /\ w.fx.open # 0 /\ w.wb.fill = s /\ w.wb.len[s] = BatchUnits
      /\ w.wb.async # s /\ (w.wb.async = NoSlot => w.fx.rpc.st # "queued") /\ ~Queued(w, "read")
      /\ Multiple(Base(w), BatchUnits) /\ Base(w) + BatchUnits <= ImageUnits
      /\ \A i \in 1..BatchUnits : w.wb.buf[s][i] = Base(w) + i
  BY DEF Filled
<1>1. w \in Worlds /\ Size(w) \in Nat /\ Size(w) <= Base(w) /\ Base(w) \in Nat
      /\ BatchUnits \in Nat \ {0}
  BY <1>0, PendingParts, FileXioAssumption DEF Sound
<1>2. Multiple(Base(w) + BatchUnits, BatchUnits) /\ Base(w) + BatchUnits \in Nat
  <2> DEFINE b == Base(w)
  <2>1. b \in Nat /\ Multiple(b, BatchUnits)
    BY <1>0, <1>1
  <2> HIDE DEF b
  <2>2. Multiple(b + BatchUnits, BatchUnits) /\ b + BatchUnits \in Nat
    BY <1>1, <2>1, MultipleStep
  <2> QED BY <2>2 DEF b
<1> DEFINE a == Base(w) + BatchUnits
<1>3. ASSUME Pending(x), x.wb.async # x.wb.fill, x.wb.async = NoSlot => x.fx.rpc.st # "queued",
             x.wb.len[x.wb.fill] = 0, Base(x) = a
      PROVE  Fed(x, a)
  <2>1. Multiple(a, BatchUnits) /\ a \in Nat /\ a <= ImageUnits
    BY <1>0, <1>2
  <2> HIDE DEF a, Base
  <2> QED BY <1>3, <2>1, FedStart
<1>4. CASE build = "asyncwrite"
  <2>1. PICK y \in WbFinish(w) :
          IF y.rc < 0 THEN x = y
          ELSE \E z \in WbSubmit(y, s) :
                 x = IF z.rc < 0 THEN z ELSE PutLen(PutFill(z, 1 - s), 1 - s, 0)
    <3> DEFINE G(z) == IF z.rc < 0 THEN {z} ELSE {PutLen(PutFill(z, 1 - s), 1 - s, 0)}
               F(y) == UNION {G(z) : z \in WbSubmit(y, s)}
    <3>1. FlushFullSlot(w, s) = UNION {IF y.rc < 0 THEN {y} ELSE F(y) : y \in WbFinish(w)}
      BY <1>4 DEF FlushFullSlot, Then, WbReset, PutLen, PutFill
    <3> HIDE DEF F
    <3>2. PICK y \in WbFinish(w) : x \in IF y.rc < 0 THEN {y} ELSE F(y)
      BY <3>1
    <3>3. CASE y.rc < 0
      BY <3>2, <3>3
    <3>4. CASE ~(y.rc < 0)
      <4>1. x \in F(y)
        BY <3>2, <3>4
      <4> HIDE DEF G
      <4>2. PICK z \in WbSubmit(y, s) : x \in G(z)
        BY <4>1 DEF F
      <4>3. x = IF z.rc < 0 THEN z ELSE PutLen(PutFill(z, 1 - s), 1 - s, 0)
        BY <4>2 DEF G
      <4> QED BY <3>2, <3>4, <4>2, <4>3
    <3> QED BY <3>3, <3>4
  <2>2. Finished(w, y)
    BY <1>0, FinishOutcome
  <2>3. /\ Sound(y) /\ Pending(y) /\ SameBatch(y, w) /\ y.wb.async = NoSlot
        /\ y.fx.open = w.fx.open /\ y.fx.pos = w.fx.pos /\ y.ra = w.ra /\ y.out = w.out
        /\ Size(w) <= Size(y) /\ y.rc \in {0, Failed}
        /\ y.wb.depth = w.wb.depth /\ y.wb.fill = s /\ y.wb.fd = w.wb.fd /\ y.wb.buf = w.wb.buf
        /\ y.wb.len[s] = BatchUnits
        /\ y.fx.rpc.st = "queued" => y.fx.rpc = w.fx.rpc
    BY <1>0, <2>2 DEF Finished, SameBatch
  <2>4. CASE y.rc = Failed
    <3>1. x = y
      BY <2>1, <2>4 DEF Failed
    <3>2. ~Queued(y, "read")
      BY <1>0, <2>3 DEF Queued
    <3>3. Failed # 0
      BY DEF Failed
    <3> QED BY <1>4, <2>3, <2>4, <3>1, <3>2, <3>3 DEF Kept
  <2>5. CASE y.rc = 0
    <3>1. PICK z \in WbSubmit(y, s) :
                 x = IF z.rc < 0 THEN z ELSE PutLen(PutFill(z, 1 - s), 1 - s, 0)
      BY <2>1, <2>5
    <3>2. Size(y) = Base(w) /\ ~Busy(y)
      BY <1>0, <2>2, <2>5 DEF Finished, Busy, NoRequest
    <3>3. Size(y) + BatchUnits <= ImageUnits /\ y.fx.open # 0
          /\ \A i \in 1..BatchUnits : y.wb.buf[s][i] = Size(y) + i
      BY <1>0, <2>3, <3>2
    <3> HIDE DEF Size, Base
    <3>4. /\ Kept(y, x) /\ x.wb.buf = y.wb.buf /\ Size(x) = Size(y)
          /\ x.rc = 0 => /\ x.wb.async = s /\ x.wb.fill = 1 - s /\ x.wb.len[1 - s] = 0
                         /\ Base(x) = Size(y) + BatchUnits
      BY <1>4, <2>3, <3>1, <3>2, <3>3, SubmitFills
    <3>5. /\ Sound(x) /\ Pending(x) /\ ~Queued(x, "read") /\ x.rc \in {0, Failed}
          /\ x.fx.open = y.fx.open /\ x.fx.pos = y.fx.pos /\ x.ra = y.ra /\ x.out = y.out
          /\ x.wb.depth = y.wb.depth /\ x.wb.fd = y.wb.fd
      BY <3>4 DEF Kept
    <3>6. Size(w) <= Size(x)
      BY <2>3, <3>4
    <3>7. Kept(w, x)
      BY <1>4, <2>3, <3>5, <3>6 DEF Kept
    <3>8. x.rc = 0 => Fed(x, a)
      <4> SUFFICES ASSUME x.rc = 0 PROVE Fed(x, a)
        OBVIOUS
      <4>1. 1 - s # s /\ s # NoSlot
        BY DEF Slots, NoSlot
      <4>2. Base(x) = a
        BY <3>2, <3>4
      <4>3. x.wb.async # x.wb.fill /\ x.wb.len[x.wb.fill] = 0 /\ x.wb.async # NoSlot
        BY <3>4, <4>1
      <4> HIDE DEF a
      <4> QED BY <1>3, <3>5, <4>2, <4>3
    <3> QED BY <2>3, <3>4, <3>7, <3>8
  <2> QED BY <2>3, <2>4, <2>5
<1>5. CASE build # "asyncwrite"
  <2> DEFINE d == SubSeq(w.wb.buf[s], 1, BatchUnits)
  <2>1. PICK z \in WriteCalls(w, d, 0) : x = PutLen(z, s, 0)
    BY <1>0, <1>5 DEF FlushFullSlot, WbReset, WbData, PutLen
  <2>2. w.wb.async = NoSlot
    BY <1>0, <1>5, PendingParts
  <2>3. ~Busy(w) /\ Base(w) = Size(w) /\ w.fx.file = Units(Size(w))
    BY <1>0, <2>2, PendingParts DEF Busy
  <2>4. d \in Seq(Int) /\ Len(d) = BatchUnits /\ \A i \in 1..BatchUnits : d[i] = Base(w) + i
    <3> DEFINE c == w.wb.buf[s]
    <3>1. c \in [1..BatchUnits -> Int]
      BY <1>1, WorldParts
    <3>2. \A i \in 1..BatchUnits : c[i] = Base(w) + i
      BY <1>0
    <3> HIDE DEF c
    <3>3. c \in Seq(Int) /\ Len(c) = BatchUnits
      BY <1>1, <3>1
    <3>4. 0 \in Nat /\ BatchUnits \in Int /\ BatchUnits <= Len(c) /\ 0 + 1 = 1 /\ 0 < BatchUnits
          /\ BatchUnits - 0 = BatchUnits /\ \A i \in 1..BatchUnits : 0 + i = i
      BY <1>1, <3>3
    <3>5. /\ SubSeq(c, 0 + 1, BatchUnits) \in Seq(Int)
          /\ Len(SubSeq(c, 0 + 1, BatchUnits)) = BatchUnits
          /\ \A i \in 1..(BatchUnits - 0) : SubSeq(c, 0 + 1, BatchUnits)[i] = c[0 + i]
      BY <3>3, <3>4, Piece
    <3>6. SubSeq(c, 0 + 1, BatchUnits) = d
      BY <3>4 DEF c
    <3> HIDE DEF d, Base
    <3> QED BY <3>2, <3>4, <3>5, <3>6
  <2> HIDE DEF d, Base, Size
  <2>5. /\ Sound(z) /\ z.wb = w.wb /\ z.ra = w.ra /\ z.fx.mode = "WAIT" /\ z.fx.rpc = NoRequest
        /\ z.fx.open = w.fx.open /\ z.fx.pos = w.fx.pos /\ z.out = w.out
        /\ z.fx.file = Units(Size(z)) /\ Size(z) \in Nat /\ Size(z) <= ImageUnits
        /\ Size(w) <= Size(z) /\ z.rc \in {0, Failed}
        /\ z.rc = 0 => Size(z) = Base(w) + BatchUnits
    <3> DEFINE b == Base(w)
    <3>1. /\ 0 \in 0..Len(d) /\ b \in Nat /\ Size(w) = b + 0
          /\ \A i \in 1..Len(d) : d[i] = b + i
          /\ b + Len(d) <= ImageUnits
      BY <1>0, <1>1, <2>3, <2>4
    <3> HIDE DEF b
    <3>2. /\ Sound(z) /\ z.wb = w.wb /\ z.ra = w.ra /\ z.fx.mode = "WAIT" /\ z.fx.rpc = NoRequest
          /\ z.fx.open = w.fx.open /\ z.fx.pos = w.fx.pos /\ z.out = w.out
          /\ z.fx.file = Units(Size(z)) /\ Size(z) \in Nat /\ Size(z) <= ImageUnits
          /\ Size(w) <= Size(z) /\ z.rc \in {0, Failed}
          /\ z.rc = 0 => Size(z) = b + Len(d)
      BY <1>0, <2>1, <2>3, <2>4, <3>1, WriteFeeds
    <3> QED BY <2>4, <3>2 DEF b
  <2>6. /\ x \in Worlds /\ x.fx = z.fx /\ x.ra = z.ra /\ SameCall(x, z) /\ SameBatch(x, z)
        /\ x.wb.async = z.wb.async /\ x.wb.len[s] = 0
    <3> DEFINE p == PutLen(z, s, 0)
    <3>0. z \in Worlds /\ 0 \in 0..BatchUnits
      BY <1>1, <2>5 DEF Sound
    <3>1. /\ p \in Worlds /\ p.fx = z.fx /\ p.ra = z.ra /\ SameCall(p, z) /\ SameBatch(p, z)
          /\ p.wb.async = z.wb.async /\ p.wb.len[s] = 0
      BY <3>0, LenParts
    <3> HIDE DEF p
    <3> QED BY <2>1, <3>1 DEF p
  <2>7. Sound(x)
    BY <2>5, <2>6, SoundSame DEF SameFile, SameBatch
  <2>8. /\ ~Queued(x, "write") /\ ~Queued(x, "read") /\ x.fx.rpc.st # "queued"
        /\ Size(x) = Size(z) /\ x.rc = z.rc /\ x.out = w.out /\ x.wb.async = NoSlot
        /\ x.wb.depth = w.wb.depth /\ x.wb.fd = w.wb.fd /\ x.wb.buf = w.wb.buf /\ x.wb.fill = s
    BY <1>0, <2>2, <2>5, <2>6 DEF Queued, NoRequest, Size, SameCall, SameBatch
  <2>9. Pending(x)
    BY <2>5, <2>6, <2>8, PendingQuiet
  <2>10. Kept(w, x)
    BY <2>5, <2>6, <2>7, <2>8, <2>9 DEF Kept
  <2>11. x.rc = 0 => Fed(x, a)
    <3>1. Base(x) = Size(x)
      BY <2>7, <2>8, <2>9, PendingParts
    <3>2. s # NoSlot
      BY DEF Slots, NoSlot
    <3> SUFFICES ASSUME x.rc = 0 PROVE Fed(x, a)
      OBVIOUS
    <3>3. Base(x) = a
      BY <2>5, <2>8, <3>1
    <3> HIDE DEF a
    <3> QED BY <1>3, <2>6, <2>8, <2>9, <3>2, <3>3
  <2> QED BY <2>8, <2>10, <2>11
<1> QED BY <1>4, <1>5

(* ------------------------ a record of the export ----------------------- *)
LEMMA FedParts ==
  ASSUME NEW w, Sound(w), NEW a, Fed(w, a)
  PROVE  LET n == w.wb.len[w.wb.fill] IN
         /\ Pending(w) /\ Base(w) \in Nat /\ n \in Nat /\ a \in Nat /\ a = Base(w) + n
         /\ a <= ImageUnits /\ n + RecordUnits <= BatchUnits
         /\ Multiple(a, RecordUnits) /\ Multiple(n + RecordUnits, RecordUnits)
         /\ a < ImageUnits => /\ Base(w) + BatchUnits <= ImageUnits
                              /\ a + RecordUnits <= ImageUnits
         /\ a = ImageUnits => n = 0
<1> DEFINE n == w.wb.len[w.wb.fill]
           b == Base(w)
<1>1. /\ Pending(w) /\ a = b + n /\ n < BatchUnits /\ a <= ImageUnits
      /\ Multiple(b, BatchUnits) /\ Multiple(n, RecordUnits)
  BY DEF Fed
<1>2. b \in Nat
  BY <1>1, PendingParts
<1>3. n \in 0..BatchUnits
  <2>1. w.wb.len \in [Slots -> 0..BatchUnits] /\ w.wb.fill \in Slots
    BY WorldParts DEF Sound
  <2> QED BY <2>1
<1> HIDE DEF n, b
<1>4. n \in Nat /\ a \in Nat /\ b <= a
  BY <1>1, <1>2, <1>3, Sizes
<1>5. n + RecordUnits <= BatchUnits /\ Multiple(n + RecordUnits, RecordUnits)
  BY <1>1, <1>4, Sizes, MultipleStep
<1>6. Multiple(b, RecordUnits)
  BY <1>1, <1>2, Sizes, MultipleOf
<1>7. Multiple(a, RecordUnits)
  BY <1>1, <1>2, <1>4, <1>6, Sizes, MultipleStep
<1>8. a < ImageUnits => b + BatchUnits <= ImageUnits /\ a + RecordUnits <= ImageUnits
  <2> SUFFICES ASSUME a < ImageUnits
               PROVE  b + BatchUnits <= ImageUnits /\ a + RecordUnits <= ImageUnits
    OBVIOUS
  <2>1. b < ImageUnits
    BY <1>2, <1>4, Sizes
  <2>2. b + BatchUnits <= ImageUnits
    BY <1>1, <1>2, <2>1, Sizes, MultipleStep
  <2>3. a + RecordUnits <= ImageUnits
    BY <1>4, <1>7, Sizes, MultipleStep
  <2> QED BY <2>2, <2>3
<1>9. a = ImageUnits => n = 0
  <2> SUFFICES ASSUME a = ImageUnits, n # 0 PROVE FALSE
    OBVIOUS
  <2>1. b < ImageUnits
    BY <1>1, <1>2, <1>4
  <2>2. b + BatchUnits <= ImageUnits
    BY <1>1, <1>2, <2>1, Sizes, MultipleStep
  <2> QED BY <1>1, <1>2, <1>4, <2>2, Sizes
<1> QED BY <1>1, <1>2, <1>4, <1>5, <1>7, <1>8, <1>9 DEF n, b

LEMMA ReserveOutcome ==
  ASSUME NEW w, Sound(w), NEW a, Fed(w, a), NEW fd \in Fds, w.wb.fd \in {0, fd},
         NEW x \in Reserve(w, fd)
  PROVE  x = PutFd(Ret(w, 0), fd)
<1> DEFINE u == Ret(w, 0)
           v == PutFd(u, fd)
<1>0. w \in Worlds /\ 0 \in Int /\ fd \in Fds \cup {0}
  BY DEF Sound
<1>1. /\ u \in Worlds /\ u.fx = w.fx /\ u.wb = w.wb /\ u.ra = w.ra
      /\ u.rc = 0 /\ u.out = w.out
  BY <1>0, RetParts
<1>2. ~(w.wb.fd \notin {0, fd})
  OBVIOUS
<1>3. Reserve(w, fd) =
        UNION {IF y.rc < 0 THEN {y}
               ELSE IF y.wb.len[y.wb.fill] + RecordUnits > BatchUnits
                    THEN FlushFullSlot(y, y.wb.fill) ELSE {y} :
                 y \in UNION {IF z.rc < 0 THEN {z} ELSE {PutFd(z, fd)} : z \in {Ret(w, 0)}}}
  BY <1>2 DEF Reserve, Then, PutFd
<1> HIDE DEF u
<1>4. UNION {IF z.rc < 0 THEN {z} ELSE {PutFd(z, fd)} : z \in {u}} = {v}
  <2>1. ~(u.rc < 0)
    BY <1>1
  <2> QED BY <2>1
<1>5. /\ v.wb.fill = w.wb.fill /\ v.wb.len = w.wb.len /\ v.rc = 0
  <2>1. /\ v \in Worlds /\ v.fx = u.fx /\ v.ra = u.ra /\ SameCall(v, u)
        /\ v.wb.depth = u.wb.depth /\ v.wb.fill = u.wb.fill /\ v.wb.buf = u.wb.buf
        /\ v.wb.fd = fd /\ v.wb.async = u.wb.async /\ v.wb.expected = u.wb.expected
        /\ v.wb.len = u.wb.len
    BY <1>0, <1>1, FdParts
  <2> HIDE DEF v
  <2> QED BY <1>1, <2>1 DEF SameCall
<1> HIDE DEF v
<1>6. ~(v.wb.len[v.wb.fill] + RecordUnits > BatchUnits) /\ ~(v.rc < 0)
  <2> DEFINE n == w.wb.len[w.wb.fill]
  <2>1. n \in Nat /\ n + RecordUnits <= BatchUnits
    BY FedParts
  <2>2. v.wb.len[v.wb.fill] = n
    BY <1>5
  <2> HIDE DEF n
  <2> QED BY <1>5, <2>1, <2>2, Sizes
<1>7. Reserve(w, fd) = UNION {IF y.rc < 0 THEN {y}
               ELSE IF y.wb.len[y.wb.fill] + RecordUnits > BatchUnits
                    THEN FlushFullSlot(y, y.wb.fill) ELSE {y} : y \in {v}}
  <2>1. Reserve(w, fd) =
        UNION {IF y.rc < 0 THEN {y}
               ELSE IF y.wb.len[y.wb.fill] + RecordUnits > BatchUnits
                    THEN FlushFullSlot(y, y.wb.fill) ELSE {y} :
                 y \in UNION {IF z.rc < 0 THEN {z} ELSE {PutFd(z, fd)} : z \in {u}}}
    BY <1>3 DEF u
  <2> QED BY <1>4, <2>1
<1>8. x \in IF v.rc < 0 THEN {v}
            ELSE IF v.wb.len[v.wb.fill] + RecordUnits > BatchUnits
                 THEN FlushFullSlot(v, v.wb.fill) ELSE {v}
  BY <1>7
<1>9. x = v
  BY <1>6, <1>8
<1> QED BY <1>9 DEF v, u

LEMMA BufParts ==
  ASSUME NEW w \in Worlds, NEW s \in Slots, NEW b \in [1..BatchUnits -> Int]
  PROVE  LET x == PutBuf(w, s, b) IN
         /\ x \in Worlds /\ x.fx = w.fx /\ x.ra = w.ra /\ SameCall(x, w)
         /\ x.wb.depth = w.wb.depth /\ x.wb.fill = w.wb.fill /\ x.wb.fd = w.wb.fd
         /\ x.wb.async = w.wb.async /\ x.wb.expected = w.wb.expected /\ x.wb.len = w.wb.len
         /\ x.wb.buf[s] = b /\ \A t \in Slots : t # s => x.wb.buf[t] = w.wb.buf[t]
<1> DEFINE l == [w.wb.buf EXCEPT ![s] = b]
           x == PutBuf(w, s, b)
<1>1. w.wb.buf \in [Slots -> [1..BatchUnits -> Int]]
  BY WorldParts
<1>2. l \in [Slots -> [1..BatchUnits -> Int]] /\ l[s] = b
      /\ \A t \in Slots : t # s => l[t] = w.wb.buf[t]
  BY <1>1
<1>3. x = [w EXCEPT !.wb.buf = l]
  BY DEF PutBuf
<1> HIDE DEF l, x
<1>4. /\ x \in Worlds /\ x.fx = w.fx /\ x.ra = w.ra /\ SameCall(x, w)
      /\ x.wb.depth = w.wb.depth /\ x.wb.fill = w.wb.fill /\ x.wb.fd = w.wb.fd
      /\ x.wb.async = w.wb.async /\ x.wb.expected = w.wb.expected /\ x.wb.len = w.wb.len
      /\ x.wb.buf = l
  BY <1>2, <1>3 DEF Worlds, Batches, SameCall
<1> QED BY <1>2, <1>4 DEF x

(* Writing the buffer being filled leaves what was handed on alone.        *)
LEMMA PendingFill ==
  ASSUME NEW w, Sound(w), Pending(w), w.wb.async # w.wb.fill,
         NEW x, x.fx = w.fx, x.wb.async = w.wb.async, x.wb.expected = w.wb.expected,
         \A t \in Slots : t # w.wb.fill => x.wb.buf[t] = w.wb.buf[t]
  PROVE  Pending(x) /\ Base(x) = Base(w) /\ Size(x) = Size(w)
<1>1. Size(x) = Size(w) /\ Stored(x) = Stored(w)
  BY DEF Size, Stored
<1>2. Base(x) = Base(w)
  BY <1>1 DEF Base
<1>3. w \in Worlds /\ w.fx.rpc \in Requests /\ w.wb.async \in Slots \cup {NoSlot}
  BY WorldParts DEF Sound
<1>4. Queued(w, "write") => w.fx.rpc.slot \in Slots /\ w.fx.rpc.slot # w.wb.fill
  BY <1>3, RequestParts DEF Sound, Queued
<1>5. Queued(w, "write") => x.wb.buf[w.fx.rpc.slot] = w.wb.buf[w.fx.rpc.slot]
  BY <1>4
<1>6. w.wb.async # NoSlot => x.wb.buf[w.wb.async] = w.wb.buf[w.wb.async]
  BY <1>3
<1>7. Queued(x, "write") = Queued(w, "write")
  BY DEF Queued
<1> HIDE DEF Size, Stored, Queued
<1>8. Pending(x)
  BY <1>1, <1>5, <1>6, <1>7 DEF Pending
<1> QED BY <1>1, <1>2, <1>8

LEMMA CommitOutcome ==
  ASSUME NEW w, Sound(w), NEW a, Fed(w, a), a < ImageUnits, w.fx.open # 0, ~Queued(w, "read"),
         NEW x \in Commit(w, w.wb.fd, Record(a))
  PROVE  /\ Kept(w, x) /\ \A t \in Slots : t # w.wb.fill => x.wb.buf[t] = w.wb.buf[t]
         /\ x.rc = 0 => Fed(x, a + RecordUnits)
<1> DEFINE s == w.wb.fill
           n == w.wb.len[s]
           m == n + RecordUnits
           c == w.wb.buf[s]
           d == [i \in 1..BatchUnits |-> IF i \in (n + 1)..(n + RecordUnits)
                                         THEN Record(a)[i - n] ELSE c[i]]
           u == PutLen(w, s, m)
           p == PutBuf(u, s, d)
<1>1. /\ Pending(w) /\ Base(w) \in Nat /\ n \in Nat /\ a \in Nat /\ a = Base(w) + n
      /\ m <= BatchUnits /\ Multiple(m, RecordUnits) /\ Base(w) + BatchUnits <= ImageUnits
      /\ a + RecordUnits <= ImageUnits
  BY FedParts
<1>2. /\ w.wb.async = NoSlot => w.fx.rpc.st # "queued"
      /\ w.wb.async # s /\ Multiple(Base(w), BatchUnits)
      /\ \A i \in 1..n : c[i] = Base(w) + i
  BY DEF Fed
<1>3. w \in Worlds /\ s \in Slots /\ c \in [1..BatchUnits -> Int]
      /\ RecordUnits \in Nat \ {0} /\ BatchUnits \in Nat \ {0}
  BY WorldParts, FileXioAssumption DEF Sound
<1>4. x \in IF m > BatchUnits THEN {Ret(w, Failed)}
            ELSE IF m = BatchUnits THEN FlushFullSlot(p, s) ELSE {Ret(p, 0)}
  BY DEF Commit, PutLen, PutBuf
<1> HIDE DEF n, c, s
<1>0. n \in Nat /\ a \in Nat /\ RecordUnits \in Nat \ {0} /\ BatchUnits \in Nat \ {0}
  BY <1>1, <1>3
<1>5. m \in 0..BatchUnits /\ ~(m > BatchUnits)
  BY <1>1, <1>3
<1>6. /\ d \in [1..BatchUnits -> Int]
      /\ \A i \in 1..m : d[i] = Base(w) + i
  <2> DEFINE b == Base(w)
  <2>1. b \in Nat /\ a = b + n /\ \A i \in 1..n : c[i] = b + i
    BY <1>1, <1>2
  <2> HIDE DEF b
  <2>2. \A i \in (n + 1)..(n + RecordUnits) : Record(a)[i - n] = b + i /\ b + i \in Nat
    <3> TAKE i \in (n + 1)..(n + RecordUnits)
    <3>1. i - n \in 1..RecordUnits /\ a + (i - n) = b + i /\ b + i \in Nat
      BY <1>0, <2>1
    <3>2. Record(a)[i - n] = a + (i - n)
      BY <3>1 DEF Record
    <3> QED BY <3>1, <3>2
  <2>3. d \in [1..BatchUnits -> Int]
    <3>1. \A i \in 1..BatchUnits : c[i] \in Int
      BY <1>3
    <3> QED BY <2>2, <3>1
  <2>4. ASSUME NEW i \in 1..m PROVE d[i] = b + i
    <3>1. i \in 1..BatchUnits /\ (i \in 1..n \/ i \in (n + 1)..(n + RecordUnits))
      BY <1>1, <1>3
    <3>2. d[i] = IF i \in (n + 1)..(n + RecordUnits) THEN Record(a)[i - n] ELSE c[i]
      BY <3>1
    <3> QED BY <2>1, <2>2, <3>1, <3>2
  <2> QED BY <2>3, <2>4 DEF b
<1> HIDE DEF m, d
<1>7. /\ u \in Worlds /\ u.fx = w.fx /\ u.ra = w.ra /\ SameCall(u, w) /\ SameBatch(u, w)
      /\ u.wb.async = w.wb.async /\ u.wb.expected = w.wb.expected /\ u.wb.len[s] = m
  BY <1>3, <1>5, LenParts
<1> HIDE DEF u
<1>8. /\ p \in Worlds /\ p.fx = u.fx /\ p.ra = u.ra /\ SameCall(p, u)
      /\ p.wb.depth = u.wb.depth /\ p.wb.fill = u.wb.fill /\ p.wb.fd = u.wb.fd
      /\ p.wb.async = u.wb.async /\ p.wb.expected = u.wb.expected /\ p.wb.len = u.wb.len
      /\ p.wb.buf[s] = d /\ \A t \in Slots : t # s => p.wb.buf[t] = u.wb.buf[t]
  BY <1>3, <1>6, <1>7, BufParts
<1> HIDE DEF p
<1>9. /\ p \in Worlds /\ p.fx = w.fx /\ p.ra = w.ra /\ p.out = w.out
      /\ p.wb.depth = w.wb.depth /\ p.wb.fill = s /\ p.wb.fd = w.wb.fd
      /\ p.wb.async = w.wb.async /\ p.wb.expected = w.wb.expected /\ p.wb.len[s] = m
      /\ p.wb.buf[s] = d /\ \A t \in Slots : t # s => p.wb.buf[t] = w.wb.buf[t]
  BY <1>7, <1>8 DEF SameCall, SameBatch, s
<1>10. Pending(p) /\ Base(p) = Base(w) /\ Size(p) = Size(w)
  BY <1>1, <1>2, <1>9, PendingFill DEF s
<1>11. Sound(p)
  BY <1>9, SoundSame DEF SameFile, s
<1>12. ~Queued(p, "read")
  BY <1>9 DEF Queued
<1>13. CASE m = BatchUnits
  <2>1. x \in FlushFullSlot(p, s)
    BY <1>4, <1>5, <1>13
  <2>2. Filled(p, s)
    <3>1. \A i \in 1..BatchUnits : p.wb.buf[s][i] = Base(p) + i
      BY <1>6, <1>9, <1>10, <1>13
    <3>2. /\ p.fx.open # 0 /\ s = p.wb.fill /\ p.wb.len[s] = BatchUnits /\ p.wb.async # s
          /\ (p.wb.async = NoSlot => p.fx.rpc.st # "queued")
          /\ Multiple(Base(p), BatchUnits) /\ Base(p) + BatchUnits <= ImageUnits
      BY <1>1, <1>2, <1>9, <1>10, <1>13
    <3> QED BY <1>10, <1>11, <1>12, <3>1, <3>2 DEF Filled
  <2>3. /\ Kept(p, x) /\ x.wb.buf = p.wb.buf
        /\ x.rc = 0 => Fed(x, Base(p) + BatchUnits)
    BY <1>3, <2>1, <2>2, FlushOutcome
  <2>4. Base(p) + BatchUnits = a + RecordUnits
    <3> DEFINE b == Base(w)
    <3>1. b \in Nat /\ a = b + n /\ n + RecordUnits = BatchUnits
      BY <1>1, <1>13 DEF m
    <3> HIDE DEF b
    <3>2. b + BatchUnits = a + RecordUnits
      BY <1>0, <3>1
    <3> QED BY <1>10, <3>2 DEF b
  <2>5. Kept(w, x)
    BY <1>9, <1>10, <2>3 DEF Kept
  <2>6. \A t \in Slots : t # w.wb.fill => x.wb.buf[t] = w.wb.buf[t]
    BY <1>9, <2>3 DEF s
  <2> QED BY <2>3, <2>4, <2>5, <2>6
<1>14. CASE m # BatchUnits
  <2>1. x = Ret(p, 0)
    BY <1>4, <1>5, <1>14
  <2>2. /\ x \in Worlds /\ x.fx = p.fx /\ x.wb = p.wb /\ x.ra = p.ra
        /\ x.rc = 0 /\ x.out = p.out
    <3>1. 0 \in Int
      OBVIOUS
    <3> QED BY <1>9, <2>1, <3>1, RetParts
  <2>3. Sound(x)
    BY <1>11, <2>2, SoundSame DEF SameFile
  <2>4. Pending(x) /\ Base(x) = Base(p) /\ Size(x) = Size(p)
    BY <1>10, <2>2, PendingSame
  <2>5. ~Queued(x, "read") /\ Size(w) <= Size(x)
    <3>1. Size(w) \in Nat
      BY <1>1, PendingParts
    <3> HIDE DEF Size
    <3> QED BY <1>10, <1>12, <2>2, <2>4, <3>1 DEF Queued
  <2>6. Kept(w, x)
    BY <1>9, <2>2, <2>3, <2>4, <2>5 DEF Kept
  <2>7. \A t \in Slots : t # w.wb.fill => x.wb.buf[t] = w.wb.buf[t]
    BY <1>9, <2>2 DEF s
  <2>8. Fed(x, a + RecordUnits)
    <3>1. x.wb.len[x.wb.fill] = m /\ x.wb.fill = s /\ x.wb.buf[s] = d /\ Base(x) = Base(w)
          /\ x.wb.async = w.wb.async /\ x.fx.rpc = w.fx.rpc
      BY <1>9, <1>10, <2>2, <2>4
    <3>2. a + RecordUnits = Base(w) + m /\ m < BatchUnits
      <4> DEFINE b == Base(w)
      <4>1. b \in Nat /\ a = b + n /\ m = n + RecordUnits
        BY <1>1 DEF m
      <4> HIDE DEF b
      <4>2. a + RecordUnits = b + m /\ m < BatchUnits
        BY <1>0, <1>5, <1>14, <4>1
      <4> QED BY <4>2 DEF b
    <3>3. \A i \in 1..m : x.wb.buf[x.wb.fill][i] = Base(x) + i
      BY <1>6, <3>1
    <3> HIDE DEF Base
    <3> QED BY <1>1, <1>2, <2>4, <3>1, <3>2, <3>3 DEF Fed
  <2> QED BY <2>6, <2>7, <2>8
<1> QED BY <1>13, <1>14

(* --------------------------- closing an image -------------------------- *)
LEMMA DrainOutcome ==
  ASSUME NEW w, Sound(w), Pending(w), NEW x \in WbDrain(w)
  PROVE  Drained(w, x) /\ x.wb.fd = w.wb.fd
<1>0. w \in Worlds
  BY DEF Sound
<1>1. CASE build = "asyncwrite"
  <2>1. PICK y \in WbFinish(w) : x = SetMode(y, "WAIT")
    BY <1>1 DEF WbDrain
  <2>2. Finished(w, y)
    BY FinishOutcome
  <2>3. y \in Worlds /\ Sound(y) /\ Pending(y)
    BY <2>2 DEF Finished, Sound
  <2>4. /\ x \in Worlds /\ x.wb = y.wb /\ x.ra = y.ra /\ SameCall(x, y) /\ SameFile(x, y)
        /\ x.fx.rpc = y.fx.rpc
    BY <2>1, <2>3, ModeParts
  <2>5. Sound(x)
    BY <2>3, <2>4, SoundSame
  <2>6. x.fx.file = y.fx.file
    BY <2>4 DEF SameFile
  <2>7. Pending(x) /\ Size(x) = Size(y)
    BY <2>3, <2>4, <2>6, PendingSame
  <2>8. /\ x.wb.async = NoSlot
        /\ x.wb.depth = w.wb.depth /\ x.wb.fill = w.wb.fill /\ x.wb.buf = w.wb.buf
        /\ x.wb.fd = w.wb.fd
        /\ x.fx.open = w.fx.open /\ x.fx.pos = w.fx.pos /\ x.ra = w.ra /\ x.out = w.out
        /\ x.rc \in {0, Failed}
        /\ x.fx.rpc.st = "queued" => x.fx.rpc = w.fx.rpc
    BY <2>2, <2>4 DEF Finished, SameBatch, SameFile, SameCall
  <2>9. Size(w) <= Size(x)
    BY <2>2, <2>7 DEF Finished
  <2>10. w.wb.async # NoSlot /\ x.rc = 0 => x.fx.rpc = NoRequest /\ Size(x) = Base(w)
    BY <2>2, <2>4, <2>7 DEF Finished, SameCall
  <2>11. w.wb.async = NoSlot => SameFile(x, w) /\ x.fx.rpc = w.fx.rpc /\ x.rc = 0
    <3>1. w.wb.async = NoSlot => y.fx = w.fx /\ y.rc = 0
      BY <2>2 DEF Finished
    <3> QED BY <2>4, <3>1 DEF SameFile, SameCall
  <2> QED BY <2>5, <2>7, <2>8, <2>9, <2>10, <2>11 DEF Drained
<1>2. CASE build # "asyncwrite"
  <2>1. w.wb.async = NoSlot
    BY <1>2, PendingParts
  <2>2. x = Ret(w, 0)
    BY <1>2 DEF WbDrain
  <2>3. /\ x \in Worlds /\ x.fx = w.fx /\ x.wb = w.wb /\ x.ra = w.ra
        /\ x.rc = 0 /\ x.out = w.out
    <3>1. 0 \in Int
      OBVIOUS
    <3> QED BY <1>0, <2>2, <3>1, RetParts
  <2>4. Sound(x)
    BY <2>3, SoundSame DEF SameFile
  <2>5. Pending(x) /\ Size(x) = Size(w)
    BY <2>3, PendingSame
  <2>6. Size(w) <= Size(x)
    <3>1. Size(w) \in Nat
      BY PendingParts
    <3> HIDE DEF Size
    <3> QED BY <2>5, <3>1
  <2> QED BY <2>1, <2>3, <2>4, <2>5, <2>6 DEF Drained, SameFile
<1> QED BY <1>1, <1>2

LEMMA DropParts ==
  ASSUME NEW w, Sound(w), Pending(w), w.wb.async = NoSlot
  PROVE  LET x == PutDropped(w) IN
         /\ Sound(x) /\ Pending(x) /\ x.fx = w.fx /\ x.ra = w.ra /\ x.out = w.out /\ x.rc = w.rc
         /\ x.wb.async = NoSlot /\ x.wb.fd = 0 /\ Size(x) = Size(w)
         /\ x.wb.depth = w.wb.depth /\ x.wb.fill = w.wb.fill /\ x.wb.buf = w.wb.buf
<1> DEFINE s == w.wb.fill
           u == PutLen(w, s, 0)
           x == PutFd(u, 0)
<1>1. w \in Worlds /\ s \in Slots /\ 0 \in 0..BatchUnits
  BY WorldParts, FileXioAssumption DEF Sound
<1> HIDE DEF s
<1>2. /\ u \in Worlds /\ u.fx = w.fx /\ u.ra = w.ra /\ SameCall(u, w) /\ SameBatch(u, w)
      /\ u.wb.async = w.wb.async
  BY <1>1, LenParts
<1> HIDE DEF u
<1>3. /\ x \in Worlds /\ x.fx = u.fx /\ x.ra = u.ra /\ SameCall(x, u)
      /\ x.wb.depth = u.wb.depth /\ x.wb.fill = u.wb.fill /\ x.wb.buf = u.wb.buf
      /\ x.wb.fd = 0 /\ x.wb.async = u.wb.async
  BY <1>2, FdParts
<1>4. PutDropped(w) = x
  BY DEF PutDropped, s, u
<1> HIDE DEF x
<1>5. /\ x \in Worlds /\ x.fx = w.fx /\ x.ra = w.ra /\ x.out = w.out /\ x.rc = w.rc
      /\ x.wb.async = NoSlot /\ x.wb.fd = 0
      /\ x.wb.depth = w.wb.depth /\ x.wb.fill = w.wb.fill /\ x.wb.buf = w.wb.buf
  BY <1>2, <1>3 DEF SameBatch, SameCall
<1>6. Sound(x)
  BY <1>5, SoundSame DEF SameFile
<1>7. Pending(x) /\ Size(x) = Size(w)
  BY <1>5, PendingSame
<1> QED BY <1>4, <1>5, <1>6, <1>7

LEMMA RestedCache ==
  ASSUME NEW w, Sound(w), NEW v, Rested(w, v)
  PROVE  SameCache(v, w) /\ SameCur(v, w)
<1>1. CASE ~Busy(w)
  BY <1>1 DEF Rested, SameCache, SameCur
<1>2. CASE Busy(w)
  <2>1. PICK k \in {Failed} \cup (0..BatchUnits), u \in Worlds : ServedBy(w, u, k) /\ v.ra = u.ra
    BY <1>2 DEF Rested
  <2>2. w.fx.rpc \in Requests /\ w.ra \in Caches /\ w.fx.rpc.st = "queued"
    BY <1>2, WorldParts DEF Sound, Busy
  <2>3. w.fx.rpc.kind \in {"read", "write"}
    BY <2>2, RequestParts DEF Calls
  <2>4. CASE u.ra = w.ra
    BY <2>1, <2>4 DEF SameCache, SameCur
  <2>5. CASE u.ra # w.ra
    <3>1. \E d : u.ra = [w.ra EXCEPT !.slot[w.fx.rpc.slot] = d]
      BY <2>1, <2>3, <2>5 DEF ServedBy
    <3>2. SameCache(v, w)
      BY <2>1, <2>2, <3>1 DEF SameCache, Caches
    <3>3. w.fx.rpc.kind = "read" /\ w.ra.cur # w.fx.rpc.slot
      <4>1. w.fx.rpc.kind = "read"
        BY <2>1, <2>3, <2>5 DEF ServedBy
      <4> QED BY <2>2, <4>1 DEF Sound, Queued
    <3>4. SameCur(v, w)
      BY <2>1, <2>2, <3>1, <3>3 DEF SameCur, Caches
    <3> QED BY <3>2, <3>4
  <2> QED BY <2>4, <2>5
<1> QED BY <1>1, <1>2

(* The position stays inside the image.                                    *)
LEMMA RestedPos ==
  ASSUME NEW w, Sound(w), Pending(w), w.fx.pos <= ImageUnits, NEW v, Rested(w, v)
  PROVE  v.fx.pos <= ImageUnits
<1>1. CASE w.fx.open = 0
  <2>1. ~Queued(w, "read")
    BY <1>1 DEF Sound, Queued
  <2> QED BY <2>1, RestedPending
<1>2. CASE w.fx.open # 0
  <2>1. v.fx.pos <= Len(v.fx.file) /\ v.fx.pos \in Nat
    BY <1>2, RestedParts
  <2>2. Size(v) \in Nat /\ Size(v) <= ImageUnits
    BY RestedPending
  <2>3. Size(v) = Len(v.fx.file) /\ ImageUnits \in Nat
    BY FileXioAssumption DEF Size
  <2> HIDE DEF Size
  <2> QED BY <2>1, <2>2, <2>3
<1> QED BY <1>1, <1>2

LEMMA RestedEnd ==
  ASSUME NEW w, Sound(w), NEW v, Rested(w, v)
  PROVE  SameEnd(v, w)
<1> SUFFICES ASSUME Queued(w, "read"), w.fx.pos = Len(w.fx.file),
                    w.ra.slot[w.fx.rpc.slot].data = <<>>
             PROVE  v.ra.slot[w.fx.rpc.slot].data = <<>>
  BY DEF SameEnd
<1>1. PICK k \in {Failed} \cup (0..BatchUnits) : \E t \in Worlds : ServedBy(w, t, k) /\ v.ra = t.ra
  BY DEF Rested, Queued, Busy
<1>2. PICK t \in Worlds : ServedBy(w, t, k) /\ v.ra = t.ra
  BY <1>1
<1>3. CASE k = Failed
  <2>1. t.ra = w.ra
    BY <1>2, <1>3 DEF ServedBy
  <2> QED BY <1>2, <2>1
<1>4. CASE k # Failed
  <2> DEFINE f == w.fx.file
             n == w.fx.pos
             s == w.fx.rpc.slot
             d == SubSeq(f, n + 1, n + k)
             b == [data |-> d, off |-> w.ra.slot[s].off]
  <2>1. w.fx.rpc.kind = "read" /\ w \in Worlds /\ w.fx.rpc.st = "queued"
    BY DEF Queued, Sound
  <2>2. f \in Seq(Int) /\ n \in Nat /\ w.ra \in Caches /\ s \in Slots
    BY <2>1, WorldParts, RequestParts
  <2>3. k \in 0..w.fx.rpc.len /\ t.fx.pos = n + k /\ t.fx.pos <= Len(f)
        /\ t.ra = [w.ra EXCEPT !.slot[s] = b]
    BY <1>2, <1>4, <2>1 DEF ServedBy
  <2>4. k = 0
    <3>1. k \in Int /\ k >= 0 /\ n + k <= n
      BY <2>3
    <3> HIDE DEF n
    <3> QED BY <2>2, <3>1
  <2>5. d = <<>>
    <3> HIDE DEF f, n
    <3>1. d = SubSeq(f, n + 1, n) /\ n <= Len(f) /\ n \in Int
      BY <2>2, <2>4 DEF f, n
    <3>2. f \in Seq(Int) /\ n \in Nat /\ n \in Int /\ n <= Len(f)
      BY <2>2, <3>1
    <3>3. SubSeq(f, n + 1, n) \in Seq(Int) /\ Len(SubSeq(f, n + 1, n)) = IF n < n THEN n - n ELSE 0
      BY <3>2, Piece
    <3> HIDE DEF d
    <3>4. d \in Seq(Int) /\ Len(d) = 0
      BY <3>1, <3>2, <3>3
    <3> QED BY <3>4, EmptySeq
  <2> HIDE DEF d, s
  <2>6. t.ra.slot[s].data = d
    BY <2>2, <2>3 DEF Caches
  <2> QED BY <1>2, <2>5, <2>6 DEF s
<1> QED BY <1>3, <1>4

LEMMA CloseKeeps ==
  ASSUME NEW z, Sound(z), Pending(z), z.wb.async = NoSlot,
         NEW y \in CloseCall(SetMode(z, "WAIT"))
  PROVE  /\ Sound(y) /\ Pending(y) /\ y.wb = z.wb /\ y.fx.rpc = NoRequest
         /\ y.fx.open = 0 /\ y.fx.mode = "WAIT" /\ y.out = z.out /\ y.rc \in {0, Failed}
         /\ Size(z) <= Size(y)
         /\ ~Queued(z, "write") => y.fx.file = z.fx.file
         /\ ~Queued(z, "read") => y.ra = z.ra
         /\ SameCache(y, z) /\ (z.fx.pos <= ImageUnits => y.fx.pos <= ImageUnits)
         /\ SameCur(y, z) /\ SameEnd(y, z)
<1> DEFINE u == SetMode(z, "WAIT")
<1>1. z \in Worlds
  BY DEF Sound
<1>2. /\ u \in Worlds /\ u.wb = z.wb /\ u.ra = z.ra /\ SameCall(u, z) /\ SameFile(u, z)
      /\ u.fx.mode = "WAIT" /\ u.fx.rpc = z.fx.rpc
  BY <1>1, ModeParts
<1>3. y \in CloseCall(u)
  OBVIOUS
<1> HIDE DEF u
<1>4. Sound(u)
  BY <1>2, SoundSame
<1>5. u.fx.file = z.fx.file
  BY <1>2 DEF SameFile
<1>6. Pending(u) /\ Size(u) = Size(z)
  BY <1>2, <1>5, PendingSame
<1>7. ClosedTo(u, y)
  BY <1>3, <1>4, CloseOutcome
<1>8. PICK v : /\ Rested(u, v) /\ Sound(y) /\ y.wb = u.wb /\ y.ra = v.ra
               /\ y.fx.mode = u.fx.mode /\ y.fx.rpc = NoRequest /\ y.fx.open = 0
               /\ y.fx.pos = v.fx.pos /\ y.fx.file = v.fx.file
               /\ y.rc \in {0, Failed} /\ y.out = u.out
  BY <1>7 DEF ClosedTo
<1>9. /\ v.fx.file = Units(Size(v)) /\ Size(v) \in Nat /\ Size(v) <= ImageUnits
      /\ Size(u) <= Size(v)
      /\ ~Queued(u, "write") => v.fx.file = u.fx.file
      /\ ~Queued(u, "read") => v.ra = u.ra
  BY <1>4, <1>6, <1>8, RestedPending
<1>10. Size(y) = Size(v)
  BY <1>8 DEF Size
<1>11. ~Queued(y, "write")
  BY <1>8 DEF Queued, NoRequest
<1>12. Pending(y)
  BY <1>2, <1>8, <1>9, <1>10, <1>11, PendingQuiet
<1>13. (Queued(u, "write") <=> Queued(z, "write")) /\ (Queued(u, "read") <=> Queued(z, "read"))
  BY <1>2 DEF Queued
<1>14. y.out = z.out
  BY <1>2, <1>8 DEF SameCall
<1>15. /\ SameCache(y, z) /\ (z.fx.pos <= ImageUnits => y.fx.pos <= ImageUnits)
       /\ SameCur(y, z)
  <2>1. SameCache(v, u) /\ SameCur(v, u)
    BY <1>4, <1>8, RestedCache
  <2>2. u.fx.pos = z.fx.pos
    BY <1>2 DEF SameFile
  <2>3. z.fx.pos <= ImageUnits => v.fx.pos <= ImageUnits
    BY <1>4, <1>6, <1>8, <2>2, RestedPos
  <2> QED BY <1>2, <1>8, <2>1, <2>3 DEF SameCache, SameCur
<1>16. SameEnd(y, z)
  <2>1. SameEnd(v, u)
    BY <1>4, <1>8, RestedEnd
  <2>2. u.fx.pos = z.fx.pos /\ u.fx.rpc = z.fx.rpc /\ u.ra = z.ra
    BY <1>2 DEF SameFile
  <2> QED BY <1>5, <1>8, <2>1, <2>2 DEF SameEnd, Queued
<1> QED BY <1>2, <1>5, <1>6, <1>8, <1>9, <1>10, <1>12, <1>13, <1>14, <1>15, <1>16

LEMMA WrapCloseOutcome ==
  ASSUME NEW w, Sound(w), Pending(w), w.wb.depth = 0 => w.wb.async = NoSlot,
         NEW x \in WrapClose(w)
  PROVE  Shut(w, x)
<1> DEFINE fd == w.fx.open
           Drop(y) == IF y.wb.fd = fd THEN PutDropped(y) ELSE y
           Real(z) == {IF z.rc < 0 /\ y.rc >= 0 THEN Ret(y, z.rc) ELSE y :
                          y \in CloseCall(SetMode(z, "WAIT"))}
<1>0. w \in Worlds
  BY DEF Sound
<1>1. WrapClose(w) = IF w.wb.depth = 0 THEN Real(Ret(w, 0))
                     ELSE UNION {Real(z) : z \in {Drop(y) : y \in WbDrain(w)}}
  BY DEF WrapClose, After, PutDropped, WbReset, PutLen, PutFd
<1> HIDE DEF Real, Drop
<1>2. PICK z : /\ x \in Real(z)
               /\ \/ w.wb.depth = 0 /\ z = Ret(w, 0)
                  \/ w.wb.depth # 0 /\ \E y \in WbDrain(w) : z = Drop(y)
  <2>1. CASE w.wb.depth = 0
    BY <1>1, <2>1
  <2>2. CASE w.wb.depth # 0
    BY <1>1, <2>2
  <2> QED BY <2>1, <2>2
<1>3. /\ Drained(w, z)
      /\ w.wb.depth # 0 /\ w.wb.fd \in {0, w.fx.open} => z.wb.fd = 0
      /\ w.wb.depth = 0 => z.wb.fd = w.wb.fd
  <2>1. CASE w.wb.depth = 0 /\ z = Ret(w, 0)
    <3>1. /\ z \in Worlds /\ z.fx = w.fx /\ z.wb = w.wb /\ z.ra = w.ra
          /\ z.rc = 0 /\ z.out = w.out
      <4>1. 0 \in Int
        OBVIOUS
      <4> QED BY <1>0, <2>1, <4>1, RetParts
    <3>2. Sound(z)
      BY <3>1, SoundSame DEF SameFile
    <3>3. Pending(z) /\ Size(z) = Size(w)
      BY <3>1, PendingSame
    <3>4. Size(w) <= Size(z)
      <4>1. Size(w) \in Nat
        BY PendingParts
      <4> HIDE DEF Size
      <4> QED BY <3>3, <4>1
    <3> QED BY <2>1, <3>1, <3>2, <3>3, <3>4 DEF Drained, SameFile
  <2>2. ASSUME w.wb.depth # 0, NEW y \in WbDrain(w), z = Drop(y)
        PROVE  Drained(w, z) /\ (w.wb.fd \in {0, w.fx.open} => z.wb.fd = 0)
    <3>1. Drained(w, y) /\ y.wb.fd = w.wb.fd
      BY DrainOutcome
    <3>2. CASE y.wb.fd # fd
      <4>1. z = y
        BY <2>2, <3>2 DEF Drop
      <4> QED BY <3>1, <3>2, <4>1
    <3>3. CASE y.wb.fd = fd
      <4>1. z = PutDropped(y)
        BY <2>2, <3>3 DEF Drop
      <4>2. Sound(y) /\ Pending(y) /\ y.wb.async = NoSlot
        BY <3>1 DEF Drained
      <4>3. /\ Sound(z) /\ Pending(z) /\ z.fx = y.fx /\ z.ra = y.ra /\ z.out = y.out
            /\ z.rc = y.rc
            /\ z.wb.async = NoSlot /\ z.wb.fd = 0 /\ Size(z) = Size(y)
            /\ z.wb.depth = y.wb.depth /\ z.wb.fill = y.wb.fill /\ z.wb.buf = y.wb.buf
        BY <4>1, <4>2, DropParts
      <4> HIDE DEF Size, Base
      <4>4. Drained(w, z)
        BY <3>1, <4>3 DEF Drained, SameFile
      <4> QED BY <4>3, <4>4
    <3> QED BY <3>2, <3>3
  <2> QED BY <1>2, <2>1, <2>2
<1>4. /\ Sound(z) /\ Pending(z) /\ z.wb.async = NoSlot /\ z.rc \in {0, Failed}
      /\ z.wb.depth = w.wb.depth /\ z.wb.fill = w.wb.fill /\ z.wb.buf = w.wb.buf
      /\ z.ra = w.ra /\ z.out = w.out /\ Size(w) <= Size(z)
      /\ z.fx.rpc.st = "queued" => z.fx.rpc = w.fx.rpc
  BY <1>3 DEF Drained
<1>5. PICK y \in CloseCall(SetMode(z, "WAIT")) :
             x = IF z.rc < 0 /\ y.rc >= 0 THEN Ret(y, z.rc) ELSE y
  BY <1>2 DEF Real
<1>6. /\ Sound(y) /\ Pending(y) /\ y.wb = z.wb /\ y.fx.rpc = NoRequest
      /\ y.fx.open = 0 /\ y.fx.mode = "WAIT" /\ y.out = z.out /\ y.rc \in {0, Failed}
      /\ Size(z) <= Size(y)
      /\ ~Queued(z, "write") => y.fx.file = z.fx.file
      /\ ~Queued(z, "read") => y.ra = z.ra
      /\ SameCache(y, z) /\ (z.fx.pos <= ImageUnits => y.fx.pos <= ImageUnits)
      /\ SameCur(y, z) /\ SameEnd(y, z)
  BY <1>4, CloseKeeps
<1>7. /\ x.fx = y.fx /\ x.wb = y.wb /\ x.ra = y.ra /\ x.out = y.out
      /\ x.rc \in {0, Failed} /\ (x.rc = 0 => y.rc = 0 /\ z.rc = 0) /\ x \in Worlds
  <2>1. y \in Worlds /\ z.rc \in Int
    BY <1>4, <1>6 DEF Sound, Failed
  <2>2. CASE z.rc < 0 /\ y.rc >= 0
    <3>1. x = Ret(y, z.rc)
      BY <1>5, <2>2
    <3>2. /\ x \in Worlds /\ x.fx = y.fx /\ x.wb = y.wb /\ x.ra = y.ra
          /\ x.rc = z.rc /\ x.out = y.out
      BY <2>1, <3>1, RetParts
    <3> QED BY <1>4, <2>2, <3>2
  <2>3. CASE ~(z.rc < 0 /\ y.rc >= 0)
    <3>1. x = y
      BY <1>5, <2>3
    <3>2. y.rc = 0 => z.rc = 0
      BY <1>4, <2>3 DEF Failed
    <3> QED BY <1>6, <2>1, <3>1, <3>2
  <2> QED BY <2>2, <2>3
<1>8. Sound(x)
  BY <1>6, <1>7, SoundSame DEF SameFile
<1>9. Pending(x) /\ Size(x) = Size(y)
  BY <1>6, <1>7, PendingSame
<1>10. Size(w) <= Size(x)
  <2>1. Size(w) \in Nat /\ Size(z) \in Nat /\ Size(y) \in Nat
    BY <1>4, <1>6, PendingParts
  <2> HIDE DEF Size
  <2> QED BY <1>4, <1>6, <1>9, <2>1
<1>11. w.wb.async # NoSlot /\ x.rc = 0 => Size(x) = Base(w)
  <2> SUFFICES ASSUME w.wb.async # NoSlot, x.rc = 0 PROVE Size(x) = Base(w)
    OBVIOUS
  <2>1. z.fx.rpc = NoRequest /\ Size(z) = Base(w)
    BY <1>3, <1>7 DEF Drained
  <2>2. y.fx.file = z.fx.file
    BY <1>6, <2>1 DEF Queued, NoRequest
  <2>3. Size(y) = Size(z)
    BY <2>2 DEF Size
  <2> HIDE DEF Size, Base
  <2> QED BY <1>9, <2>1, <2>3
<1>12. w.wb.async = NoSlot /\ ~Queued(w, "write") => x.fx.file = w.fx.file
  <2> SUFFICES ASSUME w.wb.async = NoSlot, ~Queued(w, "write") PROVE x.fx.file = w.fx.file
    OBVIOUS
  <2>1. SameFile(z, w) /\ z.fx.rpc = w.fx.rpc
    BY <1>3 DEF Drained
  <2> QED BY <1>6, <1>7, <2>1 DEF Queued, SameFile
<1>13. ~Queued(w, "read") => x.ra = w.ra
  BY <1>4, <1>6, <1>7 DEF Queued
<1>14. /\ w.wb.depth > 0 /\ w.wb.fd \in {0, w.fx.open} => x.wb.fd = 0
       /\ w.wb.depth = 0 => x.wb.fd = w.wb.fd
  BY <1>0, <1>3, <1>6, <1>7, WorldParts
<1>15. /\ SameCache(x, w) /\ (w.fx.pos <= ImageUnits => x.fx.pos <= ImageUnits)
       /\ SameCur(x, w)
  <2>1. z.fx.pos = w.fx.pos
    BY <1>3 DEF Drained
  <2> QED BY <1>4, <1>6, <1>7, <2>1 DEF SameCache, SameCur
<1>16. SameEnd(x, w)
  <2> SUFFICES ASSUME Queued(w, "read") PROVE SameEnd(x, w)
    BY DEF SameEnd
  <2>1. w.wb.async = NoSlot
    BY DEF Pending, Queued
  <2>2. SameFile(z, w) /\ z.fx.rpc = w.fx.rpc
    BY <1>3, <2>1 DEF Drained
  <2> QED BY <1>4, <1>6, <1>7, <2>2 DEF SameEnd, SameFile, Queued
<1> HIDE DEF Size, Base
<1> QED BY <1>4, <1>6, <1>7, <1>8, <1>9, <1>10, <1>11, <1>12, <1>13, <1>14, <1>15, <1>16 DEF Shut
=============================================================================
