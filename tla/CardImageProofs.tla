--------------------------- MODULE CardImageProofs ---------------------------
(***************************************************************************)
(* The Card Tools, for every set of card sizes, batch size, build, number  *)
(* of images and every number of faults: what is exported is the card, a   *)
(* card is formatted only with its image on the stick, a restore writes in *)
(* order, other images are left alone, and the batch cache serves no page  *)
(* of another card.                                                        *)
(*                                                                         *)
(* The argument: a buffer holds a whole aligned batch or nothing           *)
(* (ReadType), and the batch in flight has a buffer of its own (Owned).    *)
(* Nothing is prefetched before the size of the card is known, so what the *)
(* buffers hold when a restore begins to write are the batches of the      *)
(* geometry probe (Probing, Left); from then on a page comes from the card *)
(* or from one of those batches (Buffers), and the sequence captured or    *)
(* read back grows by that page (Capturing, ReadingBack).                  *)
(***************************************************************************)
EXTENDS CardImageSafety, FiniteSetTheorems, TLAPS

Backs == {"probe", "candidate", "record", "check"}
Pcs ==
  Backs \cup {"idle", "read", "direct", "source", "info", "create", "capture", "close",
              "compare", "format", "erase", "program", "readback", "stop"}
Ops == {"export", "restore", "format"}
Results == {"-", "ok", "verify", "geometry", "size", "usb", "read", "write", "format"}
Reports == [result : Results, verified : BOOLEAN]

(* Where the program is: reading a page for b, or there or back at b. *)
Reading(b) == pc \in {"read", "direct"} /\ back = b
In(b) == pc = b \/ Reading(b)
Exporting == pc \in {"capture", "close", "compare"} \/ In("record")
Writing == pc \in {"erase", "program"}
Checking == pc = "readback" \/ In("check")
Final == Checking \/ pc = "stop"

-----------------------------------------------------------------------------
(* Types: TypeOK and the shape of buffers, requests and files. *)

Aligned == {s \in Nat : BatchStart(s) = s}
BatchRange(s) == s..(s + Batch - 1)
Batches == {Nothing} \cup UNION {[BatchRange(s) -> Data] : s \in Aligned}
Cards == UNION {[0..(k - 1) -> Data] : k \in Sizes}
Flights ==
  [state : {"none", "issued", "done"}, slot : {0, 1}, start : Nat, pages : SUBSET Nat,
   got : Batches]
Underway(f) ==
  /\ f.state # "none" /\ f.start \in Aligned /\ f.pages = BatchRange(f.start)
  /\ f.got # Nothing => DOMAIN f.got = f.pages

ReadType ==
  /\ card \in Cards /\ bound \in BOOLEAN /\ async \in Builds
  /\ cache \in [{0, 1} -> Batches] /\ cur \in {-1, 0, 1}
  /\ limit \in Sizes \cup {0} /\ last \in Nat \cup {NoPage}
  /\ flight \in Flights
  /\ flight = NoFlight \/ Underway(flight)
  /\ pc \in Pcs
  /\ pc \in {"read", "direct"} => back \in Backs
  /\ back \in Backs \cup {"idle"} /\ want \in Nat /\ buf \in Data /\ rc \in {"ok", "io"}
  /\ faults \in Nat
JobType ==
  /\ image \in [Paths -> Image]
  /\ op \in Ops \cup {"none"} /\ fmt \in Formats /\ name \in Paths \cup {NoPath}
  /\ total \in Sizes \cup {0} /\ n \in Nat
  /\ crc \in Seq(Data) /\ seen \in Seq(Data) /\ batch \in Seq(Data)
  /\ Len(batch) < WriteBatch
  /\ report \in Reports
  /\ before \in [card : Cards, image : [Paths -> Image], faults : Nat]

(* No request without a session, and none into the current buffer. *)
Owned ==
  flight # NoFlight => flight.slot # cur /\ cache[flight.slot] = Nothing /\ pc # "idle"

(* Which operation is where, and what it works on. *)
Roles ==
  /\ pc # "idle" => op \in Ops
  /\ op = "format" => fmt = "vmc"
  /\ pc = "create" \/ Exporting => op \in {"export", "format"}
  /\ pc = "format" => op = "format"
  /\ pc = "source" \/ Writing \/ Checking => op = "restore"
  /\ pc # "idle" /\ op = "restore" => name \in Paths
  /\ Exporting \/ pc = "format" => name \in Paths /\ name[1] = fmt
  /\ pc = "create" \/ Exporting \/ pc = "format" \/ Writing \/ Checking => total # 0

(* A restore works from the image it has verified. *)
Sourced ==
  /\ pc \notin {"idle", "source", "stop"} /\ op = "restore" => crc = image[name].data
  /\ Writing \/ Checking => total = Len(crc) /\ n <= total
  /\ pc = "program" \/ In("check") => n < total
  /\ In("candidate") => n \in Sizes

(* The pages captured that are not in the batch are in the file, at their  *)
(* places: the file is at least as long.                                   *)
Filing ==
  /\ pc = "create" => n = 0
  /\ pc = "capture" \/ In("record") =>
       Len(batch) <= n /\ n - Len(batch) <= Len(image[name].data)
  /\ pc \in {"capture", "close"} \/ In("record") \/ batch = <<>>

TypeInv == ReadType /\ JobType /\ Owned /\ Roles /\ Sourced /\ Filing

-----------------------------------------------------------------------------
(* The session, with the card in the slot *)

Home ==
  /\ pc = "idle" =>
       /\ before.card = card /\ before.image = image
       /\ crc = <<>> /\ seen = <<>> /\ total = 0
  /\ pc \in {"source", "info"} \/ Reading("probe") =>
       cache = NoCache /\ cur = -1 /\ limit = 0 /\ last = NoPage
  /\ pc \in {"source", "info"} \/ In("probe") \/ In("candidate") =>
       total = 0 /\ flight = NoFlight

CardWritten == op = "restore" /\ (Writing \/ Checking \/ pc = "stop")
(* The image whose stat failed, once its name was chosen. *)
Failing == faults > before.faults
Mistaken(m) ==
  m = name /\ op # "restore" /\ Failing /\ (Exporting \/ pc \in {"format", "stop"})
Kept ==
  /\ DOMAIN before.card = DOMAIN card /\ faults >= before.faults
  /\ card = before.card \/ CardWritten \/ (op = "format" /\ pc = "stop")
  /\ \A m \in Paths : before.image[m].exists => image[m] = before.image[m] \/ Mistaken(m)
  /\ Exporting \/ pc = "format" => ~before.image[name].exists \/ Failing
  /\ pc # "idle" /\ op = "restore" => before.image[name].exists

Superblock == SuperblockPages(before.card[0])
Probing ==
  /\ Reading("probe") => want = 0
  /\ pc = "probe" => (Superblock = 0 => limit = 0)
  /\ pc = "probe" /\ rc = "ok" => buf = before.card[0]
  /\ In("candidate") => Superblock = 0 /\ limit = 0
  /\ Reading("candidate") => want = n - 1
  /\ total # 0 => Superblock \in {0, total}
  /\ Writing => flight = NoFlight

(* The batches the geometry probe may leave in the buffers. *)
Held == {cache[0], cache[1], flight.got}
LeftIn(c) ==
  \A p \in DOMAIN c :
    /\ In("probe") \/ In("candidate") =>
         p < Batch \/ (pc = "candidate" /\ rc = "ok" /\ p >= n - Batch)
    /\ Writing => Probed(p)
    /\ Checking => Probed(p) \/ c[p] = card[p]
Left == \A c \in Held : LeftIn(c)

FreshIn(c) ==
  \A p \in DOMAIN c :
    p \in DOMAIN card /\ (c[p] = before.card[p] \/ (Final /\ c[p] = card[p]))
Buffers == pc # "idle" => \A c \in Held : FreshIn(c)

-----------------------------------------------------------------------------
(* What was captured, what is being restored, what was read back *)

Capturing ==
  /\ (pc \in {"info", "create"} \/ In("probe") \/ In("candidate")) /\ op # "restore" =>
       crc = <<>>
  /\ pc = "capture" => crc = Pages(card, n) /\ n <= total
  /\ In("record") => crc = Pages(card, n) /\ n < total
  /\ Reading("record") => want = n
  /\ pc = "record" /\ rc = "ok" => buf = card[n] /\ n \in DOMAIN card
  /\ pc \in {"close", "compare"} => crc = Pages(card, total)
  /\ pc = "format" => image[name].data = Pages(card, total)
  /\ ExportFaithful

Restoring ==
  /\ pc = "stop" /\ op = "restore" =>
       card = before.card \/ (crc = image[name].data /\ total = Len(crc) /\ total # 0)
  /\ Writing =>
       \A p \in DOMAIN card :
         /\ p < n => card[p] \in {crc[p + 1], Damaged}
         /\ p \div BlockPages > n \div BlockPages => card[p] = before.card[p]

ReadingBack ==
  /\ pc # "stop" /\ ~Checking => seen = <<>>
  /\ Checking => Len(seen) = n /\ \A q \in 0..(n - 1) : ~Probed(q) => seen[q + 1] = card[q]
  /\ Reading("check") => want = n
  /\ pc = "check" /\ rc = "ok" /\ ~Probed(n) => buf = card[n]
  /\ RestoreVerifiedPastProbe

SessionInv == Home /\ Kept /\ Probing /\ Left /\ Buffers
JobInv == Capturing /\ Restoring /\ ReadingBack

-----------------------------------------------------------------------------
(* Pages and batches *)

(* A page lies in the aligned batch it is read with, and in no other. *)
LEMMA BatchOfPage ==
  ASSUME NEW p \in Nat
  PROVE  BatchStart(p) \in Aligned /\ p \in BatchRange(BatchStart(p))
  <1> DEFINE q == p \div Batch
  <1>1. q \in Nat /\ q * Batch <= p /\ p < q * Batch + Batch
    BY BatchAssumption
  <1>2. (q * Batch) \div Batch = q
    BY <1>1, BatchAssumption
  <1> QED
    BY <1>1, <1>2, BatchAssumption DEF BatchStart, BatchRange, Aligned

LEMMA PageOfBatch ==
  ASSUME NEW s \in Aligned, NEW p \in BatchRange(s)
  PROVE  p \in Nat /\ BatchStart(p) = s
  <1> DEFINE q == s \div Batch
             r == p \div Batch
  <1>1. q \in Nat /\ q * Batch = s /\ s <= p /\ p < q * Batch + Batch /\ p \in Nat
    BY BatchAssumption DEF Aligned, BatchRange, BatchStart
  <1>2. r \in Nat /\ r * Batch <= p /\ p < r * Batch + Batch
    BY <1>1, BatchAssumption
  <1>3. r = q
    BY <1>1, <1>2, BatchAssumption
  <1> QED
    BY <1>1, <1>3 DEF BatchStart

(* The batch after an aligned one is aligned, and nothing lies between. *)
LEMMA NextAligned ==
  ASSUME NEW s \in Aligned
  PROVE  s + Batch \in Aligned
  <1> DEFINE q == s \div Batch
  <1>1. q \in Nat /\ q * Batch = s
    BY BatchAssumption DEF Aligned, BatchStart
  <1>2. (s + Batch) \div Batch = q + 1
    BY <1>1, BatchAssumption
  <1> QED
    BY <1>1, <1>2, BatchAssumption DEF Aligned, BatchStart

LEMMA AlignedGap ==
  ASSUME NEW s \in Aligned, NEW l \in Aligned, s < l
  PROVE  s + Batch <= l
  <1> DEFINE q == s \div Batch
             r == l \div Batch
  <1>1. q \in Nat /\ q * Batch = s /\ r \in Nat /\ r * Batch = l
    BY BatchAssumption DEF Aligned, BatchStart
  <1>2. q < r
    BY <1>1, BatchAssumption
  <1>3. (q + 1) * Batch <= r * Batch
    BY <1>1, <1>2, BatchAssumption
  <1> QED
    BY <1>1, <1>3, BatchAssumption

(* A card is a number of whole batches. *)
LEMMA SizesAligned ==
  ASSUME NEW k \in Sizes
  PROVE  k \in Aligned /\ k \in Nat /\ k > 0 /\ k >= Batch /\ BatchStart(k - 1) = k - Batch
  <1>1. k \in Nat \ {0} /\ k % Batch = 0
    BY SizesAssumption
  <1> DEFINE q == k \div Batch
  <1>2. q \in Nat /\ q * Batch = k
    BY <1>1, BatchAssumption
  <1>3. q >= 1
    BY <1>1, <1>2, BatchAssumption
  <1>4. (q - 1) * Batch = k - Batch /\ q - 1 \in Nat
    BY <1>2, <1>3, BatchAssumption
  <1>5. (k - 1) \div Batch = q - 1
    BY <1>1, <1>2, <1>3, <1>4, BatchAssumption
  <1> QED
    BY <1>1, <1>2, <1>3, <1>4, <1>5, BatchAssumption DEF Aligned, BatchStart

(* A batch is read whole or not at all. *)
LEMMA WholeBatch ==
  ASSUME NEW s \in Aligned, NEW lim \in Sizes \cup {0}
  PROVE  /\ BatchPages(s, lim) = {} \/ BatchPages(s, lim) = BatchRange(s)
         /\ lim = 0 \/ s < lim => BatchPages(s, lim) = BatchRange(s)
         /\ lim # 0 /\ lim <= s => BatchPages(s, lim) = {}
         /\ s \in BatchRange(s)
  <1>1. s \in Nat /\ s \in BatchRange(s)
    BY BatchAssumption DEF Aligned, BatchRange
  <1>2. CASE lim = 0
    BY <1>1, <1>2 DEF BatchPages, BatchRange
  <1>3. CASE lim # 0 /\ lim <= s
    BY <1>1, <1>3, SizesAligned, BatchAssumption DEF BatchPages
  <1>4. CASE lim # 0 /\ s < lim
    <2>1. s + Batch <= lim /\ lim \in Nat
      BY <1>4, SizesAligned, AlignedGap
    <2> QED
      BY <1>1, <1>4, <2>1, BatchAssumption DEF BatchPages, BatchRange
  <1> QED
    BY <1>1, <1>2, <1>3, <1>4, SizesAligned

LEMMA NextOfBatch ==
  ASSUME NEW s \in Aligned, NEW c, DOMAIN c = BatchRange(s)
  PROVE  NextStart(c) = s + Batch
  <1>1. s \in Nat
    BY DEF Aligned
  <1>2. \A p \in DOMAIN c : p + 1 \notin DOMAIN c <=> p = s + Batch - 1
    BY <1>1, BatchAssumption DEF BatchRange
  <1>3. s + Batch - 1 \in DOMAIN c
    BY <1>1, BatchAssumption DEF BatchRange
  <1> DEFINE x == CHOOSE p \in DOMAIN c : p + 1 \notin DOMAIN c
  <1>4. \E p \in DOMAIN c : p + 1 \notin DOMAIN c
    BY <1>2, <1>3
  <1>5. x \in DOMAIN c /\ x + 1 \notin DOMAIN c
    BY <1>4, Zenon
  <1>6. x = s + Batch - 1
    BY <1>2, <1>5
  <1>7. NextStart(c) = 1 + x
    BY Zenon DEF NextStart
  <1> HIDE DEF x
  <1> QED
    BY <1>1, <1>6, <1>7, BatchAssumption

LEMMA DataFacts ==
  /\ Erased \in Data /\ Damaged \in Data
  /\ \A k \in Sizes : k \in Data
  /\ \A d \in Data : SuperblockPages(d) \in Sizes \cup {0}
  /\ \A k \in Sizes : k \in Nat \ {0}
  BY SizesAssumption DEF Data, SuperblockPages, Erased

LEMMA BatchesFacts ==
  /\ Nothing \in Batches /\ DOMAIN Nothing = {}
  /\ \A c \in Batches : c # Nothing => \E s \in Aligned : c \in [BatchRange(s) -> Data]
  /\ \A s \in Aligned : [BatchRange(s) -> Data] \subseteq Batches
  /\ \A c \in Batches : \A p \in DOMAIN c :
       /\ p \in Nat /\ c[p] \in Data
       /\ BatchStart(p) \in Aligned /\ DOMAIN c = BatchRange(BatchStart(p))
  /\ NoCache \in [{0, 1} -> Batches]
  <1>1. Nothing \in Batches /\ DOMAIN Nothing = {} /\ NoCache \in [{0, 1} -> Batches]
    BY DEF Batches, Nothing, NoCache
  <1>2. \A c \in Batches : c # Nothing => \E s \in Aligned : c \in [BatchRange(s) -> Data]
    BY DEF Batches
  <1>3. \A s \in Aligned : [BatchRange(s) -> Data] \subseteq Batches
    BY DEF Batches
  <1>4. ASSUME NEW c \in Batches, NEW p \in DOMAIN c
        PROVE  /\ p \in Nat /\ c[p] \in Data
               /\ BatchStart(p) \in Aligned /\ DOMAIN c = BatchRange(BatchStart(p))
    <2>1. PICK s \in Aligned : c \in [BatchRange(s) -> Data]
      BY <1>1, <1>2, <1>4
    <2> QED
      BY <1>4, <2>1, PageOfBatch
  <1> QED
    BY <1>1, <1>2, <1>3, <1>4

LEMMA NoFlightFacts ==
  /\ NoFlight \in Flights /\ NoFlight.got = Nothing /\ NoFlight.state = "none"
  /\ \A f \in Flights : f.got \in Batches
  BY BatchesFacts DEF NoFlight, Flights

-----------------------------------------------------------------------------
(* What a page read does *)

FromCard(c) == \A p \in DOMAIN c : p \in DOMAIN card /\ c[p] = card[p]

(* A page that is served comes from its buffer; a batch is prefetched only *)
(* after the size of the card is known, and into the other buffer.         *)
LEMMA ServeEffect ==
  ASSUME ReadType, Owned, pc = "read",
         NEW cch \in [{0, 1} -> Batches], NEW s \in {0, 1}, NEW fl \in Flights,
         want \in DOMAIN cch[s],
         fl = NoFlight \/ (fl = flight /\ Underway(fl) /\ cch = cache /\ s = cur),
         Serve(want, cch, s, fl)
  PROVE  /\ ReadType' /\ Owned'
         /\ pc' = back /\ rc' = "ok" /\ buf' = cch[s][want] /\ UNCHANGED <<card, back, want>>
         /\ \A c \in Held' : c \in {cch[0], cch[1], fl.got, Nothing}
         /\ limit' = limit \/ (want = 0 /\ limit = 0 /\ limit' = SuperblockPages(buf'))
         /\ flight' # NoFlight => fl # NoFlight \/ (limit' # 0 /\ last = want - 1)
  <1> DEFINE lim == IF want = 0 /\ limit = 0 THEN SuperblockPages(cch[s][0]) ELSE limit
             start == NextStart(cch[s])
             base == BatchStart(want)
             new == [state |-> "issued", slot |-> NextSlot(s), start |-> start,
                     pages |-> BatchPages(start, lim), got |-> Nothing]
             lower == [cch EXCEPT ![NextSlot(s)] = Nothing]
  <1>1. /\ cch[s] \in Batches /\ base \in Aligned /\ DOMAIN cch[s] = BatchRange(base)
        /\ cch[s][want] \in Data /\ want \in Nat
    BY BatchesFacts
  <1>2. start = base + Batch /\ start \in Aligned /\ start \in Nat
    BY <1>1, NextOfBatch, NextAligned DEF Aligned
  <1>3. lim \in Sizes \cup {0}
    BY <1>1, DataFacts DEF ReadType
  <1>4. /\ buf' = cch[s][want] /\ rc' = "ok" /\ pc' = back
        /\ cur' = s /\ limit' = lim /\ last' = want
        /\ UNCHANGED <<back, want, card, async>>
    BY DEF Serve
  <1>5. NextSlot(s) \in {0, 1} /\ NextSlot(s) # s
    BY DEF NextSlot
  <1>6. lower \in [{0, 1} -> Batches] /\ lower[NextSlot(s)] = Nothing
        /\ \A i \in {0, 1} : lower[i] \in {cch[i], Nothing}
    BY <1>5, BatchesFacts
  <1>7. back \in Backs /\ back # "idle"
    BY DEF ReadType, Backs
  <1>8. limit' = limit \/ (want = 0 /\ limit = 0 /\ limit' = SuperblockPages(buf'))
    BY <1>4
  <1>9. CASE ~Prefetches(want, cch[s], lim, fl)
    <2>1. cache' = cch /\ flight' = fl /\ UNCHANGED <<faults, bound>>
      BY <1>9 DEF Serve, NoFault
    <2>2. ReadType'
      <3>1. flight' = NoFlight \/ Underway(flight)'
        BY <2>1 DEF Underway
      <3> QED
        BY <1>1, <1>3, <1>4, <1>7, <2>1, <3>1 DEF ReadType, Pcs, Backs
    <2>3. Owned'
      BY <1>4, <1>7, <2>1 DEF Owned
    <2> QED
      BY <1>4, <1>8, <2>1, <2>2, <2>3 DEF Held
  <1>10. CASE Prefetches(want, cch[s], lim, fl)
    <2>1. /\ cache' = lower /\ fl = NoFlight
          /\ lim # 0 /\ start < lim /\ last = want - 1
          /\ \/ flight' = new /\ UNCHANGED <<faults, bound>>
             \/ flight' = NoFlight /\ bound' = FALSE /\ Fault({"rpc"})
      BY <1>10 DEF Serve, NoFault, Prefetches
    <2>2. new \in Flights /\ new.state # "none" /\ new.start \in Aligned
          /\ new.pages = BatchRange(new.start) /\ new.got = Nothing /\ new.slot = NextSlot(s)
      <3>1. BatchPages(start, lim) = BatchRange(start)
        BY <1>2, <1>3, <2>1, WholeBatch
      <3>2. BatchRange(start) \in SUBSET Nat
        BY <1>2, BatchAssumption DEF BatchRange
      <3> QED
        BY <1>2, <1>5, <3>1, <3>2, BatchesFacts DEF Flights
    <2> HIDE DEF new
    <2>3. flight' \in Flights /\ (flight' = NoFlight \/ Underway(flight)')
          /\ flight'.got = Nothing
          /\ bound' \in BOOLEAN /\ faults' \in Nat
      <3>1. flight' = new \/ flight' = NoFlight
        BY <2>1
      <3>2. flight' \in Flights /\ flight'.got = Nothing
        BY <2>2, <3>1, NoFlightFacts
      <3>3. flight' = NoFlight \/ Underway(flight)'
        BY <2>2, <3>1 DEF Underway
      <3>4. bound' = bound \/ bound' = FALSE
        BY <2>1, Zenon
      <3>5. faults' = faults \/ faults' = faults + 1
        BY <2>1, Zenon DEF Fault
      <3>6. bound' \in BOOLEAN
        BY <3>4, Zenon DEF ReadType
      <3>7. faults' \in Nat
        BY <3>5 DEF ReadType
      <3> QED
        BY <3>2, <3>3, <3>6, <3>7
    <2> HIDE DEF lower
    <2>4. ReadType'
      BY <1>1, <1>3, <1>4, <1>6, <1>7, <2>1, <2>3 DEF ReadType, Pcs, Backs
    <2>5. Owned'
      BY <1>4, <1>5, <1>6, <1>7, <2>1, <2>2 DEF Owned
    <2>6. \A c \in Held' : c \in {cch[0], cch[1], fl.got, Nothing}
      BY <1>6, <2>1, <2>3 DEF Held
    <2> QED
      BY <1>4, <1>8, <2>1, <2>4, <2>5, <2>6
  <1> QED
    BY <1>9, <1>10

LEMMA CardFacts ==
  ASSUME NEW c \in Cards
  PROVE  /\ \E k \in Sizes : c \in [0..(k - 1) -> Data] /\ DOMAIN c = 0..(k - 1)
         /\ \A p \in DOMAIN c : p \in Nat /\ c[p] \in Data
         /\ 0 \in DOMAIN c
  <1>1. PICK k \in Sizes : c \in [0..(k - 1) -> Data]
    BY DEF Cards
  <1> QED
    BY <1>1, SizesAligned

(* One step of a page read: it goes on, fails, or serves the page from the *)
(* card or from a buffer; the buffers change only by being cleared or, as  *)
(* the page is served, by taking its batch from the card.                  *)
PageRead ==
  /\ pc \in {"read", "direct"} /\ back \in Backs
  /\ UNCHANGED <<card, back, want>>
  /\ \/ pc' \in {"read", "direct"} /\ UNCHANGED <<buf, rc, limit>>
     \/ pc' = back /\ rc' = "io" /\ UNCHANGED limit
     \/ /\ pc' = back /\ rc' = "ok"
        /\ \/ want \in DOMAIN card /\ buf' = card[want]
           \/ \E c \in Held : want \in DOMAIN c /\ buf' = c[want]
        /\ \/ UNCHANGED limit
           \/ want = 0 /\ limit = 0 /\ limit' = SuperblockPages(buf')
  /\ \A c \in Held' :
       \/ c \in Held \cup {Nothing}
       \/ /\ pc' = back /\ rc' = "ok"
          /\ FromCard(c) /\ DOMAIN c = BatchRange(BatchStart(want))
  /\ flight' # NoFlight => flight # NoFlight \/ (limit' # 0 /\ last = want - 1)
  /\ pc' \in {"read", "direct"} /\ flight = NoFlight =>
       /\ cur' = cur /\ last' \in {last, NoPage}
       /\ cache' = cache \/ \E i \in {0, 1} : cache' = [cache EXCEPT ![i] = Nothing]

LEMMA HitReads ==
  ASSUME ReadType, Owned, ReadHit
  PROVE  ReadType' /\ Owned' /\ PageRead
  <1>1. pc = "read" /\ back \in Backs /\ cur \in {0, 1} /\ want \in DOMAIN cache[cur]
        /\ Serve(want, cache, cur, flight)
        /\ cache \in [{0, 1} -> Batches] /\ flight \in Flights
        /\ (flight = NoFlight \/ Underway(flight))
    BY DEF ReadHit, Hit, ReadType
  <1>2. /\ ReadType' /\ Owned'
        /\ pc' = back /\ rc' = "ok" /\ buf' = cache[cur][want] /\ UNCHANGED <<card, back, want>>
        /\ \A c \in Held' : c \in {cache[0], cache[1], flight.got, Nothing}
        /\ limit' = limit \/ (want = 0 /\ limit = 0 /\ limit' = SuperblockPages(buf'))
        /\ flight' # NoFlight => flight # NoFlight \/ (limit' # 0 /\ last = want - 1)
    BY <1>1, ServeEffect
  <1> QED
    BY <1>1, <1>2 DEF PageRead, Held, Backs

LEMMA FillReads ==
  ASSUME ReadType, Owned, ReadFill
  PROVE  ReadType' /\ Owned' /\ PageRead
  <1> DEFINE base == BatchStart(want)
             pages == BatchPages(base, limit)
             full == [cache EXCEPT ![FillSlot] = Snapshot(pages)]
             lower == [cache EXCEPT ![FillSlot] = Nothing]
  <1>1. /\ pc = "read" /\ back \in Backs /\ flight = NoFlight /\ pages # {}
        /\ want \in Nat /\ limit \in Sizes \cup {0} /\ cur \in {-1, 0, 1}
        /\ cache \in [{0, 1} -> Batches] /\ card \in Cards
    BY DEF ReadFill, ReadType
  <1>2. base \in Aligned /\ pages = BatchRange(base) /\ want \in pages
    BY <1>1, BatchOfPage, WholeBatch
  <1>3. FillSlot \in {0, 1}
    BY <1>1 DEF FillSlot
  <1>4. CASE pages \subseteq DOMAIN card /\ Serve(want, full, FillSlot, flight)
    <2>1. Snapshot(pages) \in [BatchRange(base) -> Data] /\ FromCard(Snapshot(pages))
          /\ DOMAIN Snapshot(pages) = BatchRange(base)
      BY <1>1, <1>2, <1>4, CardFacts DEF Snapshot, FromCard
    <2>2. Snapshot(pages) \in Batches
      BY <1>2, <2>1, BatchesFacts
    <2>3. /\ full \in [{0, 1} -> Batches] /\ full[FillSlot] = Snapshot(pages)
          /\ \A i \in {0, 1} : full[i] \in {cache[i], Snapshot(pages)}
      BY <1>1, <1>3, <2>2
    <2>4. want \in DOMAIN full[FillSlot] /\ flight \in Flights
      BY <1>1, <1>2, <2>1, <2>3, NoFlightFacts
    <2> HIDE DEF full
    <2>5. /\ ReadType' /\ Owned'
          /\ pc' = back /\ rc' = "ok" /\ buf' = full[FillSlot][want]
          /\ UNCHANGED <<card, back, want>>
          /\ \A c \in Held' : c \in {full[0], full[1], flight.got, Nothing}
          /\ limit' = limit \/ (want = 0 /\ limit = 0 /\ limit' = SuperblockPages(buf'))
          /\ flight' # NoFlight => flight # NoFlight \/ (limit' # 0 /\ last = want - 1)
      BY <1>1, <1>3, <1>4, <2>3, <2>4, ServeEffect
    <2>6. want \in DOMAIN card /\ buf' = card[want]
      BY <1>2, <1>4, <2>1, <2>3, <2>5 DEF FromCard
    <2>7. \A c \in Held' : \/ c \in Held \cup {Nothing}
                           \/ FromCard(c) /\ DOMAIN c = BatchRange(BatchStart(want))
      BY <2>1, <2>3, <2>5 DEF Held
    <2> QED
      BY <1>1, <2>5, <2>6, <2>7 DEF PageRead, Backs
  <1>5. CASE cache' = lower /\ last' = NoPage /\ pc' = "direct"
             /\ UNCHANGED <<card, async, cur, limit, flight, read>>
             /\ (UNCHANGED bound \/ bound' = FALSE)
             /\ (UNCHANGED faults \/ faults' = faults + 1)
    <2>1. lower \in [{0, 1} -> Batches] /\ \A i \in {0, 1} : lower[i] \in {cache[i], Nothing}
      BY <1>1, <1>3, BatchesFacts
    <2>2. bound' \in BOOLEAN
      BY <1>5, Zenon DEF ReadType
    <2>3. faults' \in Nat
      BY <1>5 DEF ReadType
    <2> HIDE DEF lower
    <2>4. ReadType'
      BY <1>1, <1>5, <2>1, <2>2, <2>3 DEF ReadType, read, Pcs, Underway
    <2>5. \A c \in Held' : c \in Held \cup {Nothing}
      BY <1>5, <2>1 DEF Held
    <2>6. \E i \in {0, 1} : cache' = [cache EXCEPT ![i] = Nothing]
      BY <1>3, <1>5 DEF lower
    <2> QED
      BY <1>1, <1>5, <2>4, <2>5, <2>6 DEF PageRead, Owned, read
  <1> QED
    BY <1>4, <1>5, Zenon DEF ReadFill, NoFault, Fault

LEMMA OtherReads ==
  ASSUME ReadType, Owned, ReadWait \/ ReadUnbatched \/ ReadDirect
  PROVE  ReadType' /\ Owned' /\ PageRead
  <1>1. CASE ReadWait
    <2>1. /\ pc = "read" /\ back \in Backs /\ flight.state = "done" /\ flight \in Flights
          /\ cache' = [cache EXCEPT ![flight.slot] = flight.got]
          /\ cur' \in {flight.slot, cur} /\ flight' = NoFlight
          /\ UNCHANGED <<card, async, bound, limit, last, pc, back, want, buf, rc, faults>>
      BY <1>1 DEF ReadWait, ReadType, NoFault, read
    <2>2. flight.slot \in {0, 1} /\ flight.got \in Batches /\ flight # NoFlight
      BY <2>1, NoFlightFacts DEF Flights
    <2>3. cache' \in [{0, 1} -> Batches] /\ \A i \in {0, 1} : cache'[i] \in {cache[i], flight.got}
      BY <2>1, <2>2 DEF ReadType
    <2>4. cur' \in {-1, 0, 1}
      BY <2>1, <2>2 DEF ReadType
    <2>5. ReadType' /\ Owned'
      BY <2>1, <2>3, <2>4, NoFlightFacts DEF ReadType, Owned
    <2>6. \A c \in Held' : c \in Held \cup {Nothing}
      BY <2>1, <2>3, NoFlightFacts DEF Held
    <2> QED
      BY <2>1, <2>2, <2>5, <2>6 DEF PageRead
  <1>2. CASE ReadUnbatched
    <2>1. /\ pc = "read" /\ pc' = "direct" /\ back \in Backs /\ last' \in {last, NoPage}
          /\ UNCHANGED <<card, async, bound, cache, cur, limit, flight, back, want, buf, rc, faults>>
      BY <1>2 DEF ReadUnbatched, ReadType, NoFault, read
    <2>2. ReadType' /\ Owned'
      BY <2>1 DEF ReadType, Owned, Pcs, Underway
    <2>3. \A c \in Held' : c \in Held
      BY <2>1 DEF Held
    <2> QED
      BY <2>1, <2>2, <2>3 DEF PageRead
  <1>3. CASE ReadDirect
    <2>1. /\ pc = "direct" /\ pc' = back /\ back \in Backs
          /\ UNCHANGED <<card, async, bound, cache, cur, limit, last, flight, back, want>>
          /\ \/ want \in DOMAIN card /\ buf' = card[want] /\ rc' = "ok"
             \/ UNCHANGED buf /\ rc' = "io"
      BY <1>3 DEF ReadDirect, ReadType, bulk
    <2>2. faults' = faults \/ faults' = faults + 1
      BY <1>3, Zenon DEF ReadDirect, Fault, NoFault
    <2>3. buf' \in Data /\ card \in Cards /\ faults' \in Nat
      BY <2>1, <2>2, CardFacts DEF ReadType
    <2>4. ReadType' /\ Owned'
      BY <2>1, <2>3 DEF ReadType, Owned, Pcs, Backs, Underway
    <2>5. \A c \in Held' : c \in Held
      BY <2>1 DEF Held
    <2> QED
      BY <2>1, <2>4, <2>5 DEF PageRead, Backs
  <1> QED
    BY <1>1, <1>2, <1>3

LEMMA ReadEffect ==
  ASSUME ReadType, Owned, ReadNext
  PROVE  ReadType' /\ Owned' /\ PageRead
  BY HitReads, FillReads, OtherReads DEF ReadNext

(* The IOP takes the batch in flight from the card. *)
LEMMA IopEffect ==
  ASSUME ReadType, Owned, IopBulk
  PROVE  /\ ReadType' /\ Owned' /\ flight # NoFlight
         /\ UNCHANGED <<card, cur, limit, last, pc, back, want, buf, rc>>
         /\ \A c \in Held' : c \in Held \cup {Nothing} \/ FromCard(c)
  <1>1. /\ flight.state = "issued" /\ flight \in Flights /\ flight # NoFlight /\ Underway(flight)
        /\ UNCHANGED <<card, async, bound, cache, cur, limit, last, pc, back, want, buf, rc>>
    BY NoFlightFacts DEF IopBulk, ReadType, read
  <1>2. faults' = faults \/ faults' = faults + 1
    BY Zenon DEF IopBulk, Fault, NoFault
  <1>3. faults' \in Nat /\ card \in Cards
    BY <1>2 DEF ReadType
  <1>4. CASE flight.pages \subseteq DOMAIN card
             /\ flight' = [flight EXCEPT !.state = "done", !.got = Snapshot(flight.pages)]
    <2> DEFINE got == Snapshot(flight.pages)
    <2>1. got \in [BatchRange(flight.start) -> Data] /\ FromCard(got)
          /\ DOMAIN got = flight.pages
      BY <1>1, <1>3, <1>4, CardFacts DEF Snapshot, FromCard, Underway
    <2>2. got \in Batches
      BY <1>1, <2>1, BatchesFacts DEF Underway
    <2> HIDE DEF got
    <2>3. /\ flight' \in Flights /\ flight'.got = got /\ flight'.state = "done"
          /\ flight'.slot = flight.slot /\ flight'.start = flight.start
          /\ flight'.pages = flight.pages
      BY <1>1, <1>4, <2>2 DEF Flights, got
    <2>4. Underway(flight)'
      BY <1>1, <2>1, <2>3 DEF Underway
    <2>5. ReadType' /\ Owned'
      BY <1>1, <1>3, <2>3, <2>4 DEF ReadType, Owned
    <2>6. \A c \in Held' : c \in Held \/ FromCard(c)
      BY <1>1, <2>1, <2>3 DEF Held
    <2> QED
      BY <1>1, <2>5, <2>6
  <1>5. CASE flight' = [flight EXCEPT !.state = "done"]
    <2>1. /\ flight' \in Flights /\ flight'.got = flight.got /\ flight'.state = "done"
          /\ flight'.slot = flight.slot /\ flight'.start = flight.start
          /\ flight'.pages = flight.pages
      BY <1>1, <1>5 DEF Flights
    <2>2. Underway(flight)'
      BY <1>1, <2>1 DEF Underway
    <2>3. ReadType' /\ Owned'
      BY <1>1, <1>3, <2>1, <2>2 DEF ReadType, Owned
    <2>4. \A c \in Held' : c \in Held
      BY <1>1, <2>1 DEF Held
    <2> QED
      BY <1>1, <2>3, <2>4
  <1> QED
    BY <1>4, <1>5 DEF IopBulk

-----------------------------------------------------------------------------
(* The type invariant: a step of the engine leaves the buffers alone and   *)
(* starts a page read or goes to another of its steps.                     *)

Engined ==
  /\ UNCHANGED <<async, bulk, buf, rc>>
  /\ pc' \in Pcs \ {"idle", "direct"}
  /\ IF pc' = "read" THEN back' \in Backs /\ want' \in Nat ELSE UNCHANGED <<back, want>>

LEMMA EngineReads ==
  ASSUME ReadType, Owned, Engined, card' \in Cards, faults' = faults \/ faults' = faults + 1
  PROVE  ReadType' /\ Owned'
  <1>1. UNCHANGED <<async, bound, cache, cur, limit, last, flight, buf, rc>>
    BY DEF Engined, bulk
  <1>2. faults' \in Nat
    BY DEF ReadType
  <1>3. flight' = NoFlight \/ Underway(flight)'
    BY <1>1 DEF ReadType, Underway
  <1>4. back' \in Backs \cup {"idle"} /\ want' \in Nat /\ (pc' = "read" => back' \in Backs)
    BY DEF ReadType, Engined
  <1> QED
    BY <1>1, <1>2, <1>3, <1>4 DEF ReadType, Owned, Engined

LEMMA Reported ==
  ASSUME NEW r \in Results
  PROVE  /\ NoReport \in Reports
         /\ Report(r) => report' \in Reports /\ (report'.verified <=> r = "ok")
         /\ Fails(r) => /\ pc' = "stop"
                        /\ report' \in Reports /\ (report'.verified <=> r = "ok")
  <1> DEFINE rep == [result |-> r, verified |-> r = "ok"]
  <1>1. NoReport \in Reports
    BY DEF NoReport, Reports, Results
  <1>2. CASE r = "ok"
    <2>1. rep = [result |-> r, verified |-> TRUE]
      BY <1>2
    <2>2. rep \in Reports /\ rep.verified
      BY <2>1 DEF Reports
    <2> QED
      BY <1>1, <1>2, <2>2 DEF Report, Fails, Goto
  <1>3. CASE r # "ok"
    <2>1. rep = [result |-> r, verified |-> FALSE]
      BY <1>3
    <2>2. rep \in Reports /\ ~rep.verified
      BY <2>1 DEF Reports
    <2> QED
      BY <1>1, <1>3, <2>2 DEF Report, Fails, Goto
  <1> QED
    BY <1>2, <1>3

(* Page reads and the IOP do not touch the job. *)
LEMMA ReadsKeepJob ==
  ASSUME TypeInv, UNCHANGED <<image, job, before>>,
         \/ UNCHANGED <<pc, back>>
         \/ PageRead
  PROVE  JobType' /\ Roles' /\ Sourced' /\ Filing'
  <1>1. UNCHANGED <<image, op, fmt, name, total, n, crc, seen, batch, report, before>>
    BY DEF job
  <1>2. CASE UNCHANGED <<pc, back>>
    BY <1>1, <1>2 DEF TypeInv, JobType, Roles, Sourced, Filing, Exporting, Writing, Checking, In, Reading
  <1>3. CASE PageRead
    BY <1>1, <1>3 DEF TypeInv, JobType, Roles, Sourced, Filing, Exporting, Writing, Checking, In, Reading,
                      PageRead, Backs
  <1> QED
    BY <1>2, <1>3

LEMMA ReadCardTyped ==
  ASSUME TypeInv, ReadCard \/ IopStep
  PROVE  TypeInv'
  <1>1. CASE ReadCard
    BY <1>1, ReadEffect, ReadsKeepJob DEF ReadCard, TypeInv
  <1>2. CASE IopStep
    BY <1>2, IopEffect, ReadsKeepJob DEF IopStep, TypeInv
  <1> QED
    BY <1>1, <1>2

LEMMA ProbesTyped ==
  ASSUME TypeInv, Source \/ Info \/ Probe \/ Candidate
  PROVE  TypeInv'
  <1> USE DEF TypeInv
  <1>1. Engined /\ card' = card /\ (faults' = faults \/ faults' = faults + 1)
    <2>1. CASE Source
      BY <2>1 DEF Source, Quiet, Goto, Fails, NoFault, Fault, Engined, read, Pcs
    <2>2. CASE Info
      BY <2>2 DEF Info, ReadPage, Goto, Fails, NoFault, Fault, Engined, read, Pcs, Backs
    <2>3. ASSUME NEW t, Known(t), UNCHANGED read
          PROVE  pc' \in {"create", "stop", "erase"} /\ UNCHANGED <<back, want, buf, rc>>
      BY <2>3 DEF Known, Goto, Fails, read
    <2>4. ASSUME NEW t \in Sizes, ReadPage(t - 1, "candidate")
          PROVE  /\ pc' = "read" /\ back' \in Backs /\ want' \in Nat
                 /\ UNCHANGED <<buf, rc>>
      BY <2>4, SizesAligned DEF ReadPage, Backs
    <2>5. CASE Probe
      BY <2>3, <2>4, <2>5 DEF Probe, Goto, Fails, NoFault, Engined, read, Pcs, bulk
    <2>6. CASE Candidate
      BY <2>3, <2>4, <2>6 DEF Candidate, Smaller, Goto, Fails, NoFault, Engined, read, Pcs, bulk
    <2> QED
      BY <2>1, <2>2, <2>5, <2>6
  <1>2. card' \in Cards
    BY <1>1 DEF ReadType
  <1>3. ReadType' /\ Owned'
    BY <1>1, <1>2, EngineReads
  <1>4. CASE Source
    <2>1. /\ pc = "source" /\ op = "restore" /\ name \in Paths
          /\ UNCHANGED <<image, op, fmt, name, total, n, seen, batch, before>>
          /\ image[name].data \in Seq(Data)
      BY <1>4 DEF Source, Roles, JobType, Image
    <2>2. /\ report' \in Reports
          /\ \/ pc' = "info" /\ crc' = image[name].data
             \/ pc' = "stop" /\ crc' = crc
      BY <1>4, Reported DEF Source, Goto, Results, JobType
    <2>3. JobType'
      BY <2>1, <2>2 DEF JobType, In, Reading
    <2> QED
      BY <1>3, <2>1, <2>2, <2>3 DEF Roles, Sourced, Filing, Exporting, Writing, Checking, In, Reading
  <1>5. CASE Info
    <2>1. /\ pc = "info" /\ UNCHANGED <<image, op, fmt, name, total, n, crc, seen, batch, before>>
          /\ \/ pc' = "read" /\ back' = "probe"
             \/ pc' = "stop"
      BY <1>5 DEF Info, ReadPage, Fails, Goto
    <2>2. report' \in Reports
      BY <1>5, Reported DEF Info, Results, JobType
    <2>3. JobType'
      BY <2>1, <2>2 DEF JobType
    <2> QED
      BY <1>3, <2>1, <2>3 DEF Roles, Sourced, Filing, Exporting, Writing, Checking, In, Reading
  <1>6. CASE Probe \/ Candidate
    <2>1. /\ pc \in {"probe", "candidate"}
          /\ UNCHANGED <<image, op, fmt, name, crc, seen, batch, before>>
          /\ \/ pc' = "stop" /\ UNCHANGED <<total, n>> /\ Fails("geometry")
             \/ \E t \in Sizes : Known(t)
             \/ /\ pc' = "read" /\ back' = "candidate" /\ n' \in Sizes
                /\ UNCHANGED <<total, report>>
      <3>1. CASE Probe
        BY <1>1, <3>1, DataFacts DEF Probe, Fails, Goto, ReadPage, ReadType, Tries
      <3>2. CASE Candidate
        <4>1. n \in Sizes
          BY <3>2 DEF Candidate, Sourced, In
        <4> QED
          BY <3>2, <4>1 DEF Candidate, Fails, Goto, ReadPage, Smaller
      <3> QED
        BY <1>6, <3>1, <3>2
    <2>2. CASE pc' = "stop" /\ UNCHANGED <<total, n>> /\ Fails("geometry")
      <3>1. report' \in Reports
        BY <2>2, Reported DEF Results
      <3>2. JobType'
        BY <2>1, <2>2, <3>1 DEF JobType
      <3> QED
        BY <1>3, <2>1, <2>2, <3>2 DEF Roles, Sourced, Filing, Exporting, Writing, Checking, In, Reading
    <2>3. ASSUME NEW t \in Sizes, Known(t)
          PROVE  TypeInv'
      <3>1. report' \in Reports
        BY <2>3, Reported DEF Known, JobType, Results
      <3>2. total' = t /\ t \in Nat \ {0} /\ n' = 0
            /\ (op = "restore" => pc' = "stop" \/ (pc' = "erase" /\ t = Len(crc)))
            /\ (op # "restore" => pc' = "create")
        BY <2>3, DataFacts DEF Known, Goto, Fails
      <3>3. JobType'
        BY <2>1, <3>1, <3>2 DEF JobType
      <3> QED
        BY <1>3, <2>1, <3>2, <3>3 DEF Roles, Sourced, Filing, Exporting, Writing, Checking, In, Reading, Ops
    <2>4. CASE pc' = "read" /\ back' = "candidate" /\ n' \in Sizes /\ UNCHANGED <<total, report>>
      <3>1. JobType'
        BY <2>1, <2>4, DataFacts DEF JobType
      <3> QED
        BY <1>3, <2>1, <2>4, <3>1 DEF Roles, Sourced, Filing, Exporting, Writing, Checking, In, Reading
    <2> QED
      BY <2>1, <2>2, <2>3, <2>4
  <1> QED
    BY <1>4, <1>5, <1>6

LEMMA SequenceFacts ==
  ASSUME NEW b \in Seq(Data), NEW d \in Data
  PROVE  /\ Append(b, d) \in Seq(Data) /\ Len(Append(b, d)) = Len(b) + 1
         /\ \A r \in 0..Len(b) : SubSeq(b, 1, r) \in Seq(Data)
         /\ \A r \in DOMAIN b : [b EXCEPT ![r] = d] \in Seq(Data)
         /\ Len(b) \in Nat /\ <<>> \in Seq(Data) /\ Len(<<>>) = 0
  <1>1. Append(b, d) \in Seq(Data) /\ Len(Append(b, d)) = Len(b) + 1
    OBVIOUS
  <1>2. \A r \in 0..Len(b) : SubSeq(b, 1, r) \in Seq(Data)
    OBVIOUS
  <1>3. ASSUME NEW r \in DOMAIN b
        PROVE  [b EXCEPT ![r] = d] \in Seq(Data)
    <2>1. [b EXCEPT ![r] = d] \in [1..Len(b) -> Data] /\ Len(b) \in Nat
      OBVIOUS
    <2> QED
      BY <2>1
  <1> QED
    BY <1>1, <1>2, <1>3

(* What is written into a file at its end or before it. *)
LEMMA Overwritten ==
  ASSUME NEW data \in Seq(Data), NEW k \in 0..Len(data), NEW part \in Seq(Data)
  PROVE  /\ Overwrite(data, k, part) \in Seq(Data)
         /\ Len(Overwrite(data, k, part)) >= k + Len(part)
  <1> DEFINE front == SubSeq(data, 1, k)
             rest == SubSeq(data, k + Len(part) + 1, Len(data))
  <1>1. front \in Seq(Data) /\ Len(front) = k
    OBVIOUS
  <1>2. Len(data) \in Nat /\ Len(part) \in Nat /\ k \in Nat
    OBVIOUS
  <1>3. rest \in Seq(Data)
    BY <1>2
  <1>4. Len(rest) \in Nat
    BY <1>3
  <1> HIDE DEF front, rest
  <1>5. (front \o part) \o rest \in Seq(Data)
        /\ Len((front \o part) \o rest) = k + Len(part) + Len(rest)
    BY <1>1, <1>2, <1>3
  <1>6. Overwrite(data, k, part) = (front \o part) \o rest
    BY DEF Overwrite, front, rest
  <1>7. k + Len(part) + Len(rest) >= k + Len(part)
    BY <1>2, <1>4
  <1> QED
    BY <1>5, <1>6, <1>7

(* A part of a batch in the file leaves an image, no shorter than before   *)
(* the batch and, when the part is all of it, than after.                  *)
LEMMA ImageWritten ==
  ASSUME JobType, name \in Paths, NEW b \in Seq(Data), NEW part \in Seq(Data),
         Len(b) <= n + 1, n + 1 - Len(b) <= Len(image[name].data)
  PROVE  /\ Written(b, part) \in [Paths -> Image] /\ Removed \in [Paths -> Image]
         /\ Len(part) = Len(b) => n + 1 <= Len(Written(b, part)[name].data)
  <1> DEFINE data == image[name].data
             k == n + 1 - Len(b)
             new == Overwrite(data, k, part)
  <1>1. data \in Seq(Data) /\ image \in [Paths -> Image] /\ n \in Nat
    BY DEF JobType, Image
  <1>2. Len(b) \in Nat /\ Len(data) \in Nat /\ Len(part) \in Nat
    BY <1>1
  <1>3. k \in 0..Len(data)
    BY <1>1, <1>2
  <1> HIDE DEF data, k
  <1>4. new \in Seq(Data) /\ Len(new) >= k + Len(part) /\ Len(new) \in Nat
    BY <1>1, <1>3, Overwritten
  <1>5. NoImage \in Image
    BY DEF NoImage, Image
  <1>6. Written(b, part) = [image EXCEPT ![name].data = new]
    BY DEF Written, data, k
  <1> HIDE DEF new
  <1>7. Written(b, part) \in [Paths -> Image] /\ Written(b, part)[name].data = new
    BY <1>1, <1>4, <1>6 DEF Image
  <1>8. Len(part) = Len(b) => n + 1 <= Len(new)
    BY <1>1, <1>2, <1>4 DEF k
  <1> QED
    BY <1>1, <1>5, <1>7, <1>8 DEF Removed

LEMMA RecordTyped ==
  ASSUME TypeInv, Record
  PROVE  /\ image' \in [Paths -> Image] /\ crc' \in Seq(Data) /\ batch' \in Seq(Data)
         /\ Len(batch') < WriteBatch /\ report' \in Reports
         /\ \/ /\ pc' = "capture" /\ n' = n + 1
               /\ Len(batch') <= n' /\ n' - Len(batch') <= Len(image'[name].data)
            \/ pc' = "stop" /\ n' = n /\ batch' = <<>>
  <1> DEFINE b == Append(batch, buf)
  <1>1. /\ buf \in Data /\ batch \in Seq(Data) /\ Len(batch) < WriteBatch /\ crc \in Seq(Data)
        /\ JobType /\ report \in Reports /\ image \in [Paths -> Image]
        /\ Damaged \in Data /\ n \in Nat
    BY DataFacts DEF TypeInv, ReadType, JobType
  <1>9. /\ name \in Paths /\ Len(batch) <= n /\ n - Len(batch) <= Len(image[name].data)
        /\ image[name].data \in Seq(Data)
    BY <1>1 DEF Record, TypeInv, Roles, Exporting, Filing, In, Image
  <1>2. b \in Seq(Data) /\ Len(b) = Len(batch) + 1 /\ Append(crc, buf) \in Seq(Data)
        /\ Len(batch) \in Nat /\ <<>> \in Seq(Data) /\ Len(<<>>) = 0
    BY <1>1, SequenceFacts
  <1>3. /\ \A r \in 0..(Len(b) - 1) : SubSeq(b, 1, r) \in Seq(Data)
        /\ \A r \in DOMAIN b : [b EXCEPT ![r] = Damaged] \in Seq(Data)
    BY <1>1, <1>2, SequenceFacts
  <1>10. \A r \in DOMAIN b : Len([b EXCEPT ![r] = Damaged]) = Len(b)
    BY <1>2
  <1>11. Len(b) \in Nat /\ Len(b) <= n + 1 /\ n + 1 - Len(b) <= Len(image[name].data)
         /\ Len(image[name].data) \in Nat
    <2>1. Len(image[name].data) \in Nat
      BY <1>9
    <2> QED
      BY <1>1, <1>2, <1>9, <2>1
  <1> HIDE DEF b
  <1>4. /\ Removed \in [Paths -> Image]
        /\ Written(b, b) \in [Paths -> Image] /\ n + 1 <= Len(Written(b, b)[name].data)
        /\ \A r \in DOMAIN b :
             /\ Written(b, [b EXCEPT ![r] = Damaged]) \in [Paths -> Image]
             /\ n + 1 <= Len(Written(b, [b EXCEPT ![r] = Damaged])[name].data)
        /\ WrittenInPart(b) \subseteq [Paths -> Image]
    <2>1. Removed \in [Paths -> Image] /\ Written(b, b) \in [Paths -> Image]
          /\ n + 1 <= Len(Written(b, b)[name].data)
      BY <1>1, <1>2, <1>9, <1>11, ImageWritten
    <2>2. ASSUME NEW r \in DOMAIN b
          PROVE  /\ Written(b, [b EXCEPT ![r] = Damaged]) \in [Paths -> Image]
                 /\ n + 1 <= Len(Written(b, [b EXCEPT ![r] = Damaged])[name].data)
      BY <1>1, <1>2, <1>3, <1>9, <1>10, <1>11, ImageWritten
    <2>3. ASSUME NEW r \in 0..(Len(b) - 1)
          PROVE  Written(b, SubSeq(b, 1, r)) \in [Paths -> Image]
      BY <1>1, <1>2, <1>3, <1>9, <1>11, ImageWritten
    <2> QED
      BY <2>1, <2>2, <2>3 DEF WrittenInPart
  <1>5. WriteBatch \in Nat \ {0}
    BY WriteBatchAssumption
  <1>6. CASE /\ rc = "io" /\ Abandon("read") /\ UNCHANGED crc
             /\ (image' = Removed \/ UNCHANGED image)
    BY <1>1, <1>2, <1>4, <1>5, <1>6, Reported DEF Abandon, Results
  <1>7. CASE /\ crc' = Append(crc, buf) /\ n' = n + 1 /\ Goto("capture") /\ UNCHANGED report
             /\ \/ ~Full(b) /\ batch' = b /\ UNCHANGED image
                \/ batch' = <<>> /\ image' = Written(b, b)
                \/ /\ batch' = <<>>
                   /\ \E r \in DOMAIN b : image' = Written(b, [b EXCEPT ![r] = Damaged])
    <2>1. image' \in [Paths -> Image]
      BY <1>1, <1>4, <1>7
    <2>3. Len(batch') <= n' /\ n' - Len(batch') <= Len(image'[name].data)
      <3>1. CASE batch' = b /\ image' = image
        BY <1>1, <1>7, <1>11, <3>1
      <3>2. CASE batch' = <<>> /\ n + 1 <= Len(image'[name].data)
        BY <1>1, <1>2, <1>7, <3>2
      <3> QED
        BY <1>4, <1>7, <3>1, <3>2
    <2>2. batch' \in Seq(Data) /\ Len(batch') < WriteBatch
      <3>1. CASE batch' = <<>>
        BY <1>2, <1>5, <3>1
      <3>2. CASE ~Full(b) /\ batch' = b
        BY <1>1, <1>2, <1>5, <3>2 DEF Full
      <3> QED
        BY <1>7, <3>1, <3>2
    <2> QED
      BY <1>1, <1>2, <1>7, <2>1, <2>2, <2>3 DEF Goto
  <1>8. CASE /\ crc' = Append(crc, buf) /\ Abandon("usb")
             /\ image' \in {Removed} \cup WrittenInPart(b)
    <2>1. image' \in [Paths -> Image]
      BY <1>4, <1>8
    <2>2. batch' = <<>> /\ UNCHANGED n /\ Fails("usb")
      BY <1>8 DEF Abandon
    <2>3. pc' = "stop" /\ report' \in Reports
      BY <2>2, Reported DEF Results
    <2> QED
      BY <1>1, <1>2, <1>5, <1>8, <2>1, <2>2, <2>3
  <1> QED
    BY <1>6, <1>7, <1>8 DEF Record, NoFault, b

(* Formatting, erasing and programming keep the capacity of a card. *)
LEMMA FormattedTyped ==
  ASSUME NEW c \in Cards
  PROVE  /\ Formatted(c) \in Cards /\ DOMAIN Formatted(c) = DOMAIN c
         /\ \A d \in Data, p \in Nat :
              [c EXCEPT ![p] = d] \in Cards /\ DOMAIN [c EXCEPT ![p] = d] = DOMAIN c
  <1>1. PICK k \in Sizes : c \in [0..(k - 1) -> Data] /\ DOMAIN c = 0..(k - 1)
    BY CardFacts
  <1>2. k \in Nat \ {0} /\ k \in Data /\ Erased \in Data
    BY DataFacts
  <1>3. Cardinality(0..(k - 1)) = k
    <2>1. Cardinality(0..(k - 1)) = IF 0 > k - 1 THEN 0 ELSE (k - 1) - 0 + 1
      BY <1>2, FS_Interval
    <2> QED
      BY <1>2, <2>1
  <1>4. Formatted(c) \in [0..(k - 1) -> Data]
    BY <1>1, <1>2, <1>3 DEF Formatted
  <1> QED
    BY <1>1, <1>2, <1>4 DEF Cards

LEMMA ExportTyped ==
  ASSUME TypeInv, Create \/ Capture \/ Record \/ Close \/ Compare \/ Format
  PROVE  TypeInv'
  <1> USE DEF TypeInv
  <1>1. CASE Create
    <2>1. /\ pc = "create" /\ op \in {"export", "format"}
          /\ UNCHANGED <<card, async, bulk, read, op, fmt, total, n, crc, seen, batch, before>>
          /\ \/ pc' = "capture" /\ name' \in Paths /\ name'[1] = fmt
                /\ image' = [image EXCEPT ![name'].exists = TRUE] /\ report' = report
             \/ pc' = "stop" /\ UNCHANGED <<name, image>> /\ Fails("usb")
      BY <1>1 DEF Create, Roles, Quiet, Goto, Numbered, Fails
    <2>2. faults' = faults \/ faults' = faults + 1
      BY <1>1, Zenon DEF Create, Free, Fault, NoFault
    <2>3. ReadType' /\ Owned'
      <3>1. Engined
        BY <2>1 DEF Engined, Pcs, read, Fails, Goto
      <3> QED
        BY <2>1, <2>2, <3>1, EngineReads DEF ReadType
    <2>4. image' \in [Paths -> Image] /\ report' \in Reports
      BY <2>1, Reported DEF JobType, Image, Results
    <2>5. JobType'
      BY <2>1, <2>4 DEF JobType
    <2>6. Roles' /\ Sourced' /\ Filing'
      <3>1. CASE pc' = "stop"
        BY <2>1, <2>5, <3>1
           DEF Roles, Sourced, Filing, Exporting, Writing, Checking, In, Reading
      <3>2. CASE pc' = "capture"
        <4>1. name' \in Paths /\ image' \in [Paths -> Image]
          BY <2>1, <2>4, <3>2 DEF Fails, Goto
        <4>2. image'[name'].data \in Seq(Data)
          BY <4>1 DEF Image
        <4>3. Len(image'[name'].data) \in Nat
          BY <4>2
        <4>4. n = 0 /\ batch = <<>>
          BY <2>1, <3>2 DEF Filing, Create, In, Reading
        <4>5. Filing'
          BY <2>1, <3>2, <4>3, <4>4 DEF Filing, In, Reading
        <4> QED
          BY <2>1, <2>5, <3>2, <4>5
             DEF Roles, Sourced, Exporting, Writing, Checking, In, Reading
      <3> QED
        BY <2>1, <3>1, <3>2 DEF Fails, Goto
    <2> QED
      BY <2>3, <2>5, <2>6
  <1>2. CASE Capture
    <2>1. /\ pc = "capture" /\ UNCHANGED <<card, async, bulk, image, job, before, buf, rc, faults>>
          /\ \/ pc' = "read" /\ back' = "record" /\ want' = n
             \/ pc' = "close" /\ UNCHANGED <<back, want>>
      BY <1>2 DEF Capture, ReadPage, Goto, NoFault, read
    <2>2. ReadType' /\ Owned'
      <3>1. Engined
        BY <2>1 DEF Engined, Pcs, Backs, JobType
      <3> QED
        BY <2>1, <3>1, EngineReads DEF ReadType
    <2>3. JobType'
      BY <2>1 DEF JobType, job
    <2> QED
      BY <2>1, <2>2, <2>3 DEF Roles, Sourced, Filing, Exporting, Writing, Checking, In, Reading, job
  <1>3. CASE Record
    <2>1. /\ image' \in [Paths -> Image] /\ crc' \in Seq(Data) /\ batch' \in Seq(Data)
          /\ Len(batch') < WriteBatch /\ report' \in Reports
          /\ \/ /\ pc' = "capture" /\ n' = n + 1
                /\ Len(batch') <= n' /\ n' - Len(batch') <= Len(image'[name].data)
             \/ pc' = "stop" /\ n' = n /\ batch' = <<>>
      BY <1>3, RecordTyped
    <2>2. /\ pc = "record" /\ UNCHANGED <<card, async, bulk, read, op, fmt, name, total, seen, before>>
      BY <1>3 DEF Record, Quiet
    <2>3. faults' = faults \/ faults' = faults + 1
      BY <1>3, Zenon DEF Record, Fault, NoFault
    <2>4. ReadType' /\ Owned'
      <3>1. Engined
        BY <2>1, <2>2 DEF Engined, Pcs, read
      <3> QED
        BY <2>2, <2>3, <3>1, EngineReads DEF ReadType
    <2>5. JobType'
      BY <2>1, <2>2 DEF JobType
    <2> QED
      BY <2>1, <2>2, <2>4, <2>5 DEF Roles, Sourced, Filing, Exporting, Writing, Checking, In, Reading
  <1>4. CASE Close
    <2>1. /\ pc = "close" /\ batch' = <<>>
          /\ UNCHANGED <<card, async, bulk, read, image, op, fmt, name, total, n, crc, seen, before>>
          /\ \/ pc' = "compare" /\ report' = report
             \/ pc' = "stop" /\ Fails("usb")
      BY <1>4 DEF Close, Quiet, Goto, Fails
    <2>2. faults' = faults \/ faults' = faults + 1
      BY <1>4, Zenon DEF Close, Fault, NoFault
    <2>3. ReadType' /\ Owned'
      <3>1. Engined
        BY <2>1 DEF Engined, Pcs, read
      <3> QED
        BY <2>1, <2>2, <3>1, EngineReads DEF ReadType
    <2>4. report' \in Reports /\ batch' \in Seq(Data) /\ Len(batch') < WriteBatch
      BY <2>1, Reported, WriteBatchAssumption DEF JobType, Results
    <2>5. JobType'
      BY <2>1, <2>4 DEF JobType
    <2> QED
      BY <2>1, <2>3, <2>5 DEF Roles, Sourced, Filing, Exporting, Writing, Checking, In, Reading
  <1>5. CASE Compare
    <2>1. /\ pc = "compare"
          /\ UNCHANGED <<card, async, bulk, read, image, op, fmt, name, total, n, crc, seen, batch, before>>
          /\ \/ pc' = (IF op = "format" THEN "format" ELSE "stop") /\ Report("ok")
             \/ pc' = "stop" /\ Fails("verify")
      BY <1>5 DEF Compare, Quiet, Goto, Fails
    <2>2. faults' = faults \/ faults' = faults + 1
      BY <1>5, Zenon DEF Compare, Fault, NoFault
    <2>3. ReadType' /\ Owned'
      <3>1. Engined
        BY <2>1 DEF Engined, Pcs, read
      <3> QED
        BY <2>1, <2>2, <3>1, EngineReads DEF ReadType
    <2>4. report' \in Reports
      BY <2>1, Reported DEF Results
    <2>5. JobType'
      BY <2>1, <2>4 DEF JobType
    <2> QED
      BY <2>1, <2>3, <2>5 DEF Roles, Sourced, Filing, Exporting, Writing, Checking, In, Reading
  <1>6. CASE Format
    <2>1. /\ pc = "format" /\ pc' = "stop"
          /\ UNCHANGED <<async, bulk, read, image, op, fmt, name, total, n, crc, seen, batch, before>>
          /\ Report("ok") \/ report' = [report EXCEPT !.result = "format"]
          /\ card' \in {Formatted(card), card, [card EXCEPT ![0] = Erased]}
      BY <1>6 DEF Format, Quiet, Goto
    <2>2. faults' = faults \/ faults' = faults + 1
      BY <1>6, Zenon DEF Format, Fault, NoFault
    <2>3. card' \in Cards
      BY <2>1, FormattedTyped, DataFacts DEF ReadType
    <2>4. ReadType' /\ Owned'
      <3>1. Engined
        BY <2>1 DEF Engined, Pcs, read
      <3> QED
        BY <2>2, <2>3, <3>1, EngineReads
    <2>5. report' \in Reports
      BY <2>1, Reported DEF JobType, Reports, Results
    <2>6. JobType'
      BY <2>1, <2>5 DEF JobType
    <2> QED
      BY <2>1, <2>4, <2>6 DEF Roles, Sourced, Filing, Exporting, Writing, Checking, In, Reading
  <1> QED
    BY <1>1, <1>2, <1>3, <1>4, <1>5, <1>6

LEMMA ClearedTyped ==
  ASSUME card \in Cards, NEW pages
  PROVE  Cleared(pages) \in Cards /\ DOMAIN Cleared(pages) = DOMAIN card
  <1>1. PICK k \in Sizes : card \in [0..(k - 1) -> Data] /\ DOMAIN card = 0..(k - 1)
    BY CardFacts
  <1>2. Cleared(pages) \in [0..(k - 1) -> Data]
    BY <1>1, DataFacts DEF Cleared
  <1> QED
    BY <1>1, <1>2 DEF Cards

LEMMA RestoreTyped ==
  ASSUME TypeInv, Erase \/ Program \/ Readback \/ Check
  PROVE  TypeInv'
  <1> USE DEF TypeInv
  <1>1. CASE Erase
    <2>1. /\ pc = "erase"
          /\ UNCHANGED <<async, bulk, read, image, op, fmt, name, total, crc, seen, batch, before>>
          /\ card' \in {card, Cleared(Block(n))}
          /\ \/ n = total /\ n' = 0 /\ pc' = "readback" /\ report' = report
             \/ n < total /\ n' = n /\ pc' = "program" /\ report' = report
             \/ n' = n /\ Fails("write")
      BY <1>1 DEF Erase, Quiet, Goto, Fails
    <2>2. faults' = faults \/ faults' = faults + 1
      BY <1>1, Zenon DEF Erase, Fault, NoFault
    <2>3. ReadType' /\ Owned'
      <3>1. Engined
        BY <2>1 DEF Engined, Pcs, read, Fails, Goto
      <3>2. card' \in Cards
        BY <2>1, ClearedTyped DEF ReadType
      <3> QED
        BY <2>2, <3>1, <3>2, EngineReads
    <2>4. report' \in Reports /\ (Fails("write") => pc' = "stop")
      BY <2>1, Reported DEF JobType, Results
    <2>5. JobType'
      BY <2>1, <2>4 DEF JobType
    <2> QED
      BY <2>1, <2>3, <2>4, <2>5, DataFacts
         DEF Roles, Sourced, Filing, Exporting, Writing, Checking, In, Reading, JobType
  <1>2. CASE Program
    <2>1. /\ pc = "program" /\ n \in DOMAIN card
          /\ UNCHANGED <<async, bulk, read, image, op, fmt, name, total, crc, seen, batch, before>>
          /\ \/ card' = card
             \/ card' = [card EXCEPT ![n] = Damaged]
             \/ card' = [card EXCEPT ![n] = image[name].data[n + 1]]
          /\ \/ n' = n + 1 /\ pc' = "erase" /\ report' = report
             \/ n' = n /\ \E r \in {"verify", "usb", "write"} : Fails(r)
      BY <1>2 DEF Program, Quiet, Goto, Fails
    <2>2. faults' = faults \/ faults' = faults + 1
      BY <1>2, Zenon DEF Program, Fault, NoFault
    <2>3. op = "restore" /\ crc = image[name].data /\ total = Len(crc) /\ n < total
          /\ total \in Nat /\ n \in Nat /\ crc \in Seq(Data)
      BY <2>1, DataFacts DEF Roles, Sourced, Filing, Writing, JobType
    <2>4. ReadType' /\ Owned'
      <3>1. Engined
        BY <2>1 DEF Engined, Pcs, read, Fails, Goto
      <3>2. image[name].data[n + 1] \in Data
        <4>1. n + 1 \in 1..Len(crc)
          BY <2>3
        <4>2. crc[n + 1] \in Data
          BY <2>3, <4>1
        <4> QED
          BY <2>3, <4>2
      <3>3. card' \in Cards
        <4> DEFINE d == image[name].data[n + 1]
        <4>1. card \in Cards /\ Damaged \in Data /\ d \in Data /\ n \in Nat
          BY <2>3, <3>2, DataFacts DEF ReadType
        <4> HIDE DEF d
        <4>2. [card EXCEPT ![n] = Damaged] \in Cards /\ [card EXCEPT ![n] = d] \in Cards
          BY <4>1, FormattedTyped
        <4> QED
          BY <2>1, <4>1, <4>2 DEF d
      <3> QED
        BY <2>2, <3>1, <3>3, EngineReads
    <2>5. report' \in Reports /\ (pc' = "stop" \/ (n' = n + 1 /\ pc' = "erase"))
      BY <2>1, Reported DEF JobType, Results
    <2>6. JobType'
      BY <2>1, <2>5 DEF JobType
    <2> QED
      BY <2>1, <2>3, <2>4, <2>5, <2>6
         DEF Roles, Sourced, Filing, Exporting, Writing, Checking, In, Reading
  <1>3. CASE Readback
    <2>1. /\ pc = "readback"
          /\ UNCHANGED <<card, async, bulk, buf, rc, image, op, fmt, name, total, n, crc, seen, batch, before, faults>>
          /\ \/ n < total /\ pc' = "read" /\ back' = "check" /\ want' = n /\ report' = report
             \/ UNCHANGED <<back, want>> /\ \E r \in {"ok", "verify"} : Fails(r)
      BY <1>3 DEF Readback, ReadPage, Goto, NoFault, read
    <2>2. ReadType' /\ Owned'
      <3>1. Engined
        BY <2>1 DEF Engined, Pcs, Backs, JobType, Fails, Goto
      <3> QED
        BY <2>1, <3>1, EngineReads DEF ReadType
    <2>3. report' \in Reports /\ (pc' = "stop" \/ (n < total /\ pc' = "read" /\ back' = "check"))
      BY <2>1, Reported DEF JobType, Results
    <2>4. JobType'
      BY <2>1, <2>3 DEF JobType
    <2> QED
      BY <2>1, <2>2, <2>3, <2>4 DEF Roles, Sourced, Filing, Exporting, Writing, Checking, In, Reading
  <1>4. CASE Check
    <2>1. /\ pc = "check"
          /\ UNCHANGED <<card, async, bulk, read, image, op, fmt, name, total, crc, batch, before, faults>>
          /\ \/ Fails("verify") /\ UNCHANGED <<n, seen>>
             \/ seen' = Append(seen, buf) /\ n' = n + 1 /\ pc' = "readback" /\ report' = report
      BY <1>4 DEF Check, Quiet, Goto, NoFault
    <2>2. n < total /\ op = "restore" /\ total \in Nat /\ n \in Nat /\ total = Len(crc)
      BY <2>1, DataFacts DEF Roles, Sourced, Filing, Checking, In, JobType
    <2>3. ReadType' /\ Owned'
      <3>1. Engined
        BY <2>1 DEF Engined, Pcs, read, Fails, Goto
      <3> QED
        BY <2>1, <3>1, EngineReads DEF ReadType
    <2>4. report' \in Reports /\ (pc' = "stop" \/ (pc' = "readback" /\ n' = n + 1))
      BY <2>1, Reported DEF JobType, Results
    <2>5. seen' \in Seq(Data) /\ n' \in Nat
      <3>1. seen \in Seq(Data) /\ buf \in Data
        BY DEF JobType, ReadType
      <3>2. Append(seen, buf) \in Seq(Data)
        BY <3>1, SequenceFacts
      <3>3. seen' \in {seen, Append(seen, buf)} /\ n' \in {n, n + 1}
        BY <2>1
      <3> QED
        BY <2>2, <3>1, <3>2, <3>3
    <2>6. JobType'
      BY <2>1, <2>4, <2>5 DEF JobType
    <2> QED
      BY <2>1, <2>2, <2>3, <2>4, <2>6
         DEF Roles, Sourced, Filing, Exporting, Writing, Checking, In, Reading
  <1> QED
    BY <1>1, <1>2, <1>3, <1>4

LEMMA StartTyped ==
  ASSUME TypeInv, Start
  PROVE  TypeInv'
  <1> USE DEF TypeInv
  <1>1. /\ pc = "idle" /\ op' \in Ops
        /\ fmt' \in Formats /\ (op' = "format" => fmt' = "vmc")
        /\ name' \in Paths \cup {NoPath} /\ (op' = "restore" => name' \in Paths)
        /\ pc' \in {"source", "info", "stop"} /\ (pc' = "source" <=> op' = "restore" /\ pc' # "stop")
        /\ report' = NoReport /\ before' = World(card, image)
        /\ cache' = NoCache /\ cur' = -1 /\ limit' = 0 /\ last' = NoPage /\ flight' = NoFlight
        /\ UNCHANGED <<total, n, crc, seen, batch, card, async, read, image>>
    <2>1. /\ fmt' \in Formats /\ (op' = "format" => fmt' = "vmc")
          /\ name' \in Paths \cup {NoPath} /\ (op' = "restore" => name' \in Paths)
      BY DEF Start, Formats
    <2> QED
      BY <2>1 DEF Start, Ops, Goto, Reset
  <1>2. bound' = TRUE \/ bound' = FALSE
    BY Zenon DEF Start
  <1>3. faults' = faults \/ faults' = faults + 1
    BY Zenon DEF Start, Fault, NoFault
  <1>4. bound' \in BOOLEAN
    BY <1>2, Zenon
  <1>5. faults' \in Nat
    BY <1>3 DEF ReadType
  <1>6. ReadType' /\ Owned'
    BY <1>1, <1>4, <1>5, BatchesFacts, NoFlightFacts DEF ReadType, Owned, read, Pcs
  <1>7. before' \in [card : Cards, image : [Paths -> Image], faults : Nat]
    BY <1>1 DEF World, ReadType, JobType
  <1>8. JobType'
    BY <1>1, <1>7, Reported DEF JobType, Results
  <1> QED
    BY <1>1, <1>6, <1>8
       DEF Roles, Sourced, Filing, Exporting, Writing, Checking, In, Reading, ReadType

LEMMA OutsideTyped ==
  ASSUME TypeInv, Stop \/ PowerCut \/ SwapCard
  PROVE  TypeInv'
  <1> USE DEF TypeInv
  <1>1. CASE Leave /\ (faults' = faults \/ faults' = faults + 1)
    <2>1. ReadType' /\ Owned'
      <3>1. /\ pc' = "idle" /\ bound' = FALSE /\ cache' = NoCache /\ cur' = -1 /\ limit' = 0
            /\ last' = NoPage /\ flight' = NoFlight /\ want' = 0 /\ back' = "idle"
            /\ buf' = Erased /\ rc' = "ok" /\ UNCHANGED <<card, async>>
        BY <1>1 DEF Leave, Goto, Reset, ResetReads
      <3>2. bound' \in BOOLEAN
        BY <3>1, Zenon
      <3>3. faults' \in Nat
        BY <1>1 DEF ReadType
      <3> QED
        BY <3>1, <3>2, <3>3, BatchesFacts, NoFlightFacts, DataFacts DEF ReadType, Owned, Pcs
    <2>2. before' \in [card : Cards, image : [Paths -> Image], faults : Nat]
      BY <1>1 DEF Leave, World, ReadType, JobType
    <2>3. JobType'
      BY <1>1, <2>2, Reported, WriteBatchAssumption DEF Leave, JobType, Results, Formats
    <2> QED
      BY <1>1, <2>1, <2>3
         DEF Leave, Goto, ResetReads, Roles, Sourced, Filing, Exporting, Writing, Checking, In, Reading
  <1>2. CASE SwapCard
    <2>1. /\ card' \in Cards
          /\ UNCHANGED <<async, bulk, pc, read, image, job, faults>>
          /\ before' \in {World(card', image), before}
      BY <1>2, InitialCardsAssumption DEF SwapCard, NoFault, Cards
    <2>2. ReadType' /\ Owned'
      BY <2>1 DEF ReadType, Owned, bulk, read, Underway
    <2>3. before' \in [card : Cards, image : [Paths -> Image], faults : Nat]
      BY <2>1 DEF World, ReadType, JobType
    <2>4. JobType'
      BY <2>1, <2>3 DEF JobType, job
    <2> QED
      BY <2>1, <2>2, <2>4
         DEF Roles, Sourced, Filing, Exporting, Writing, Checking, In, Reading, job, read
  <1>3. Stop \/ PowerCut => Leave /\ (faults' = faults \/ faults' = faults + 1)
    BY Zenon DEF Stop, PowerCut, Fault, NoFault
  <1> QED
    BY <1>1, <1>2, <1>3

LEMMA InitTyped == Init => TypeInv
  <1> SUFFICES ASSUME Init PROVE TypeInv
    OBVIOUS
  <1>1. card \in Cards /\ image \in [Paths -> Image]
    BY InitialCardsAssumption, InitialImagesAssumption DEF Init, Cards
  <1>2. ReadType /\ Owned
    BY <1>1, BatchesFacts, NoFlightFacts, DataFacts DEF Init, ReadType, Owned, Pcs
  <1>3. JobType
    BY <1>1, Reported, WriteBatchAssumption DEF Init, JobType, World, Results, Formats
  <1> QED
    BY <1>2, <1>3
       DEF Init, TypeInv, Roles, Sourced, Filing, Exporting, Writing, Checking, In, Reading

LEMMA StepTyped == TypeInv /\ [Next]_vars => TypeInv'
  <1> SUFFICES ASSUME TypeInv, [Next]_vars PROVE TypeInv'
    OBVIOUS
  <1>1. CASE Next
    BY <1>1, ReadCardTyped, ProbesTyped, ExportTyped, RestoreTyped, StartTyped, OutsideTyped
       DEF Next, Engine
  <1>2. CASE UNCHANGED vars
    BY <1>2 DEF vars, bulk, read, job, TypeInv, ReadType, Underway, JobType, Owned, Roles, Sourced, Filing,
                Exporting, Writing, Checking, In, Reading
  <1> QED
    BY <1>1, <1>2

(* The count of faults never goes back. *)
LEMMA FaultsGrow ==
  ASSUME ReadType, Next
  PROVE  faults' >= faults
  <1>1. faults \in Nat
    BY DEF ReadType
  <1> DEFINE Grows == faults' = faults \/ faults' = faults + 1
  <1>2. ASSUME NEW p, NEW cch, NEW s, NEW fl, Serve(p, cch, s, fl) PROVE Grows
    BY <1>2, Zenon DEF Serve, Fault, NoFault
  <1>3. ReadCard => Grows
    BY <1>2, Zenon DEF ReadCard, ReadNext, ReadHit, ReadWait, ReadFill, ReadUnbatched, ReadDirect,
                       Fault, NoFault
  <1>4. IopStep \/ Start \/ Stop \/ PowerCut \/ SwapCard => Grows
    BY Zenon DEF IopStep, IopBulk, Start, Stop, PowerCut, SwapCard, Fault, NoFault
  <1>5. Source \/ Info \/ Probe \/ Candidate => Grows
    BY Zenon DEF Source, Info, Probe, Candidate, Fault, NoFault
  <1>6. Create \/ Capture \/ Record \/ Close \/ Compare \/ Format => Grows
    BY Zenon DEF Create, Free, Capture, Record, Close, Compare, Format, Fault, NoFault
  <1>7. Erase \/ Program \/ Readback \/ Check => Grows
    BY Zenon DEF Erase, Program, Readback, Check, Fault, NoFault
  <1>8. Grows
    BY <1>3, <1>4, <1>5, <1>6, <1>7, Zenon DEF Next, Engine
  <1> QED
    BY <1>1, <1>8

LEMMA TypeInvariance == Spec => []TypeInv
  BY InitTyped, StepTyped, PTL DEF Spec

(* TypeOK: every variable has its type, the buffers hold pages of one batch *)
(* each, and the page read returns to a step of the engine.                 *)
THEOREM CardImageTypeCorrect == Spec => []TypeOK
  <1>1. TypeInv => TypeOK
    <2> SUFFICES ASSUME TypeInv PROVE TypeOK
      OBVIOUS
    <2>1. ASSUME NEW c \in Batches PROVE BatchType(c)
      BY <2>1, BatchesFacts, BatchOfPage, PageOfBatch DEF BatchType
    <2>2. CardType
      BY DEF TypeInv, ReadType, CardType, Cards
    <2>3. DOMAIN cache = {0, 1} /\ \A s \in {0, 1} : BatchType(cache[s])
      BY <2>1 DEF TypeInv, ReadType
    <2>4. flight.state \in {"none", "issued", "done"} /\ BatchType(flight.got)
      BY <2>1 DEF TypeInv, ReadType, Flights
    <2>5. \A m \in Paths : image[m].data \in Seq(Data)
      BY DEF TypeInv, JobType, Image
    <2>6. back \in {"idle", "probe", "candidate", "record", "check"}
      BY DEF TypeInv, ReadType, Backs
    <2> QED
      BY <2>2, <2>3, <2>4, <2>5, <2>6 DEF TypeInv, ReadType, JobType, TypeOK
  <1> QED
    BY <1>1, TypeInvariance, PTL

(* PrefetchOwnsItsBuffer: the IOP never writes a batch into the buffer      *)
(* pages are served from, and no request outlives the raw session; also     *)
(* when the card is exchanged in mid-session.                               *)
THEOREM PrefetchSeparate == Spec => []PrefetchOwnsItsBuffer
  <1>1. TypeInv => PrefetchOwnsItsBuffer
    BY DEF TypeInv, Owned, PrefetchOwnsItsBuffer
  <1> QED
    BY <1>1, TypeInvariance, PTL

-----------------------------------------------------------------------------
(* The session: what the buffers hold, and what is kept *)

LEMMA EmptyHeld ==
  ASSUME cache = NoCache, flight = NoFlight
  PROVE  \A c \in Held : c = Nothing
  BY NoFlightFacts DEF Held, NoCache

(* A served page is the page of the card the session began with. *)
LEMMA ServedPage ==
  ASSUME TypeInv, SessionInv, PageRead, pc' = back, rc' = "ok", back # "check"
  PROVE  want \in DOMAIN card /\ buf' = card[want] /\ buf' = before.card[want]
  <1>1. pc # "idle" /\ ~Final
    BY DEF PageRead, Final, Checking, In, Reading, Backs
  <1>2. card = before.card
    BY <1>1 DEF SessionInv, Kept, CardWritten, PageRead, Writing, Final
  <1>3. ASSUME NEW c \in Held, want \in DOMAIN c
        PROVE  want \in DOMAIN card /\ c[want] = before.card[want]
    BY <1>1, <1>3 DEF SessionInv, Buffers, FreshIn
  <1>4. \/ want \in DOMAIN card /\ buf' = card[want]
        \/ \E c \in Held : want \in DOMAIN c /\ buf' = c[want]
    <2>1. pc' \notin {"read", "direct"}
      BY DEF PageRead, Backs
    <2> QED
      BY <2>1 DEF PageRead
  <1> QED
    BY <1>2, <1>3, <1>4

(* A failure of this session stays one. *)
LEMMA FailingStays ==
  ASSUME TypeInv, SessionInv, Next, before' = before
  PROVE  faults' >= before'.faults /\ (Failing => Failing')
  <1>1. faults \in Nat /\ before.faults \in Nat /\ faults' \in Nat
    BY StepTyped DEF TypeInv, ReadType, JobType
  <1>2. faults' >= faults /\ faults >= before.faults
    BY FaultsGrow DEF TypeInv, SessionInv, Kept
  <1> QED
    BY <1>1, <1>2 DEF Failing

LEMMA SessionRead ==
  ASSUME TypeInv, SessionInv, ReadCard
  PROVE  SessionInv'
  <1>1. PageRead /\ ReadType' /\ UNCHANGED <<image, op, fmt, name, total, n, before>>
    BY ReadEffect DEF ReadCard, TypeInv, job
  <1>2. /\ pc \in {"read", "direct"} /\ back \in Backs /\ UNCHANGED <<card, back, want>>
        /\ \/ pc' \in {"read", "direct"} /\ limit' = limit /\ rc' = rc
           \/ pc' = back /\ rc' = "io" /\ limit' = limit
           \/ pc' = back /\ rc' = "ok"
              /\ (limit' = limit \/ (want = 0 /\ limit = 0 /\ limit' = SuperblockPages(buf')))
        /\ flight' # NoFlight => flight # NoFlight \/ (limit' # 0 /\ last = want - 1)
        /\ pc' \in {"read", "direct"} \cup Backs
    BY <1>1 DEF PageRead
  <1>3. \A b \in Backs : In(b)' <=> In(b)
    BY <1>2 DEF In, Reading, Backs
  <1>4. In("probe") /\ Superblock = 0 => limit' = 0
    <2>1. SUFFICES ASSUME In("probe"), Superblock = 0 PROVE limit' = 0
      OBVIOUS
    <2>2. want = 0 /\ limit = 0 /\ back = "probe"
      BY <1>2, <2>1 DEF SessionInv, Home, Probing, In, Reading, Backs
    <2>3. CASE pc' = back /\ rc' = "ok"
      <3>1. buf' = before.card[0]
        BY <1>1, <2>2, <2>3, ServedPage
      <3> QED
        BY <1>2, <2>1, <2>2, <3>1 DEF Superblock
    <2> QED
      BY <1>2, <2>2, <2>3
  <1>5. In("candidate") => Superblock = 0 /\ limit' = 0
    <2>1. SUFFICES ASSUME In("candidate") PROVE Superblock = 0 /\ limit' = 0
      OBVIOUS
    <2>2. Superblock = 0 /\ limit = 0 /\ back = "candidate"
      BY <1>2, <2>1 DEF SessionInv, Probing, In, Reading, Backs
    <2>3. CASE pc' = back /\ rc' = "ok" /\ want = 0
      <3>1. buf' = before.card[0]
        BY <1>1, <2>2, <2>3, ServedPage
      <3> QED
        BY <1>2, <2>2, <3>1 DEF Superblock
    <2> QED
      BY <1>2, <2>2, <2>3
  <1>6. In("probe") \/ In("candidate") => flight' = NoFlight
    <2>1. In("probe") => last = NoPage /\ want = 0 /\ flight = NoFlight
      BY <1>2 DEF SessionInv, Home, Probing, In, Reading, Backs
    <2>2. In("candidate") => flight = NoFlight /\ limit' = 0
      BY <1>5 DEF SessionInv, Home
    <2> QED
      BY <1>2, <2>1, <2>2 DEF NoPage
  <1>7. Home'
    <2>1. Reading("probe")' => cache' = NoCache /\ cur' = -1 /\ limit' = 0 /\ last' = NoPage
      <3>1. SUFFICES ASSUME Reading("probe")'
                     PROVE  cache' = NoCache /\ cur' = -1 /\ limit' = 0 /\ last' = NoPage
        OBVIOUS
      <3>2. pc' \in {"read", "direct"} /\ cache = NoCache /\ cur = -1 /\ limit = 0 /\ last = NoPage
            /\ flight = NoFlight
        BY <1>2, <3>1 DEF SessionInv, Home, In, Reading
      <3>3. /\ cur' = cur /\ last' \in {last, NoPage} /\ limit' = limit
            /\ cache' = cache \/ \E i \in {0, 1} : cache' = [cache EXCEPT ![i] = Nothing]
        BY <1>1, <3>2 DEF PageRead, Backs
      <3>4. cache' = NoCache
        BY <3>2, <3>3 DEF NoCache
      <3> QED
        BY <3>2, <3>3, <3>4
    <2>2. In("probe")' \/ In("candidate")' => total' = 0 /\ flight' = NoFlight
      BY <1>1, <1>3, <1>6 DEF SessionInv, Home, Backs
    <2> QED
      BY <1>2, <2>1, <2>2 DEF Home, Backs
  <1>8. Kept'
    <2>1. CardWritten => CardWritten'
      BY <1>1, <1>2, <1>3 DEF CardWritten, Writing, Checking, Backs
    <2>2. Exporting' <=> Exporting
      BY <1>2, <1>3 DEF Exporting, Backs
    <2>3. faults' >= before'.faults /\ (Failing => Failing')
      BY <1>1, FailingStays DEF Next, Engine
    <2>4. \A m : Mistaken(m) => Mistaken(m)'
      BY <1>1, <1>2, <2>2, <2>3 DEF Mistaken, Backs
    <2> QED
      BY <1>1, <1>2, <2>1, <2>2, <2>3, <2>4 DEF SessionInv, Kept, Backs
  <1>9. Probing'
    <2>1. Reading("probe")' => want' = 0
      BY <1>2 DEF SessionInv, Probing, Reading
    <2>2. Reading("candidate")' => want' = n' - 1
      BY <1>1, <1>2 DEF SessionInv, Probing, Reading
    <2>3. pc' = "probe" => (Superblock' = 0 => limit' = 0)
      BY <1>1, <1>3, <1>4 DEF Superblock, In, Backs
    <2>4. pc' = "probe" /\ rc' = "ok" => buf' = before'.card[0]
      BY <1>1, <1>2, ServedPage DEF SessionInv, Probing, Reading
    <2>5. In("candidate")' => Superblock' = 0 /\ limit' = 0
      BY <1>1, <1>3, <1>5 DEF Superblock, Backs
    <2>6. total' # 0 => Superblock' \in {0, total'}
      BY <1>1 DEF SessionInv, Probing, Superblock
    <2> QED
      BY <1>2, <2>1, <2>2, <2>3, <2>4, <2>5, <2>6 DEF Probing, Writing, Backs
  <1>10. ASSUME NEW c \in Held'
         PROVE  \/ c \in Held \cup {Nothing}
                \/ /\ pc' = back /\ rc' = "ok"
                   /\ FromCard(c) /\ DOMAIN c = BatchRange(BatchStart(want))
    BY <1>1 DEF PageRead
  <1>11. Left'
    <2>1. SUFFICES ASSUME NEW c \in Held' PROVE LeftIn(c)'
      BY DEF Left
    <2>2. CASE c = Nothing
      BY <2>2 DEF LeftIn, Nothing
    <2>3. CASE c \in Held
      <3>1. LeftIn(c)
        BY <2>3 DEF SessionInv, Left
      <3>2. pc # "candidate"
        BY <1>2
      <3> QED
        BY <1>1, <1>2, <1>3, <3>1, <3>2 DEF LeftIn, Writing, Checking, Probed, Backs
    <2>4. CASE /\ pc' = back /\ rc' = "ok"
               /\ FromCard(c) /\ DOMAIN c = BatchRange(BatchStart(want))
      <3>1. ~Writing'
        BY <1>2 DEF Writing, Backs
      <3>2. \A p \in DOMAIN c : c[p] = card'[p]
        BY <1>2, <2>4 DEF FromCard
      <3>3. ASSUME In("probe")', NEW p \in DOMAIN c PROVE p < Batch
        <4>1. want = 0
          BY <1>2, <1>3, <3>3 DEF SessionInv, Probing, In, Reading, Backs
        <4>2. BatchStart(0) = 0
          BY BatchAssumption DEF BatchStart
        <4> QED
          BY <2>4, <3>3, <4>1, <4>2, BatchAssumption DEF BatchRange
      <3>4. ASSUME In("candidate")', NEW p \in DOMAIN c
            PROVE  pc' = "candidate" /\ p >= n' - Batch
        <4>1. want = n - 1 /\ back = "candidate" /\ n \in Sizes
          BY <1>2, <1>3, <3>4 DEF SessionInv, Probing, In, Reading, Backs, TypeInv, Sourced
        <4>2. BatchStart(n - 1) = n - Batch /\ n \in Nat
          BY <4>1, SizesAligned
        <4> QED
          BY <1>1, <2>4, <3>4, <4>1, <4>2, BatchAssumption DEF BatchRange
      <3> QED
        BY <2>4, <3>1, <3>2, <3>3, <3>4 DEF LeftIn
    <2> QED
      BY <1>10, <2>2, <2>3, <2>4
  <1>12. Buffers'
    <2>1. SUFFICES ASSUME NEW c \in Held' PROVE FreshIn(c)'
      BY DEF Buffers
    <2>2. Final' <=> Final
      BY <1>2, <1>3 DEF Final, Checking, Backs
    <2>3. CASE c = Nothing
      BY <2>3 DEF FreshIn, Nothing
    <2>4. CASE c \in Held
      <3>1. FreshIn(c)
        BY <1>2, <2>4 DEF SessionInv, Buffers
      <3> QED
        BY <1>1, <1>2, <2>2, <3>1 DEF FreshIn
    <2>5. CASE FromCard(c)
      <3>1. Final \/ card = before.card
        BY <1>2 DEF SessionInv, Kept, CardWritten, Writing, Final
      <3> QED
        BY <1>1, <1>2, <2>2, <2>5, <3>1 DEF FreshIn, FromCard
    <2> QED
      BY <1>10, <2>3, <2>4, <2>5
  <1> QED
    BY <1>7, <1>8, <1>9, <1>11, <1>12 DEF SessionInv

LEMMA SessionIop ==
  ASSUME TypeInv, SessionInv, IopStep
  PROVE  SessionInv'
  <1>1. /\ flight # NoFlight /\ UNCHANGED <<card, cur, limit, last, pc, back, want, buf, rc>>
        /\ UNCHANGED <<image, op, fmt, name, total, n, crc, seen, before>>
        /\ \A c \in Held' : c \in Held \cup {Nothing} \/ FromCard(c)
        /\ flight.state = "issued" /\ cache' = cache
    BY IopEffect DEF IopStep, TypeInv, job, IopBulk
  <1>2. pc # "idle" /\ ~(pc \in {"source", "info"}) /\ ~In("probe") /\ ~In("candidate") /\ ~Writing
    BY <1>1 DEF TypeInv, Owned, SessionInv, Home, Probing
  <1>3. Home'
    BY <1>1, <1>2 DEF Home, In, Reading
  <1>4. Kept'
    <2>1. faults' >= before'.faults /\ (Failing => Failing')
      BY <1>1, FailingStays DEF Next
    <2>2. \A m : Mistaken(m) => Mistaken(m)'
      BY <1>1, <2>1 DEF Mistaken, Exporting, In, Reading
    <2> QED
      BY <1>1, <2>1, <2>2
         DEF SessionInv, Kept, CardWritten, Writing, Checking, Exporting, In, Reading
  <1>5. Probing'
    BY <1>1, <1>2 DEF SessionInv, Probing, Superblock, Writing, In, Reading
  <1>6. Left'
    <2>1. SUFFICES ASSUME NEW c \in Held' PROVE LeftIn(c)'
      BY DEF Left
    <2>2. CASE c \in Held
      <3>1. LeftIn(c)
        BY <2>2 DEF SessionInv, Left
      <3> QED
        BY <1>1, <3>1 DEF LeftIn, Writing, Checking, Probed, In, Reading
    <2>3. CASE FromCard(c) \/ c = Nothing
      BY <1>1, <1>2, <2>3 DEF LeftIn, FromCard, Nothing, Writing, In, Reading
    <2> QED
      BY <1>1, <2>2, <2>3
  <1>7. Buffers'
    <2>1. SUFFICES ASSUME NEW c \in Held' PROVE FreshIn(c)'
      BY DEF Buffers
    <2>2. CASE c \in Held
      <3>1. FreshIn(c)
        BY <1>2, <2>2 DEF SessionInv, Buffers
      <3> QED
        BY <1>1, <3>1 DEF FreshIn, Final, Checking, In, Reading
    <2>3. CASE FromCard(c) \/ c = Nothing
      <3>1. Final \/ card = before.card
        BY <1>2 DEF SessionInv, Kept, CardWritten, Final
      <3> QED
        BY <1>1, <2>3, <3>1 DEF FreshIn, FromCard, Nothing, Final, Checking, In, Reading
    <2> QED
      BY <1>1, <2>2, <2>3
  <1> QED
    BY <1>3, <1>4, <1>5, <1>6, <1>7 DEF SessionInv

(* A step of the engine does not touch the buffers; what they hold stays    *)
(* true of the card while the card is still being written.                  *)
LEMMA BuffersKept ==
  ASSUME SessionInv, pc # "idle", UNCHANGED <<bulk, before>>, DOMAIN card' = DOMAIN card,
         Final => Final' /\ card' = card
  PROVE  Buffers'
  <1>1. Held' = Held
    BY DEF Held, bulk
  <1>2. ASSUME NEW c \in Held PROVE FreshIn(c)'
    <2>1. FreshIn(c)
      BY DEF SessionInv, Buffers
    <2> QED
      BY <2>1 DEF FreshIn
  <1> QED
    BY <1>1, <1>2 DEF Buffers

LEMMA SessionProbes ==
  ASSUME TypeInv, SessionInv, Source \/ Info \/ Probe \/ Candidate
  PROVE  SessionInv'
  <1>1. /\ pc \in {"source", "info", "probe", "candidate"}
        /\ UNCHANGED <<bulk, card, image, op, fmt, name, before>>
    BY DEF Source, Info, Probe, Candidate, Quiet
  <1>2. /\ ~Final /\ ~Writing /\ total = 0 /\ flight = NoFlight /\ card = before.card
        /\ DOMAIN before.card = DOMAIN card
        /\ \A m \in Paths : before.image[m].exists => image[m] = before.image[m]
        /\ op = "restore" => before.image[name].exists
        /\ faults' >= before'.faults
    BY <1>1, FailingStays
       DEF Final, Checking, Writing, In, Reading, SessionInv, Home, Kept, CardWritten, Mistaken,
           Exporting, Next, Engine
  <1>3. Buffers'
    BY <1>1, <1>2, BuffersKept
  <1>4. Held' = Held /\ limit' = limit /\ cur' = cur /\ last' = last /\ flight' = NoFlight
        /\ cache' = cache
    BY <1>1, <1>2 DEF Held, bulk
  <1>5. CASE (Source \/ Info) /\ UNCHANGED total
    <2>1. cache = NoCache /\ cur = -1 /\ limit = 0 /\ last = NoPage /\ pc \in {"source", "info"}
      BY <1>5 DEF SessionInv, Home, Source, Info
    <2>2. \/ pc' \in {"info", "stop"}
          \/ pc' = "read" /\ back' = "probe" /\ want' = 0
      BY <1>5 DEF Source, Info, ReadPage, Fails, Goto
    <2>3. \A c \in Held : c = Nothing
      BY <1>2, <2>1, EmptyHeld
    <2>4. Left'
      BY <1>4, <2>3 DEF Left, LeftIn, Nothing
    <2>5. Home' /\ Probing'
      BY <1>2, <1>4, <1>5, <2>1, <2>2 DEF Home, Probing, In, Reading, Writing
    <2>6. Kept'
      BY <1>1, <1>2, <2>2 DEF Kept, Exporting, In, Reading
    <2> QED
      BY <1>3, <2>4, <2>5, <2>6 DEF SessionInv
  <1>6. ASSUME pc \in {"probe", "candidate"}, NEW t \in Sizes, Known(t),
               Superblock \in {0, t},
               \A c \in Held : \A p \in DOMAIN c : p < Batch \/ (Superblock = 0 /\ p >= t - Batch)
        PROVE  SessionInv'
    <2>1. total' = t /\ n' = 0 /\ pc' \in {"create", "stop", "erase"} /\ Superblock' = Superblock
      BY <1>1, <1>6 DEF Known, Goto, Fails, Superblock
    <2>2. Home' /\ Probing'
      BY <1>4, <1>6, <2>1 DEF Home, Probing, In, Reading, Writing
    <2>3. Kept'
      BY <1>1, <1>2, <2>1 DEF Kept, Exporting, In, Reading
    <2>4. ASSUME NEW c \in Held PROVE LeftIn(c)'
      BY <1>1, <1>6, <2>1 DEF LeftIn, Checking, In, Reading, Probed, Superblock
    <2>5. Left'
      BY <1>4, <2>4 DEF Left
    <2> QED
      BY <1>3, <2>2, <2>3, <2>5 DEF SessionInv
  <1>7. ASSUME pc \in {"probe", "candidate"}, Superblock = 0, limit = 0, UNCHANGED total,
               NEW t \in Sizes, n' = t, ReadPage(t - 1, "candidate"),
               \A c \in Held : \A p \in DOMAIN c : p < Batch
        PROVE  SessionInv'
    <2>1. pc' = "read" /\ want' = n' - 1 /\ back' = "candidate" /\ Superblock' = Superblock
      BY <1>1, <1>7 DEF ReadPage, Superblock
    <2>2. Home' /\ Probing'
      BY <1>2, <1>4, <1>7, <2>1 DEF Home, Probing, In, Reading, Writing
    <2>3. Kept'
      BY <1>1, <1>2, <2>1 DEF Kept, Exporting, In, Reading
    <2>4. ASSUME NEW c \in Held PROVE LeftIn(c)'
      BY <1>7, <2>1 DEF LeftIn, Writing, Checking, In, Reading
    <2>5. Left'
      BY <1>4, <2>4 DEF Left
    <2> QED
      BY <1>3, <2>2, <2>3, <2>5 DEF SessionInv
  <1>8. CASE pc' = "stop" /\ UNCHANGED total
    <2>1. Home' /\ Probing' /\ Left'
      BY <1>2, <1>8 DEF Home, Probing, Left, LeftIn, In, Reading, Writing, Checking
    <2>2. Kept'
      BY <1>1, <1>2, <1>8 DEF Kept, Exporting, In, Reading
    <2> QED
      BY <1>3, <2>1, <2>2 DEF SessionInv
  <1>9. CASE Probe
    <2>1. /\ pc = "probe"
          /\ \/ pc' = "stop" /\ UNCHANGED total
             \/ rc = "ok" /\ SuperblockPages(buf) # 0 /\ Known(SuperblockPages(buf))
             \/ /\ rc = "ok" /\ SuperblockPages(buf) = 0 /\ UNCHANGED total
                /\ \E t \in Sizes : n' = t /\ ReadPage(t - 1, "candidate")
      BY <1>9 DEF Probe, Fails, Goto
    <2>2. rc = "ok" => SuperblockPages(buf) = Superblock /\ (Superblock = 0 => limit = 0)
      BY <2>1 DEF SessionInv, Probing, Superblock
    <2>3. \A c \in Held : \A p \in DOMAIN c : p < Batch
      BY <2>1 DEF SessionInv, Left, LeftIn, In
    <2>4. Superblock # 0 => Superblock \in Sizes
      BY DEF Superblock, SuperblockPages
    <2> QED
      BY <1>6, <1>7, <1>8, <2>1, <2>2, <2>3, <2>4
  <1>10. CASE Candidate
    <2>1. /\ pc = "candidate" /\ n \in Sizes /\ Superblock = 0 /\ limit = 0
          /\ \/ pc' = "stop" /\ UNCHANGED total
             \/ rc = "ok" /\ Known(n)
             \/ /\ rc = "io" /\ UNCHANGED total
                /\ \E t \in Sizes : n' = t /\ ReadPage(t - 1, "candidate")
      BY <1>10 DEF Candidate, Fails, Goto, Smaller, SessionInv, Probing, In, TypeInv, Sourced
    <2>2. \A c \in Held : \A p \in DOMAIN c : p < Batch \/ (rc = "ok" /\ p >= n - Batch)
      BY <2>1 DEF SessionInv, Left, LeftIn, In
    <2> QED
      BY <1>6, <1>7, <1>8, <2>1, <2>2
  <1> QED
    BY <1>5, <1>9, <1>10 DEF Source, Info

LEMMA SessionExport ==
  ASSUME TypeInv, SessionInv, Create \/ Capture \/ Record \/ Close \/ Compare \/ Format
  PROVE  SessionInv'
  <1>1. /\ pc \in {"create", "capture", "record", "close", "compare", "format"}
        /\ UNCHANGED <<bulk, op, fmt, total, before>>
        /\ \/ pc' \in {"capture", "close", "compare", "format", "stop"}
           \/ pc' = "read" /\ back' = "record"
    BY DEF Create, Capture, Record, Close, Compare, Format, Quiet, Goto, Fails, Abandon, ReadPage, job
  <1>2. /\ ~Final /\ ~Writing /\ total # 0 /\ op \in {"export", "format"} /\ card = before.card
        /\ DOMAIN before.card = DOMAIN card
        /\ \A m \in Paths :
             before.image[m].exists => image[m] = before.image[m] \/ (m = name /\ pc # "create")
        /\ pc # "create" => ~before.image[name].exists \/ Failing
    BY <1>1 DEF TypeInv, Roles, Exporting, Final, Checking, Writing, In, Reading, SessionInv, Kept,
                CardWritten, Mistaken
  <1>9. faults' >= before'.faults /\ (Failing => Failing')
    BY <1>1, FailingStays DEF Next, Engine
  <1>3. DOMAIN card' = DOMAIN card /\ (card' = card \/ Format)
    <2>1. CASE Format
      BY <2>1, FormattedTyped, DataFacts DEF Format, TypeInv, ReadType
    <2> QED
      BY <2>1 DEF Create, Capture, Record, Close, Compare
  <1>4. Buffers'
    BY <1>1, <1>2, <1>3, BuffersKept
  <1>5. Home' /\ Probing' /\ Left'
    BY <1>1, <1>2 DEF SessionInv, Home, Probing, Superblock, Left, LeftIn, In, Reading, Writing,
                      Checking
  <1>6. /\ \A m \in Paths :
             before'.image[m].exists => image'[m] = before'.image[m] \/ (m = name' /\ Failing')
        /\ pc' # "stop" => ~before'.image[name'].exists \/ Failing'
    <2>1. CASE Create
      <3>1. CASE image' = image /\ name' = name /\ pc' = "stop"
        BY <1>1, <1>2, <2>1, <3>1 DEF Create
      <3>2. CASE /\ name' \in Paths /\ Free(name')
                 /\ image' = [image EXCEPT ![name'].exists = TRUE]
        <4>1. \A m \in Paths : m # name' => image'[m] = image[m]
          BY <3>2 DEF TypeInv, JobType
        <4>2. CASE ~image[name'].exists
          BY <1>1, <1>2, <2>1, <4>1, <4>2, <3>2 DEF Create
        <4>3. CASE faults' = faults + 1
          <5>1. Failing'
            <6>1. faults \in Nat /\ before.faults \in Nat /\ faults >= before.faults
              BY DEF TypeInv, ReadType, JobType, SessionInv, Kept
            <6> QED
              BY <1>1, <4>3, <6>1 DEF Failing
          <5> QED
            BY <1>1, <1>2, <2>1, <4>1, <5>1 DEF Create
        <4> QED
          BY <3>2, <4>2, <4>3, Zenon DEF Free, Fault
      <3> QED
        BY <2>1, <3>1, <3>2 DEF Create, Numbered, Fails, Goto
    <2>2. CASE Record
      <3>1. name' = name /\ \A m \in Paths : m # name => image'[m] = image[m]
        <4>1. image' = image \/ image' = Removed \/ \E b, part : image' = Written(b, part)
          BY <2>2 DEF Record, WrittenInPart
        <4> QED
          BY <2>2, <4>1 DEF Record, Removed, Written, TypeInv, JobType
      <3> QED
        BY <1>1, <1>2, <1>9, <2>2, <3>1 DEF Record
    <2>3. CASE Capture \/ Close \/ Compare \/ Format
      BY <1>1, <1>2, <1>9, <2>3 DEF Capture, Close, Compare, Format, job
    <2> QED
      BY <2>1, <2>2, <2>3
  <1>7. card' = before'.card \/ (op' = "format" /\ pc' = "stop")
    <2>1. Format => op = "format" /\ pc' = "stop"
      BY DEF Format, Goto, TypeInv, Roles
    <2> QED
      BY <1>1, <1>2, <1>3, <2>1
  <1>8. Kept'
    <2>1. \A m : m = name' /\ Failing' => Mistaken(m)'
      BY <1>1, <1>2 DEF Mistaken, Exporting, In, Reading
    <2> QED
      BY <1>1, <1>2, <1>3, <1>6, <1>7, <1>9, <2>1 DEF Kept, Exporting, In, Reading
  <1> QED
    BY <1>4, <1>5, <1>8 DEF SessionInv

LEMMA SessionRestore ==
  ASSUME TypeInv, SessionInv, Erase \/ Program \/ Readback \/ Check
  PROVE  SessionInv'
  <1>1. /\ UNCHANGED <<bulk, image, op, fmt, name, total, before>>
        /\ Writing \/ Checking
        /\ ~(pc \in {"read", "direct"})
        /\ op = "restore" /\ name \in Paths /\ before.image[name].exists /\ DOMAIN before.card = DOMAIN card
        /\ \A m \in Paths : before.image[m].exists => image[m] = before.image[m]
    <2>1. Writing \/ pc \in {"readback", "check"}
      BY DEF Erase, Program, Readback, Check, Writing
    <2>2. pc # "idle" /\ op = "restore"
      BY <2>1 DEF TypeInv, Roles, Writing, Checking, In
    <2> QED
      BY <2>1, <2>2 DEF Erase, Program, Readback, Check, Quiet, TypeInv, Roles, Checking, In, Writing,
                        SessionInv, Kept, Mistaken
  <1>11. faults' >= before'.faults
    BY <1>1, FailingStays DEF Next, Engine
  <1>2. \/ pc' \in {"erase", "program", "readback", "stop"}
        \/ pc' = "read" /\ back' = "check"
    BY DEF Erase, Program, Readback, Check, Goto, Fails, ReadPage
  <1>3. /\ Writing' => Writing
        /\ Checking \/ pc' = "readback" => card' = card
        /\ Checking => Final' /\ ~Writing'
        /\ Checking' => Checking \/ Writing
    BY <1>1, <1>2 DEF Erase, Program, Readback, Check, Goto, Fails, ReadPage, Writing, Checking, In,
                      Reading, Final
  <1>4. DOMAIN card' = DOMAIN card
    <2>1. CASE Erase
      <3>1. card' \in {card, Cleared(Block(n))}
        BY <2>1 DEF Erase
      <3> QED
        BY <3>1, ClearedTyped DEF TypeInv, ReadType
    <2>2. CASE Program
      BY <2>2 DEF Program
    <2> QED
      BY <2>1, <2>2 DEF Readback, Check
  <1>5. Buffers'
    <2>1. pc # "idle" /\ (Final => Checking)
      BY <1>1 DEF Writing, Checking, Final, In, Reading
    <2> QED
      BY <1>1, <1>3, <1>4, <2>1, BuffersKept
  <1>6. Held' = Held /\ flight' = flight
    BY <1>1 DEF Held, bulk
  <1>7. Home' /\ Probing'
    BY <1>1, <1>2, <1>3, <1>6 DEF SessionInv, Home, Probing, Superblock, In, Reading
  <1>8. Left'
    <2>1. SUFFICES ASSUME NEW c \in Held PROVE LeftIn(c)'
      BY <1>6 DEF Left
    <2>2. LeftIn(c)
      BY DEF SessionInv, Left
    <2>3. ~In("probe")' /\ ~In("candidate")'
      BY <1>2 DEF In, Reading
    <2>4. \A p : Probed(p)' <=> Probed(p)
      BY <1>1 DEF Probed
    <2>5. Checking' => Writing \/ (Checking /\ card' = card)
      BY <1>3
    <2> QED
      BY <1>3, <2>2, <2>3, <2>4, <2>5 DEF LeftIn
  <1>9. CardWritten'
    BY <1>1, <1>2 DEF CardWritten, Writing, Checking, In, Reading
  <1>10. Kept'
    BY <1>1, <1>2, <1>4, <1>9, <1>11 DEF Kept, Exporting, In, Reading
  <1> QED
    BY <1>5, <1>7, <1>8, <1>10 DEF SessionInv

LEMMA SessionOutside ==
  ASSUME TypeInv, SessionInv, SwapPoints \subseteq {"idle"}, Start \/ Stop \/ PowerCut \/ SwapCard
  PROVE  SessionInv'
  <1>1. CASE Start
    <2>1. /\ pc = "idle" /\ pc' \in {"source", "info", "stop"}
          /\ before' = World(card, image) /\ UNCHANGED <<total, card, image>>
          /\ cache' = NoCache /\ cur' = -1 /\ limit' = 0 /\ last' = NoPage /\ flight' = NoFlight
          /\ op' = "restore" => image[name'].exists
      BY <1>1 DEF Start, Goto, Reset
    <2>2. total = 0 /\ faults' >= faults
      BY <1>1, <2>1, FaultsGrow DEF SessionInv, Home, TypeInv, Next
    <2>3. \A c \in Held' : c = Nothing
      BY <2>1, NoFlightFacts DEF Held, NoCache
    <2>4. Left' /\ Buffers'
      BY <2>3 DEF Left, LeftIn, Buffers, FreshIn, Nothing
    <2> QED
      BY <2>1, <2>2, <2>4
         DEF SessionInv, Home, Probing, Kept, World, In, Reading, Writing, Exporting
  <1>2. CASE Stop \/ PowerCut
    <2>1. /\ pc' = "idle" /\ op' = "none" /\ before' = World(card, image) /\ crc' = <<>>
          /\ seen' = <<>> /\ total' = 0 /\ UNCHANGED <<card, image>>
          /\ cache' = NoCache /\ flight' = NoFlight
      BY <1>2 DEF Stop, PowerCut, Leave, Goto, Reset
    <2>2. \A c \in Held' : c = Nothing
      BY <2>1, NoFlightFacts DEF Held, NoCache
    <2>3. Left' /\ Buffers'
      BY <2>2 DEF Left, LeftIn, Buffers, FreshIn, Nothing
    <2>4. faults' >= faults
      BY <1>2, FaultsGrow DEF TypeInv, Next, Engine
    <2> QED
      BY <2>1, <2>3, <2>4
         DEF SessionInv, Home, Probing, Kept, World, In, Reading, Writing, Exporting
  <1>3. CASE SwapCard
    <2>1. pc = "idle" /\ pc' = "idle" /\ before' = World(card', image) /\ UNCHANGED <<image, job, bulk>>
      BY <1>3 DEF SwapCard
    <2>2. /\ before'.card = card' /\ before'.image = image'
          /\ crc' = <<>> /\ seen' = <<>> /\ total' = 0
      BY <2>1 DEF SessionInv, Home, World, job
    <2>4. before'.faults = faults /\ faults' >= faults
      BY <1>3, <2>1, FaultsGrow DEF World, TypeInv, Next
    <2>3. Left' /\ Buffers'
      BY <2>1 DEF Left, LeftIn, Buffers, In, Reading, Writing, Checking
    <2> QED
      BY <2>1, <2>2, <2>3, <2>4
         DEF SessionInv, Home, Probing, Kept, World, In, Reading, Writing, Exporting
  <1> QED
    BY <1>1, <1>2, <1>3

LEMMA InitSession == Init => SessionInv
  BY DEF Init, SessionInv, Home, Kept, Probing, Left, LeftIn, Buffers, World, In, Reading, Writing,
         Checking, Exporting, CardWritten

LEMMA StepSession ==
  SwapPoints \subseteq {"idle"} => (TypeInv /\ SessionInv /\ [Next]_vars => SessionInv')
  <1> SUFFICES ASSUME SwapPoints \subseteq {"idle"}, TypeInv, SessionInv, [Next]_vars
               PROVE  SessionInv'
    OBVIOUS
  <1>1. CASE Next
    BY <1>1, SessionRead, SessionIop, SessionProbes, SessionExport, SessionRestore, SessionOutside
       DEF Next, Engine
  <1>2. CASE UNCHANGED vars
    BY <1>2 DEF vars, bulk, read, job, SessionInv, Home, Kept, Probing, Superblock, Left, LeftIn,
                Buffers, FreshIn, Held, Probed, Final, In, Reading, Writing, Checking, Exporting,
                CardWritten, Failing, Mistaken
  <1> QED
    BY <1>1, <1>2

LEMMA SessionInvariance ==
  ASSUME SwapPoints \subseteq {"idle"}
  PROVE  Spec => [](TypeInv /\ SessionInv)
  <1>1. TypeInv /\ SessionInv /\ [Next]_vars => TypeInv' /\ SessionInv'
    BY StepTyped, StepSession
  <1> QED
    BY <1>1, InitTyped, InitSession, PTL DEF Spec

-----------------------------------------------------------------------------
(* The job: what is captured, written and read back *)

LEMMA PagesGrow ==
  ASSUME NEW c, NEW k \in Nat, NEW s \in Seq(Data), NEW d \in Data,
         s = Pages(c, k), d = c[k]
  PROVE  Append(s, d) = Pages(c, k + 1)
  <1>1. Len(s) = k /\ DOMAIN s = 1..k /\ \A i \in 1..k : s[i] = c[i - 1]
    <2>1. DOMAIN s = 1..k
      BY DEF Pages
    <2>2. Len(s) = k
      BY <2>1
    <2> QED
      BY <2>1, <2>2 DEF Pages
  <1> DEFINE t == Append(s, d)
  <1>2. t \in Seq(Data) /\ Len(t) = k + 1 /\ DOMAIN t = 1..(k + 1)
    BY <1>1
  <1>3. \A i \in 1..(k + 1) : t[i] = c[i - 1]
    BY <1>1
  <1>4. t = [i \in 1..(k + 1) |-> t[i]]
    BY <1>2
  <1> HIDE DEF t
  <1>5. t = [i \in 1..(k + 1) |-> c[i - 1]]
    BY <1>3, <1>4
  <1> QED
    BY <1>5 DEF t, Pages

LEMMA PagesNone ==
  ASSUME NEW c
  PROVE  Pages(c, 0) = <<>>
  <1>1. 1..0 = {}
    OBVIOUS
  <1> QED
    BY <1>1 DEF Pages

(* Reports of failure promise nothing. *)
LEMMA NothingPromised ==
  ASSUME pc' = "stop" => ~report'.verified
  PROVE  ExportFaithful' /\ RestoreVerifiedPastProbe'
  BY DEF ExportFaithful, RestoreVerifiedPastProbe

LEMMA JobRead ==
  ASSUME TypeInv, SessionInv, JobInv, ReadCard
  PROVE  JobInv'
  <1>1. PageRead /\ UNCHANGED <<image, op, fmt, name, total, n, crc, seen, report, before>>
    BY ReadEffect DEF ReadCard, TypeInv, job
  <1>2. /\ pc \in {"read", "direct"} /\ back \in Backs /\ UNCHANGED <<card, back, want>>
        /\ pc' \in {"read", "direct"} \/ pc' = back
        /\ pc' \in Backs => pc' = back
    BY <1>1 DEF PageRead, Backs
  <1>3. \A b \in Backs : (In(b)' <=> In(b)) /\ (Reading(b)' => Reading(b)) /\ (In(b) => back = b)
    BY <1>2 DEF In, Reading, Backs
  <1>4. (Exporting' <=> Exporting) /\ (Checking' <=> Checking) /\ ~Writing'
    BY <1>2, <1>3 DEF Exporting, Checking, Writing, Backs
  <1>5. pc' \notin {"idle", "stop", "info", "create", "capture", "close", "compare", "format"}
    BY <1>2 DEF Backs
  <1>6. Capturing'
    <2>1. pc' = "record" /\ rc' = "ok" => buf' = card[n] /\ n \in DOMAIN card
      <3>1. SUFFICES ASSUME pc' = "record", rc' = "ok" PROVE buf' = card[n] /\ n \in DOMAIN card
        OBVIOUS
      <3>2. pc' = back /\ back # "check" /\ want = n
        BY <1>2, <3>1 DEF JobInv, Capturing, Reading, Backs
      <3> QED
        BY <1>1, <3>1, <3>2, ServedPage
    <2>2. Reading("record")' => want' = n'
      BY <1>1, <1>2, <1>3 DEF JobInv, Capturing, Backs
    <2>3. In("record")' => crc' = Pages(card', n') /\ n' < total'
      BY <1>1, <1>2, <1>3 DEF JobInv, Capturing, Backs
    <2>4. (In("probe")' \/ In("candidate")') /\ op' # "restore" => crc' = <<>>
      BY <1>1, <1>3 DEF JobInv, Capturing, Backs
    <2>5. ExportFaithful'
      BY <1>5 DEF ExportFaithful
    <2> QED
      BY <1>1, <1>2, <1>5, <2>1, <2>2, <2>3, <2>4, <2>5 DEF Capturing
  <1>7. Restoring'
    BY <1>4, <1>5 DEF Restoring
  <1>8. ReadingBack'
    <2>1. Reading("check")' => want' = n'
      BY <1>1, <1>2, <1>3 DEF JobInv, ReadingBack, Backs
    <2>2. pc' = "check" /\ rc' = "ok" /\ ~Probed(n) => buf' = card[n]
      <3>1. SUFFICES ASSUME pc' = "check", rc' = "ok", ~Probed(n) PROVE buf' = card[n]
        OBVIOUS
      <3>2. pc' = back /\ want = n /\ Checking
        BY <1>2, <3>1 DEF JobInv, ReadingBack, Reading, Checking, In, Backs
      <3>3. \/ want \in DOMAIN card /\ buf' = card[want]
            \/ \E c \in Held : want \in DOMAIN c /\ buf' = c[want]
        BY <1>1, <3>1 DEF PageRead
      <3>4. \A c \in Held : want \in DOMAIN c => c[want] = card[want]
        BY <3>1, <3>2 DEF SessionInv, Left, LeftIn
      <3> QED
        BY <3>2, <3>3, <3>4
    <2>3. \A p : Probed(p)' <=> Probed(p)
      BY <1>1 DEF Probed
    <2>4. RestoreVerifiedPastProbe'
      BY <1>5 DEF RestoreVerifiedPastProbe
    <2>5. ~Checking' => seen' = <<>>
      BY <1>1, <1>2, <1>4 DEF JobInv, ReadingBack
    <2>6. Checking' => Len(seen') = n' /\ \A q \in 0..(n' - 1) : ~Probed(q)' => seen'[q + 1] = card'[q]
      BY <1>1, <1>2, <1>4, <2>3 DEF JobInv, ReadingBack
    <2>7. pc' = "check" /\ rc' = "ok" /\ ~Probed(n)' => buf' = card'[n']
      BY <1>1, <1>2, <2>2, <2>3
    <2> QED
      BY <2>1, <2>4, <2>5, <2>6, <2>7 DEF ReadingBack
  <1> QED
    BY <1>6, <1>7, <1>8 DEF JobInv

(* Steps that leave card, job and place alone. *)
LEMMA JobKept ==
  ASSUME JobInv, UNCHANGED <<card, pc, back, want, buf, rc, image, job, before>>
  PROVE  JobInv'
  <1>1. UNCHANGED <<image, op, fmt, name, total, n, crc, seen, report, before>>
    BY DEF job
  <1>2. /\ \A b : (In(b)' <=> In(b)) /\ (Reading(b)' <=> Reading(b))
        /\ Exporting' = Exporting /\ Checking' = Checking /\ Writing' = Writing
        /\ \A p : Probed(p)' <=> Probed(p)
    BY <1>1 DEF Exporting, Checking, Writing, In, Reading, Probed
  <1>3. Capturing'
    BY <1>1, <1>2 DEF JobInv, Capturing, ExportFaithful
  <1>4. Restoring'
    BY <1>1, <1>2 DEF JobInv, Restoring
  <1>5. ReadingBack'
    BY <1>1, <1>2 DEF JobInv, ReadingBack, RestoreVerifiedPastProbe
  <1> QED
    BY <1>3, <1>4, <1>5 DEF JobInv

LEMMA JobProbes ==
  ASSUME TypeInv, SessionInv, JobInv, Source \/ Info \/ Probe \/ Candidate
  PROVE  JobInv'
  <1>1. /\ pc \in {"source", "info", "probe", "candidate"}
        /\ UNCHANGED <<card, image, op, fmt, name, seen, before>>
        /\ op = "restore" \/ crc' = crc
        /\ \/ pc' \in {"info", "stop", "create", "erase"}
           \/ pc' = "read" /\ back' \in {"probe", "candidate"}
    <2>1. Source => op = "restore"
      BY DEF Source, TypeInv, Roles
    <2> QED
      BY <2>1 DEF Source, Info, Probe, Candidate, Quiet, Fails, Goto, ReadPage, Known
  <1>2. card = before.card /\ seen = <<>> /\ (op # "restore" => pc # "source" /\ crc = <<>>)
    <2>1. ~Checking /\ ~Writing
      BY <1>1 DEF Checking, Writing, In, Reading
    <2> QED
      BY <1>1, <2>1 DEF SessionInv, Kept, CardWritten, JobInv, ReadingBack, Capturing, In, TypeInv,
                        Roles
  <1>3. pc' = "stop" => ~report'.verified
    <2>1. Fails("verify") \/ Fails("geometry") \/ Fails("size") => ~report'.verified
      BY Reported DEF Results
    <2> QED
      BY <2>1 DEF Source, Info, Probe, Candidate, Goto, ReadPage, Known
  <1>4. pc' \in {"create", "erase"} => n' = 0
    BY DEF Source, Info, Probe, Candidate, Goto, Fails, ReadPage, Known
  <1>5. Capturing'
    BY <1>1, <1>2, <1>3, <1>4, NothingPromised DEF Capturing, In, Reading
  <1>6. Restoring'
    <2>1. pc' = "erase" => \A p \in DOMAIN card' : p \in Nat /\ card'[p] = before'.card[p]
      BY <1>1, <1>2, CardFacts DEF TypeInv, ReadType
    <2>2. Writing' => n' = 0 /\ pc' = "erase"
      BY <1>1, <1>4 DEF Writing
    <2> QED
      BY <1>1, <1>2, <2>1, <2>2 DEF Restoring
  <1>7. ReadingBack'
    BY <1>1, <1>2, <1>3, NothingPromised DEF ReadingBack, Checking, In, Reading
  <1> QED
    BY <1>5, <1>6, <1>7 DEF JobInv

LEMMA JobExport ==
  ASSUME TypeInv, SessionInv, JobInv, Create \/ Capture \/ Record \/ Close \/ Compare \/ Format
  PROVE  JobInv'
  <1>1. /\ pc \in {"create", "capture", "record", "close", "compare", "format"}
        /\ UNCHANGED <<op, fmt, total, seen, before>>
        /\ \/ pc' \in {"capture", "close", "compare", "format", "stop"}
           \/ pc' = "read" /\ back' = "record"
    BY DEF Create, Capture, Record, Close, Compare, Format, Quiet, Goto, Fails, Abandon, ReadPage, job
  <1>2. /\ op \in {"export", "format"} /\ seen = <<>> /\ n \in Nat
        /\ card' = card \/ (Format /\ op = "format")
        /\ card = before.card
    <2>1. ~Checking /\ ~Writing
      BY <1>1 DEF Checking, Writing, In, Reading
    <2>2. op \in {"export", "format"} /\ (Format => op = "format")
      BY <1>1 DEF TypeInv, Roles, Exporting, In, Format
    <2> QED
      BY <1>1, <2>1, <2>2 DEF SessionInv, Kept, CardWritten, JobInv, ReadingBack, TypeInv, JobType,
                              Create, Capture, Record, Close, Compare
  <1>3. Restoring'
    BY <1>1, <1>2 DEF Restoring, Writing
  <1>4. ReadingBack'
    BY <1>1, <1>2 DEF ReadingBack, Checking, In, Reading, RestoreVerifiedPastProbe
  <1>5. Capturing'
    <2>1. CASE pc' = "stop" /\ ~report'.verified
      BY <2>1, NothingPromised DEF Capturing, In, Reading
    <2>2. CASE Create /\ pc' = "capture"
      <3>1. crc' = <<>> /\ n' = 0 /\ card' = card /\ total \in Nat
        BY <1>1, <1>2, <2>2, DataFacts DEF JobInv, Capturing, Create, TypeInv, JobType, Filing
      <3> QED
        BY <1>1, <2>2, <3>1, PagesNone DEF Capturing, ExportFaithful, In, Reading
    <2>3. CASE Capture
      <3>1. crc = Pages(card, n) /\ n <= total /\ total \in Nat /\ UNCHANGED <<card, crc, n>>
        BY <2>3, DataFacts DEF Capture, JobInv, Capturing, job, TypeInv, JobType
      <3>2. \/ n < total /\ pc' = "read" /\ back' = "record" /\ want' = n
            \/ n = total /\ pc' = "close"
        BY <1>2, <2>3, <3>1 DEF Capture, ReadPage, Goto
      <3> QED
        BY <1>1, <3>1, <3>2 DEF Capturing, ExportFaithful, In, Reading
    <2>4. CASE Record /\ pc' = "capture"
      <3>1. rc = "ok" /\ crc' = Append(crc, buf) /\ n' = n + 1 /\ UNCHANGED <<card, total>>
        BY <2>4 DEF Record, Abandon, Fails, Goto, Quiet
      <3>2. crc = Pages(card, n) /\ n < total /\ buf = card[n] /\ total \in Nat
        BY <2>4, <3>1, DataFacts DEF Record, JobInv, Capturing, In, TypeInv, JobType
      <3>3. crc \in Seq(Data) /\ buf \in Data
        BY DEF TypeInv, JobType, ReadType
      <3>4. crc' = Pages(card', n') /\ n' <= total'
        BY <1>2, <3>1, <3>2, <3>3, PagesGrow
      <3> QED
        BY <1>1, <2>4, <3>4 DEF Capturing, ExportFaithful, In, Reading
    <2>5. CASE Close /\ pc' = "compare"
      BY <1>1, <2>5 DEF Close, JobInv, Capturing, ExportFaithful, In, Reading
    <2>6. CASE Compare /\ Matches /\ pc' = IF op = "format" THEN "format" ELSE "stop"
      <3>1. /\ crc = Pages(card, total) /\ image[name].data = crc /\ image[name].exists
            /\ UNCHANGED <<card, image, name, total, op>>
            /\ pc' = IF op = "format" THEN "format" ELSE "stop"
        BY <2>6 DEF Compare, Matches, Accepted, JobInv, Capturing
      <3>2. name \in Paths /\ image[name] \in Image
        BY <2>6 DEF Compare, TypeInv, Roles, Exporting, JobType
      <3>3. image[name] = [exists |-> TRUE, data |-> Pages(card, total)]
        BY <3>1, <3>2 DEF Image
      <3>4. ExportFaithful'
        BY <1>1, <1>2, <3>1, <3>3 DEF ExportFaithful
      <3> QED
        BY <3>1, <3>4 DEF Capturing, In, Reading
    <2>7. CASE Format
      <3>1. op' = "format" /\ pc' = "stop"
        BY <1>1, <2>7 DEF Format, Goto, TypeInv, Roles
      <3> QED
        BY <3>1 DEF Capturing, ExportFaithful, In, Reading
    <2>8. /\ Create => pc' = "capture" \/ (pc' = "stop" /\ ~report'.verified)
          /\ Record => pc' = "capture" \/ (pc' = "stop" /\ ~report'.verified)
          /\ Close => pc' = "compare" \/ (pc' = "stop" /\ ~report'.verified)
          /\ Compare => \/ Matches /\ pc' = IF op = "format" THEN "format" ELSE "stop"
                        \/ pc' = "stop" /\ ~report'.verified
      <3>1. Fails("usb") \/ Fails("read") \/ Fails("verify") => pc' = "stop" /\ ~report'.verified
        BY Reported DEF Results
      <3> QED
        BY <3>1 DEF Create, Record, Close, Compare, Abandon, Goto
    <2> QED
      BY <2>1, <2>2, <2>3, <2>4, <2>5, <2>6, <2>7, <2>8
  <1> QED
    BY <1>3, <1>4, <1>5 DEF JobInv

(* Blocks are erased in order of their pages. *)
LEMMA BlockOrder ==
  ASSUME NEW p \in Nat, NEW q \in Nat
  PROVE  /\ p <= q => p \div BlockPages <= q \div BlockPages
         /\ p < q /\ q % BlockPages = 0 => p \div BlockPages # q \div BlockPages
         /\ p \div BlockPages \in Nat
  <1> DEFINE a == p \div BlockPages
             b == q \div BlockPages
  <1>1. /\ BlockPages \in Nat \ {0} /\ a \in Nat /\ b \in Nat
        /\ a * BlockPages <= p /\ p < a * BlockPages + BlockPages
        /\ b * BlockPages <= q /\ q < b * BlockPages + BlockPages
    BY BlockAssumption
  <1>2. p <= q => a <= b
    BY <1>1
  <1>3. q % BlockPages = 0 => q = b * BlockPages
    BY <1>1
  <1>4. p < q /\ q % BlockPages = 0 => a # b
    BY <1>1, <1>3
  <1> QED
    BY <1>1, <1>2, <1>4

LEMMA WriteInOrder ==
  ASSUME TypeInv, SessionInv, JobInv, Erase \/ Program, Writing'
  PROVE  \A p \in DOMAIN card' :
           /\ p < n' => card'[p] \in {crc'[p + 1], Damaged}
           /\ p \div BlockPages > n' \div BlockPages => card'[p] = before'.card[p]
  <1>1. /\ card \in Cards /\ n \in Nat /\ crc' = crc /\ before' = before
        /\ \A p \in DOMAIN card : p \in Nat
        /\ \A p \in DOMAIN card :
             /\ p < n => card[p] \in {crc[p + 1], Damaged}
             /\ p \div BlockPages > n \div BlockPages => card[p] = before.card[p]
    BY CardFacts DEF Erase, Program, TypeInv, ReadType, JobType, JobInv, Restoring, Writing
  <1>2. CASE Erase
    <2>1. /\ n' = n
          /\ card' = card \/ (n % BlockPages = 0 /\ card' = Cleared(Block(n)))
      BY <1>2 DEF Erase, Fails, Goto, Writing
    <2>2. CASE card' = card
      BY <1>1, <2>1, <2>2
    <2>3. CASE n % BlockPages = 0 /\ card' = Cleared(Block(n))
      <3>1. ASSUME NEW p \in DOMAIN card
            PROVE  /\ p < n => p \notin Block(n)
                   /\ p \div BlockPages > n \div BlockPages => p \notin Block(n)
        <4>1. p \in Nat /\ p \div BlockPages \in Nat /\ n \div BlockPages \in Nat
          BY <1>1, BlockOrder
        <4>2. p < n => p \div BlockPages # n \div BlockPages
          BY <1>1, <2>3, <4>1, BlockOrder
        <4>3. p \in Block(n) => p \div BlockPages = n \div BlockPages
          BY DEF Block
        <4> QED
          BY <4>1, <4>2, <4>3
      <3>2. DOMAIN card' = DOMAIN card /\ \A p \in DOMAIN card : p \notin Block(n) => card'[p] = card[p]
        BY <2>3 DEF Cleared
      <3> QED
        BY <1>1, <2>1, <3>1, <3>2
    <2> QED
      BY <2>1, <2>2, <2>3
  <1>3. CASE Program
    <2>1. /\ pc = "program" /\ n \in DOMAIN card /\ n' = n + 1
          /\ \/ card' = [card EXCEPT ![n] = Damaged]
             \/ card' = [card EXCEPT ![n] = image[name].data[n + 1]]
      BY <1>3 DEF Program, Fails, Goto, Writing
    <2>2. crc = image[name].data
      BY <2>1 DEF TypeInv, Sourced, Filing, Roles, Writing
    <2>3. /\ DOMAIN card' = DOMAIN card /\ card'[n] \in {crc[n + 1], Damaged}
          /\ \A p \in DOMAIN card : p # n => card'[p] = card[p]
      BY <2>1, <2>2
    <2>4. ASSUME NEW p \in DOMAIN card, p \div BlockPages > (n + 1) \div BlockPages
          PROVE  p # n /\ p \div BlockPages > n \div BlockPages
      <3>1. p \in Nat /\ n + 1 \in Nat
        BY <1>1
      <3>2. n \div BlockPages <= (n + 1) \div BlockPages
            /\ n \div BlockPages \in Nat /\ (n + 1) \div BlockPages \in Nat /\ p \div BlockPages \in Nat
        BY <1>1, <3>1, BlockOrder
      <3> QED
        BY <2>4, <3>2
    <2>5. ASSUME NEW p \in DOMAIN card, p < n + 1 PROVE p = n \/ p < n
      BY <1>1, <2>5
    <2> QED
      BY <1>1, <2>1, <2>3, <2>4, <2>5
  <1> QED
    BY <1>2, <1>3

LEMMA JobRestore ==
  ASSUME TypeInv, SessionInv, JobInv, Erase \/ Program \/ Readback \/ Check
  PROVE  JobInv'
  <1>1. /\ pc \in {"erase", "program", "readback", "check"}
        /\ UNCHANGED <<image, op, fmt, name, total, crc, before>>
        /\ op = "restore" /\ crc = image[name].data /\ total = Len(crc) /\ n <= total
        /\ total # 0 /\ total \in Nat /\ n \in Nat
    <2>1. pc \in {"erase", "program", "readback", "check"}
      BY DEF Erase, Program, Readback, Check
    <2>2. Writing \/ Checking
      BY <2>1 DEF Writing, Checking, In
    <2> QED
      BY <2>1, <2>2, DataFacts DEF Erase, Program, Readback, Check, Quiet, TypeInv, Roles, Sourced, Filing, JobType
  <1>2. \/ pc' \in {"erase", "program", "readback", "stop"}
        \/ pc' = "read" /\ back' = "check" /\ want' = n'
    BY DEF Erase, Program, Readback, Check, Goto, Fails, ReadPage
  <1>3. Capturing'
    BY <1>1, <1>2 DEF Capturing, ExportFaithful, In, Reading
  <1>4. Restoring'
    <2>1. Writing' => Erase \/ Program
      BY DEF Writing, Readback, Check, Goto, Fails, ReadPage
    <2> QED
      BY <1>1, <2>1, WriteInOrder DEF Restoring
  <1>5. \A p : Probed(p)' <=> Probed(p)
    BY <1>1 DEF Probed
  <1>6. CASE Erase \/ Program
    <2>1. /\ seen' = <<>>
          /\ pc' \in {"erase", "program"} \/ (pc' = "readback" /\ n' = 0) \/ (pc' = "stop" /\ ~report'.verified)
      <3>1. seen = <<>>
        BY <1>6 DEF Erase, Program, JobInv, ReadingBack, Checking, In, Reading
      <3>2. Fails("write") \/ Fails("usb") \/ Fails("verify") => pc' = "stop" /\ ~report'.verified
        BY Reported DEF Results
      <3> QED
        BY <1>6, <3>1, <3>2 DEF Erase, Program, Goto
    <2>2. RestoreVerifiedPastProbe'
      BY <2>1, NothingPromised
    <2> QED
      <3>1. Len(<<>>) = 0
        OBVIOUS
      <3>2. Checking' => n' = 0
        BY <2>1 DEF Checking, In, Reading
      <3>3. ReadingBack'
        BY <2>1, <2>2, <3>1, <3>2 DEF ReadingBack, In, Reading
      <3> QED
        BY <1>3, <1>4, <3>3 DEF JobInv
  <1>7. CASE Readback \/ Check
    <2>1. /\ Len(seen) = n /\ card' = card
          /\ \A q \in 0..(n - 1) : ~Probed(q) => seen[q + 1] = card[q]
      BY <1>7 DEF Readback, Check, JobInv, ReadingBack, Checking, In
    <2>2. CASE Readback
      <3>1. UNCHANGED <<n, seen>>
            /\ \/ pc' = "read"
               \/ pc' = "stop" /\ n = total /\ (report'.verified => Restored)
        <4>1. Fails("ok") => pc' = "stop"
          BY Reported DEF Results
        <4>2. Fails("verify") => pc' = "stop" /\ ~report'.verified
          BY Reported DEF Results
        <4> QED
          BY <1>1, <2>2, <4>1, <4>2 DEF Readback, ReadPage
      <3>2. RestoreVerifiedPastProbe'
        <4>1. SUFFICES ASSUME pc' = "stop", report'.verified, NEW p \in DOMAIN card, p < total, ~Probed(p)
                       PROVE  card[p] = image[name].data[p + 1]
          BY <1>1, <1>5, <2>1 DEF RestoreVerifiedPastProbe
        <4>2. p \in Nat
          BY CardFacts DEF TypeInv, ReadType
        <4>3. p \in 0..(n - 1) /\ seen = crc
          BY <1>1, <3>1, <4>1, <4>2 DEF Restored
        <4> QED
          BY <1>1, <2>1, <4>1, <4>3
      <3> QED
        <4>1. ReadingBack'
          BY <1>1, <1>2, <1>5, <2>1, <3>1, <3>2 DEF ReadingBack, Checking, In, Reading
        <4> QED
          BY <1>3, <1>4, <4>1 DEF JobInv
    <2>3. CASE Check /\ pc' = "stop" /\ ~report'.verified
      BY <1>3, <1>4, <2>3, NothingPromised DEF JobInv, ReadingBack, Checking, In, Reading
    <2>4. CASE Check /\ rc = "ok" /\ pc' = "readback" /\ seen' = Append(seen, buf) /\ n' = n + 1
      <3>1. ~Probed(n) => buf = card[n]
        BY <2>4 DEF Check, JobInv, ReadingBack
      <3>2. seen \in Seq(Data) /\ buf \in Data
        BY DEF TypeInv, JobType, ReadType
      <3>3. Len(seen') = n + 1 /\ seen'[n + 1] = buf /\ \A q \in 1..n : seen'[q] = seen[q]
        BY <1>1, <2>1, <2>4, <3>2
      <3>4. ASSUME NEW q \in 0..n, ~Probed(q) PROVE seen'[q + 1] = card[q]
        <4>1. q = n \/ q \in 0..(n - 1)
          BY <1>1
        <4>2. q \in 0..(n - 1) => q + 1 \in 1..n
          BY <1>1
        <4> QED
          BY <2>1, <3>1, <3>3, <3>4, <4>1, <4>2
      <3>5. \A q \in 0..(n' - 1) : ~Probed(q)' => seen'[q + 1] = card'[q]
        BY <1>1, <1>5, <2>1, <2>4, <3>4
      <3>6. ReadingBack'
        BY <2>4, <3>3, <3>5 DEF ReadingBack, Checking, In, Reading, RestoreVerifiedPastProbe
      <3> QED
        BY <1>3, <1>4, <3>6 DEF JobInv
    <2>5. Check => \/ pc' = "stop" /\ ~report'.verified
                   \/ rc = "ok" /\ pc' = "readback" /\ seen' = Append(seen, buf) /\ n' = n + 1
      <3>1. Fails("verify") => pc' = "stop" /\ ~report'.verified
        BY Reported DEF Results
      <3> QED
        BY <3>1 DEF Check, Goto
    <2> QED
      BY <1>7, <2>2, <2>3, <2>4, <2>5
  <1> QED
    BY <1>6, <1>7

LEMMA JobOutside ==
  ASSUME TypeInv, SessionInv, JobInv, SwapPoints \subseteq {"idle"},
         Start \/ Stop \/ PowerCut \/ SwapCard
  PROVE  JobInv'
  <1>1. CASE Start
    <2>1. /\ pc = "idle" /\ pc' \in {"source", "info", "stop"} /\ report' = NoReport
          /\ before' = World(card, image) /\ UNCHANGED <<crc, seen, card>>
      BY <1>1 DEF Start, Goto
    <2>2. crc' = <<>> /\ seen' = <<>> /\ before'.card = card' /\ ~report'.verified
      BY <2>1 DEF SessionInv, Home, JobInv, ReadingBack, Checking, In, Reading, World, NoReport
    <2> QED
      BY <2>1, <2>2, NothingPromised
         DEF JobInv, Capturing, Restoring, ReadingBack, Checking, Writing, In, Reading
  <1>2. CASE Stop \/ PowerCut
    <2>1. pc' = "idle" /\ seen' = <<>>
      BY <1>2 DEF Stop, PowerCut, Leave, Goto
    <2> QED
      BY <2>1, NothingPromised
         DEF JobInv, Capturing, Restoring, ReadingBack, Checking, Writing, In, Reading
  <1>3. CASE SwapCard
    <2>1. pc' = "idle" /\ seen' = <<>>
      BY <1>3 DEF SwapCard, job, SessionInv, Home
    <2> QED
      BY <2>1, NothingPromised
         DEF JobInv, Capturing, Restoring, ReadingBack, Checking, Writing, In, Reading
  <1> QED
    BY <1>1, <1>2, <1>3

LEMMA JobIop ==
  ASSUME JobInv, IopStep
  PROVE  JobInv'
  <1>1. UNCHANGED <<card, pc, back, want, buf, rc, image, job, before>>
    BY DEF IopStep, IopBulk, read
  <1> QED
    BY <1>1, JobKept

LEMMA InitJob == Init => JobInv
  BY DEF Init, JobInv, Capturing, Restoring, ReadingBack, ExportFaithful, RestoreVerifiedPastProbe,
         Checking, Writing, In, Reading

LEMMA StepJob ==
  SwapPoints \subseteq {"idle"} => (TypeInv /\ SessionInv /\ JobInv /\ [Next]_vars => JobInv')
  <1> SUFFICES ASSUME SwapPoints \subseteq {"idle"}, TypeInv, SessionInv, JobInv, [Next]_vars
               PROVE  JobInv'
    OBVIOUS
  <1>1. CASE Next
    BY <1>1, JobRead, JobIop, JobProbes, JobExport, JobRestore, JobOutside DEF Next, Engine
  <1>2. CASE UNCHANGED vars
    BY <1>2, JobKept DEF vars, read
  <1> QED
    BY <1>1, <1>2

LEMMA JobInvariance ==
  ASSUME SwapPoints \subseteq {"idle"}
  PROVE  Spec => [](TypeInv /\ SessionInv /\ JobInv)
  <1>1. TypeInv /\ SessionInv /\ JobInv /\ [Next]_vars => TypeInv' /\ SessionInv' /\ JobInv'
    BY StepTyped, StepSession, StepJob
  <1> QED
    BY <1>1, InitTyped, InitSession, InitJob, PTL DEF Spec

-----------------------------------------------------------------------------
(* What the Card Tools promise *)

(* While the card is as it was when the session began, every page in the   *)
(* two buffers of RawBulkRead and in the batch on its way is the card's.   *)
THEOREM CacheAlwaysFresh ==
  ASSUME SwapPoints \subseteq {"idle"}
  PROVE  Spec => []CacheFresh
  <1>1. TypeInv /\ SessionInv => CacheFresh
    BY DEF SessionInv, Buffers, FreshIn, Held, CacheFresh
  <1> QED
    BY <1>1, SessionInvariance, PTL

(* Exports and unfinished backups do not write to the card, and no Card    *)
(* Tool touches an image of an earlier session, but for the one whose name *)
(* a failed stat of UniqueImagePath() gave to an export or a backup.       *)
THEOREM OthersAlwaysKept ==
  ASSUME SwapPoints \subseteq {"idle"}
  PROVE  Spec => []OthersKept
  <1>1. TypeInv /\ SessionInv => OthersKept
    BY DEF SessionInv, Kept, CardWritten, OthersKept, Mistaken, Failing
  <1> QED
    BY <1>1, SessionInvariance, PTL

(* MciCardImageExport() reports success only of an image that holds every  *)
(* page of the card, whatever batches were read, dropped or damaged.       *)
THEOREM ExportsAreFaithful ==
  ASSUME SwapPoints \subseteq {"idle"}
  PROVE  Spec => []ExportFaithful
  <1>1. JobInv => ExportFaithful
    BY DEF JobInv, Capturing
  <1> QED
    BY <1>1, JobInvariance, PTL

(* MciCardImageRestoreExact() writes only an image as long as the card,    *)
(* from the first page to the last, one erase block after another.         *)
THEOREM RestoresInOrder ==
  ASSUME SwapPoints \subseteq {"idle"}
  PROVE  Spec => []RestoreInOrder
  <1>1. TypeInv /\ SessionInv /\ JobInv => RestoreInOrder
    <2> SUFFICES ASSUME TypeInv, SessionInv, JobInv, pc # "idle", op = "restore",
                        card # before.card
                 PROVE  /\ image[name].data = crc /\ Len(crc) = total
                        /\ SuperblockPages(before.card[0]) \in {0, total}
                        /\ pc \in {"erase", "program"} =>
                             \A p \in DOMAIN card :
                               /\ p < n => card[p] \in {crc[p + 1], Damaged}
                               /\ p \div BlockPages > n \div BlockPages =>
                                    card[p] = before.card[p]
      BY DEF RestoreInOrder
    <2>1. Writing \/ Checking \/ pc = "stop"
      BY DEF SessionInv, Kept, CardWritten
    <2>2. image[name].data = crc /\ Len(crc) = total /\ total # 0
      BY <2>1 DEF TypeInv, Roles, Sourced, Filing, Writing, Checking, In, Reading, JobInv, Restoring
    <2>3. SuperblockPages(before.card[0]) \in {0, total}
      BY <2>2 DEF SessionInv, Probing, Superblock
    <2> QED
      BY <2>2, <2>3 DEF JobInv, Restoring, Writing
  <1> QED
    BY <1>1, JobInvariance, PTL

(* A restore that reports success has written its image to every page but  *)
(* those of the batches the geometry probe left in the buffers.            *)
THEOREM RestoresVerified ==
  ASSUME SwapPoints \subseteq {"idle"}
  PROVE  Spec => []RestoreVerifiedPastProbe
  <1>1. JobInv => RestoreVerifiedPastProbe
    BY DEF JobInv, ReadingBack
  <1> QED
    BY <1>1, JobInvariance, PTL

(* MciCardForceFormatWithVmcBackup() and a verified export change a card   *)
(* only while a .vmc image holds every page that was to be captured.       *)
THEOREM FormatsKeepBackup ==
  ASSUME SwapPoints \subseteq {"idle"}
  PROVE  Spec => FormatKeepsBackup
  <1> DEFINE A == pc = "format" /\ card' # card =>
                    \E m \in Paths : /\ m[1] = "vmc"
                                     /\ image[m].data = Pages(card, total)
                                     /\ SuperblockPages(card[0]) \in {0, total}
  <1>1. TypeInv /\ SessionInv /\ JobInv => A
    <2> SUFFICES ASSUME TypeInv, SessionInv, JobInv, pc = "format"
                 PROVE  \E m \in Paths : /\ m[1] = "vmc"
                                         /\ image[m].data = Pages(card, total)
                                         /\ SuperblockPages(card[0]) \in {0, total}
      OBVIOUS
    <2>1. op = "format" /\ name \in Paths /\ name[1] = "vmc" /\ total # 0
      BY DEF TypeInv, Roles
    <2>2. image[name].data = Pages(card, total)
      BY DEF JobInv, Capturing
    <2>3. card = before.card
      BY <2>1 DEF SessionInv, Kept, CardWritten
    <2>4. SuperblockPages(card[0]) \in {0, total}
      BY <2>1, <2>3 DEF SessionInv, Probing, Superblock
    <2> QED
      BY <2>1, <2>2, <2>4
  <1>2. TypeInv /\ SessionInv /\ JobInv => [A]_vars
    BY <1>1
  <1>3. Spec => [](TypeInv /\ SessionInv /\ JobInv)
    BY JobInvariance
  <1> QED
    BY <1>2, <1>3, PTL DEF FormatKeepsBackup
=============================================================================
