---------------------------- MODULE RawBulkRead ----------------------------
(***************************************************************************)
(* Raw page reads of a Card Tools session: mcReadPage() and the batch      *)
(* cache of raw_bulk_read.c in front of it.  The private RPC reads an      *)
(* aligned batch of pages or nothing; the asynchronous build keeps one     *)
(* more batch in flight.  A session works on one port, so port and slot    *)
(* always match and are left out.  CompleteMcCommand() takes the synthetic *)
(* completion of a cached page right after it was posted, so Pending is    *)
(* FALSE whenever a command is issued and is left out too.                 *)
(*                                                                         *)
(* A page read is a subroutine: pc = "read" with the page in "want"; it    *)
(* ends at pc = back, with the page in "buf" and the result in "rc".       *)
(***************************************************************************)
EXTENDS Integers, Sequences

CONSTANTS
  Sizes,       \* page counts KnownPageCount() accepts
  Batch,       \* MCI_RAW_BULK_PAGES
  Builds,      \* values of MCI_RAW_BULK_ASYNC to check
  Other,       \* page contents that are neither superblock nor erased
  FaultKinds,  \* which faults the environment may inject
  MaxFaults    \* bound on the injected faults of one behaviour

(* What a page holds is abstracted to what the program tells apart: the    *)
(* superblock of a card of n pages is n, the rest are numbers below 1.     *)
(* Damaged stands for bytes that were changed on their way.                *)
Erased  == 0
Damaged == -1
Data == Sizes \cup {Erased, Damaged} \cup Other

ASSUME BatchAssumption == Batch \in Nat \ {0}
ASSUME SizesAssumption == Sizes \subseteq {n \in Nat \ {0} : n % Batch = 0}
ASSUME BuildsAssumption == Builds \subseteq BOOLEAN
ASSUME OtherAssumption == Other \subseteq Int /\ \A d \in Other : d < Damaged
ASSUME MaxFaultsAssumption == MaxFaults \in Nat

VARIABLES
  card,                       \* the pages of the card in the slot
  async,                      \* the build
  bound,                      \* Stats.bound
  cache, cur,                 \* CacheData/CacheMeta, CurrentCache
  limit,                      \* PageLimit, 0 when not known
  last,                       \* LastPage, NoPage when not LastPageValid
  flight,                     \* the NOWAIT request
  pc, back, want, buf, rc,    \* the page read in progress
  faults

bulk == <<bound, cache, cur, limit, last, flight>>
read == <<back, want, buf, rc>>

SuperblockPages(d) == IF d \in Sizes THEN d ELSE 0

NoPage   == -2
Nothing  == [p \in {} |-> Erased]
NoFlight == [state |-> "none", slot |-> 0, start |-> 0, pages |-> {}, got |-> Nothing]

Fault(kinds) ==
  /\ kinds \cap FaultKinds # {}
  /\ faults < MaxFaults
  /\ faults' = faults + 1
NoFault == UNCHANGED faults

-----------------------------------------------------------------------------
(* BatchStart(), BatchCount(): no batch reaches past a known page limit. *)
BatchStart(p) == (p \div Batch) * Batch
BatchPages(start, lim) ==
  {p \in start..(start + Batch - 1) : lim # 0 => p < lim}

(* CacheContains(CurrentCache, ...) *)
Hit(p) == cur >= 0 /\ p \in DOMAIN cache[cur]

FillSlot == IF async /\ cur >= 0 THEN 1 - cur ELSE 0

(* DrebinMcReadPages() in the raw MCSERV: every page of the batch. *)
Snapshot(pages) == [p \in pages |-> card[p]]

(* MaybeStartNext(): the batch after the current one, once reads are       *)
(* sequential and the end of the card is known.                            *)
NextSlotSame(s) == s
NextSlot(s) == 1 - s
NextStart(c) == 1 + CHOOSE p \in DOMAIN c : p + 1 \notin DOMAIN c
Prefetches(p, c, lim, fl) ==
  /\ async /\ last = p - 1
  /\ lim # 0 /\ NextStart(c) < lim
  /\ fl = NoFlight

(* The end of MciRawBulkReadTryPage(): page p is served from buffer s of   *)
(* the caches cch, while request fl is in flight.                          *)
Serve(p, cch, s, fl) ==
  LET lim   == IF p = 0 /\ limit = 0 THEN SuperblockPages(cch[s][0]) ELSE limit
      start == NextStart(cch[s])
  IN
  /\ buf' = cch[s][p] /\ rc' = "ok" /\ pc' = back
  /\ cur' = s /\ limit' = lim /\ last' = p
  /\ UNCHANGED <<back, want, card, async>>
  /\ \/ /\ ~Prefetches(p, cch[s], lim, fl)
        /\ cache' = cch /\ flight' = fl /\ NoFault /\ UNCHANGED bound
     \/ /\ Prefetches(p, cch[s], lim, fl)
        /\ cache' = [cch EXCEPT ![NextSlot(s)] = Nothing]
        /\ \/ /\ flight' = [state |-> "issued", slot |-> NextSlot(s), start |-> start,
                            pages |-> BatchPages(start, lim), got |-> Nothing]
              /\ NoFault /\ UNCHANGED bound
           \/ flight' = NoFlight /\ bound' = FALSE /\ Fault({"rpc"})

ReadHit ==
  /\ pc = "read" /\ bound /\ Hit(want)
  /\ Serve(want, cache, cur, flight)

(* FinishAsync(): the result is committed to its buffer; the buffer becomes *)
(* the current one only if it is the batch that is wanted.                 *)
ReadWaitKeepsFlight ==
  /\ pc = "read" /\ bound /\ ~Hit(want)
  /\ flight.state = "done"
  /\ cache' = [cache EXCEPT ![flight.slot] = flight.got]
  /\ NoFault /\ UNCHANGED <<card, async, bound, cur, limit, last, flight, pc, read>>
ReadWait ==
  /\ pc = "read" /\ bound /\ ~Hit(want)
  /\ flight.state = "done"
  /\ cache' = [cache EXCEPT ![flight.slot] = flight.got]
  /\ cur' = IF flight.start = BatchStart(want) /\ flight.got # Nothing
              THEN flight.slot ELSE cur
  /\ flight' = NoFlight
  /\ NoFault /\ UNCHANGED <<card, async, bound, limit, last, pc, read>>

(* FillCacheSync(): the whole batch, or the page RPC of libmc. *)
ReadFill ==
  LET pages == BatchPages(BatchStart(want), limit) IN
  /\ pc = "read" /\ bound /\ ~Hit(want)
  /\ flight = NoFlight /\ pages # {}
  /\ \/ /\ pages \subseteq DOMAIN card
        /\ Serve(want, [cache EXCEPT ![FillSlot] = Snapshot(pages)], FillSlot, flight)
     \/ /\ cache' = [cache EXCEPT ![FillSlot] = Nothing]
        /\ \/ ~(pages \subseteq DOMAIN card) /\ NoFault /\ UNCHANGED bound
           \/ Fault({"card"}) /\ UNCHANGED bound
           \/ Fault({"rpc"}) /\ bound' = FALSE
        /\ last' = NoPage
        /\ pc' = "direct"
        /\ UNCHANGED <<card, async, cur, limit, flight, read>>

ReadUnbatched ==
  /\ pc = "read" /\ NoFault
  /\ \/ ~bound /\ UNCHANGED last
     \/ /\ bound /\ ~Hit(want) /\ flight = NoFlight
        /\ BatchPages(BatchStart(want), limit) = {}
        /\ last' = NoPage
  /\ pc' = "direct"
  /\ UNCHANGED <<card, async, bound, cache, cur, limit, flight, read>>

(* __real_mcReadPage() *)
ReadDirect ==
  /\ pc = "direct"
  /\ \/ want \in DOMAIN card /\ buf' = card[want] /\ rc' = "ok" /\ NoFault
     \/ want \notin DOMAIN card /\ rc' = "io" /\ UNCHANGED buf /\ NoFault
     \/ Fault({"card"}) /\ rc' = "io" /\ UNCHANGED buf
  /\ pc' = back
  /\ UNCHANGED <<card, async, bulk, back, want>>

(* The IOP completes the outstanding request, at any moment. *)
IopBulk ==
  /\ flight.state = "issued"
  /\ \/ /\ flight.pages \subseteq DOMAIN card
        /\ flight' = [flight EXCEPT !.state = "done", !.got = Snapshot(flight.pages)]
        /\ NoFault
     \/ /\ flight' = [flight EXCEPT !.state = "done"]
        /\ \/ ~(flight.pages \subseteq DOMAIN card) /\ NoFault
           \/ Fault({"card"})
  /\ UNCHANGED <<card, async, bound, cache, cur, limit, last, pc, read>>

-----------------------------------------------------------------------------
ReadPage(p, cont) == pc' = "read" /\ want' = p /\ back' = cont /\ UNCHANGED <<buf, rc>>

(* MciRawBulkReadReset() *)
NoCache == [s \in {0, 1} |-> Nothing]
ResetKeepsPages ==
  /\ UNCHANGED cache /\ cur' = -1 /\ limit' = 0 /\ last' = NoPage
  /\ flight' = NoFlight
Reset ==
  /\ cache' = NoCache /\ cur' = -1 /\ limit' = 0 /\ last' = NoPage
  /\ flight' = NoFlight
ResetReads == want' = 0 /\ back' = "idle" /\ buf' = Erased /\ rc' = "ok"

ReadNext == ReadHit \/ ReadWait \/ ReadFill \/ ReadUnbatched \/ ReadDirect
=============================================================================
