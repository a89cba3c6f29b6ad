-------------------------- MODULE CardImageSafety --------------------------
(***************************************************************************)
(* What the Card Tools promise of the cards they read, write and format.   *)
(***************************************************************************)
EXTENDS CardImage

Pages(c, k) == [p \in 1..k |-> c[p - 1]]
Capacity(c) == Cardinality(DOMAIN c)

(* Every variable has its type: a buffer holds pages of one batch, the     *)
(* page read returns to a step of the engine, and a full write batch is    *)
(* written before another record joins it.                                 *)
CardType == card \in UNION {[0..(k - 1) -> Data] : k \in Sizes}
BatchType(c) ==
  /\ \A p \in DOMAIN c : p \in Nat /\ c[p] \in Data
  /\ \A p, q \in DOMAIN c : BatchStart(p) = BatchStart(q)
TypeOK ==
  /\ CardType
  /\ bound \in BOOLEAN /\ async \in Builds
  /\ cur \in {-1, 0, 1} /\ limit \in Sizes \cup {0} /\ last \in Nat \cup {NoPage}
  /\ DOMAIN cache = {0, 1} /\ \A s \in {0, 1} : BatchType(cache[s])
  /\ flight.state \in {"none", "issued", "done"} /\ BatchType(flight.got)
  /\ back \in {"idle", "probe", "candidate", "record", "check"}
  /\ want \in Nat /\ buf \in Data /\ rc \in {"ok", "io"}
  /\ \A m \in Paths : image[m].data \in Seq(Data)
  /\ total \in Sizes \cup {0} /\ n \in Nat
  /\ crc \in Seq(Data) /\ seen \in Seq(Data) /\ batch \in Seq(Data)
  /\ Len(batch) < WriteBatch

-----------------------------------------------------------------------------
(* While the card is as it was when the session began, every cached page   *)
(* and every page on its way is the card's: a page of an earlier session,  *)
(* of another card or of a failed batch is never served.                   *)
CacheFresh ==
  (pc # "idle" /\ card = before.card) =>
    \A c \in {cache[0], cache[1], flight.got} :
      \A p \in DOMAIN c : p \in DOMAIN card /\ c[p] = card[p]

(* The IOP writes a batch into a buffer that is not the one pages are      *)
(* being copied from, and no request outlives the raw session.             *)
PrefetchOwnsItsBuffer ==
  flight # NoFlight =>
    /\ flight.slot # cur /\ cache[flight.slot] = Nothing
    /\ pc # "idle"

(* An export that reports success leaves an image of as many pages as it   *)
(* took the card to have, from the first on, on the stick, as the card was *)
(* when the session began.  Whether these are all its pages is another     *)
(* question (FormatKeepsWholeCard).                                        *)
ExportFaithful ==
  (pc = "stop" /\ op = "export" /\ report.verified) =>
    image[name] = [exists |-> TRUE, data |-> Pages(before.card, total)]

(* mcFormat() and a verified export change a card of which a verified      *)
(* .vmc image holds every page that was to be captured.                    *)
FormatKeepsBackup ==
  [][(pc = "format" /\ card' # card) =>
       \E m \in Paths : /\ m[1] = "vmc"
                        /\ image[m].data = Pages(card, total)
                        /\ SuperblockPages(card[0]) \in {0, total}]_vars

(* The same, of the whole card: "Force format is locked until a complete   *)
(* .vmc logical recovery image is written, reopened and CRC-verified".     *)
FormatKeepsWholeCard ==
  [][(pc = "format" /\ card' # card) =>
       \E m \in Paths : image[m].data = Pages(card, Capacity(card))]_vars

(* A restore changes a card only when the image it verified is as long as  *)
(* the card's own page count; blocks it has not reached keep their pages   *)
(* and every page before the current one was written from the image.       *)
RestoreInOrder ==
  (pc # "idle" /\ op = "restore") =>
    \/ card = before.card
    \/ /\ image[name].data = crc /\ Len(crc) = total
       /\ SuperblockPages(before.card[0]) \in {0, total}
       /\ pc \in {"erase", "program"} =>
            \A p \in DOMAIN card :
              /\ p < n => card[p] \in {crc[p + 1], Damaged}
              /\ p \div BlockPages > n \div BlockPages => card[p] = before.card[p]

(* Neither an export nor an unfinished backup writes to the card, and no   *)
(* Card Tool changes or removes an image of an earlier session.  The one   *)
(* exception: when a device failed in this session, an export or a         *)
(* backup may have taken the name of an earlier image for free (any stat   *)
(* that fails says so, card_image.c:261); it then writes over that image,  *)
(* removes it if it fails later, and touches no other.                     *)
OthersKept ==
  pc # "idle" =>
    /\ card = before.card \/ op = "restore" \/ (op = "format" /\ pc = "stop")
    /\ \A m \in Paths :
         before.image[m].exists =>
           \/ image[m] = before.image[m]
           \/ m = name /\ op # "restore" /\ faults > before.faults

(* A restore that reports success has written its image to every page but  *)
(* those of a batch that was read before the card was written: the batch   *)
(* of page 0 and, on a card without superblock, the batch of its last      *)
(* page, which the geometry probe leaves in the current buffer and failing *)
(* batch reads do not replace.                                             *)
Probed(p) == p < Batch \/ (SuperblockPages(before.card[0]) = 0 /\ p >= total - Batch)
RestoreVerifiedPastProbe ==
  (pc = "stop" /\ op = "restore" /\ report.verified) =>
    \A p \in DOMAIN card : p < total /\ ~Probed(p) => card[p] = image[name].data[p + 1]

(* "Every destination page was read back and the card CRC matches the      *)
(* source image": a restore that reports success has restored every page.  *)
RestoreVerified ==
  (pc = "stop" /\ op = "restore" /\ report.verified) =>
    Pages(card, total) = image[name].data

(* Whatever fails, a Card Tool returns to the menu.                        *)
OperationEnds == pc # "idle" ~> pc = "idle"
=============================================================================
