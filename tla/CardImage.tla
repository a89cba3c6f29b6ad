----------------------------- MODULE CardImage -----------------------------
(***************************************************************************)
(* Card Tools: export, exact restore and backup-first format of a whole    *)
(* card (card_image.c, force_format_vmc.c), each in a raw session of its   *)
(* own (app_main.c), over the batch cache of RawBulkRead and the batched   *)
(* image writes of image_write_behind.c in the synchronous build.          *)
(*                                                                         *)
(* A CRC is modelled by the pages it was computed from.  An image is       *)
(* written and read through its descriptor in order, so a read returns     *)
(* what the file holds; the sidecar text file is left out, and so is the   *)
(* choice among the mass: roots.                                           *)
(***************************************************************************)
EXTENDS RawBulkRead, FiniteSets

CONSTANTS
  Names,          \* indices of UniqueImagePath(), lowest first
  WriteBatch,     \* MCI_IMAGE_WRITE_PAGES
  BlockPages,     \* pages of an erase block
  InitialCards,   \* contents a card may have
  InitialImages,  \* image files that may be on the stick
  SwapPoints,     \* where the user may exchange the card
  MaxSessions     \* bound on the Card Tools actions of one behaviour

Formats == {"ps2", "vmc"}
Paths   == Formats \X Names
NoPath  == <<"none", 0>>

ASSUME NamesAssumption == Names \subseteq Nat
ASSUME WriteBatchAssumption ==
  WriteBatch \in Nat \ {0} /\ \A n \in Sizes : n % WriteBatch = 0
ASSUME BlockAssumption == BlockPages \in Nat \ {0}
ASSUME MaxSessionsAssumption == MaxSessions \in Nat

NoImage == [exists |-> FALSE, data |-> <<>>]
Image == [exists : BOOLEAN, data : Seq(Data)]
ASSUME InitialCardsAssumption == InitialCards \subseteq UNION {[0..(k - 1) -> Data] : k \in Sizes}
ASSUME InitialImagesAssumption == InitialImages \subseteq [Paths -> Image]

VARIABLES
  image,                  \* USB: the image files
  op, fmt, name,          \* the operation, its format and its image
  total, n,               \* total_pages; page, or candidate page count
  crc, seen,              \* pages under crc/expected_crc and actual_crc
  batch,                  \* Slots[FillSlot]: records not yet written
  report,                 \* MciCardImageReport
  before,                 \* history: card, images and faults when the session began
  sessions                \* history: sessions started

job  == <<op, fmt, name, total, n, crc, seen, batch, report, sessions>>
vars == <<card, async, bulk, pc, read, faults, image, job, before>>

NoReport == [result |-> "-", verified |-> FALSE]
World(c, i) == [card |-> c, image |-> i, faults |-> faults]

(* How a step leaves the raw session alone. *)
Quiet == UNCHANGED <<async, bulk, read>>
Goto(p) == pc' = p

Report(r) == report' = [result |-> r, verified |-> r = "ok"]
Fails(r) == Goto("stop") /\ Report(r)

-----------------------------------------------------------------------------
(* MciCardImageVerifyFile(): page count, .ps2 spare bytes, superblock; the *)
(* whole file is read.                                                     *)
Accepted(m) ==
  LET data == image[m].data IN
  /\ image[m].exists /\ Len(data) \in Sizes
  /\ m[1] = "ps2" => \A p \in DOMAIN data : data[p] # Damaged
  /\ SuperblockPages(data[1]) \in {0, Len(data)}

(* A dashboard action starts a raw session of its own.  Without the bulk   *)
(* RPC pages are read one by one; without the card stack or the stick the  *)
(* engine is not called at all.                                            *)
Start ==
  /\ pc = "idle" /\ sessions < MaxSessions /\ sessions' = sessions + 1
  /\ op' \in {"export", "restore", "format"}
  /\ fmt' \in IF op' = "format" THEN {"vmc"} ELSE Formats
  /\ name' \in IF op' = "restore"
                 THEN {m \in Paths : m[1] = fmt' /\ image[m].exists} ELSE {NoPath}
  /\ \/ /\ Goto(IF op' = "restore" THEN "source" ELSE "info")
        /\ \/ bound' = TRUE /\ NoFault
           \/ bound' = FALSE /\ Fault({"rpc"})
     \/ Goto("stop") /\ bound' = FALSE /\ Fault({"usb"})
  /\ report' = NoReport /\ before' = World(card, image)
  /\ Reset
  /\ UNCHANGED <<total, n, crc, seen, batch, card, async, read, image>>

(* MciCardImageRestoreExact(): the source is verified first. *)
Source ==
  /\ pc = "source"
  /\ \/ /\ Accepted(name)
        /\ crc' = image[name].data /\ Goto("info") /\ NoFault /\ UNCHANGED report
     \/ /\ ~Accepted(name) /\ NoFault
        /\ Fails("verify") /\ UNCHANGED crc
     \/ Fault({"usb"}) /\ Fails("verify") /\ UNCHANGED crc
  /\ Quiet
  /\ UNCHANGED <<card, image, op, fmt, name, total, n, seen, batch, before, sessions>>

-----------------------------------------------------------------------------
(* MciCardImageProbeGeometry() *)

Info ==
  /\ pc = "info"
  /\ \/ ReadPage(0, "probe") /\ NoFault /\ UNCHANGED report
     \/ Fault({"card"}) /\ Fails("geometry") /\ UNCHANGED read
  /\ UNCHANGED <<card, async, bulk, image, op, fmt, name, total, n, crc, seen, batch, before, sessions>>

(* Page counts tried on a card without superblock, largest first. *)
Tries(t, rest) == t \in rest /\ \A o \in rest : o <= t
Smaller(t) == {s \in Sizes : s < t}

Known(t) ==
  /\ total' = t /\ n' = 0
  /\ IF op # "restore" THEN Goto("create") /\ UNCHANGED report
     ELSE IF t # Len(crc) THEN Fails("size")
     ELSE Goto("erase") /\ UNCHANGED report

Probe ==
  /\ pc = "probe"
  /\ \/ /\ rc = "io"
        /\ Fails("geometry") /\ UNCHANGED <<total, n, read>>
     \/ /\ rc = "ok" /\ SuperblockPages(buf) # 0
        /\ Known(SuperblockPages(buf)) /\ UNCHANGED read
     \/ /\ rc = "ok" /\ SuperblockPages(buf) = 0
        /\ \E t \in Sizes : Tries(t, Sizes) /\ n' = t /\ ReadPage(t - 1, "candidate")
        /\ UNCHANGED <<total, report>>
  /\ NoFault
  /\ UNCHANGED <<card, async, bulk, image, op, fmt, name, crc, seen, batch, before, sessions>>

Candidate ==
  /\ pc = "candidate"
  /\ \/ rc = "ok" /\ Known(n) /\ UNCHANGED read
     \/ /\ rc = "io"
        /\ \E t \in Smaller(n) :
             Tries(t, Smaller(n)) /\ n' = t /\ ReadPage(t - 1, "candidate")
        /\ UNCHANGED <<total, report>>
     \/ /\ rc = "io" /\ Smaller(n) = {}
        /\ Fails("geometry") /\ UNCHANGED <<total, n, read>>
  /\ NoFault
  /\ UNCHANGED <<card, async, bulk, image, op, fmt, name, crc, seen, batch, before, sessions>>

-----------------------------------------------------------------------------
(* MciCardImageExport() *)

(* UniqueImagePath(): the first name whose stat fails, because there is no *)
(* such file or for any other reason.                                      *)
Numbered == {m \in Paths : m[1] = fmt}
FreeAny(m) == (\A o \in Numbered : m[2] <= o[2]) /\ NoFault
Free(m) ==
  /\ \A o \in Numbered : o[2] < m[2] => image[o].exists
  /\ \/ ~image[m].exists /\ NoFault
     \/ image[m].exists /\ Fault({"usb"})

(* The open neither demands a new file nor truncates one that exists.      *)
Create ==
  /\ pc = "create"
  /\ \/ /\ \E m \in Numbered : Free(m) /\ name' = m
        /\ image' = [image EXCEPT ![name'].exists = TRUE]
        /\ Goto("capture") /\ UNCHANGED report
     \/ /\ \A m \in Numbered : image[m].exists
        /\ NoFault /\ Fails("usb") /\ UNCHANGED <<name, image>>
     \/ Fault({"usb"}) /\ Fails("usb") /\ UNCHANGED <<name, image>>
  /\ Quiet /\ UNCHANGED <<card, op, fmt, total, n, crc, seen, batch, before, sessions>>

Capture ==
  /\ pc = "capture" /\ NoFault
  /\ IF n < total THEN ReadPage(n, "record") ELSE Goto("close") /\ UNCHANGED read
  /\ UNCHANGED <<card, async, bulk, image, job, before>>

(* A full batch is written (FlushFullSlot()): as a whole, up to an error,  *)
(* or with a record damaged on its way; part is what of batch b arrives.   *)
FullLate(b) == Len(b) > WriteBatch
Full(b) == Len(b) = WriteBatch
Overwrite(data, k, part) == SubSeq(data, 1, k) \o part \o SubSeq(data, k + Len(part) + 1, Len(data))
Written(b, part) == [image EXCEPT ![name].data = Overwrite(@, n + 1 - Len(b), part)]
WrittenInPart(b) == {Written(b, SubSeq(b, 1, r)) : r \in 0..(Len(b) - 1)}

(* Every exit from the capture loop closes the file, which drops the       *)
(* batch, and removes it; that the removal may fail is not looked at.      *)
Removed == [image EXCEPT ![name] = NoImage]
Abandon(r) == batch' = <<>> /\ Fails(r) /\ UNCHANGED n

Record ==
  /\ pc = "record"
  /\ \/ /\ rc = "io" /\ Abandon("read") /\ UNCHANGED crc
        /\ \/ image' = Removed /\ NoFault
           \/ Fault({"usb"}) /\ UNCHANGED image
     \/ LET b == Append(batch, buf) IN
        /\ rc = "ok"
        /\ crc' = Append(crc, buf)
        /\ \/ /\ n' = n + 1 /\ Goto("capture") /\ UNCHANGED report
              /\ \/ ~Full(b) /\ batch' = b /\ UNCHANGED image /\ NoFault
                 \/ Full(b) /\ batch' = <<>> /\ image' = Written(b, b) /\ NoFault
                 \/ /\ Full(b) /\ batch' = <<>> /\ Fault({"silent"})
                    /\ \E r \in DOMAIN b : image' = Written(b, [b EXCEPT ![r] = Damaged])
           \/ /\ Full(b) /\ Fault({"usb"}) /\ Abandon("usb")
              /\ image' \in {Removed} \cup WrittenInPart(b)
  /\ Quiet /\ UNCHANGED <<card, op, fmt, name, total, seen, before, sessions>>

(* __wrap_fileXioClose() drops what is left of a batch. *)
Close ==
  /\ pc = "close" /\ batch' = <<>>
  /\ \/ Goto("compare") /\ NoFault /\ UNCHANGED report
     \/ Fault({"usb"}) /\ Fails("usb")
  /\ Quiet /\ UNCHANGED <<card, image, op, fmt, name, total, n, crc, seen, before, sessions>>

(* The file is verified and its CRC compared with that of the capture. *)
MatchesUnread == Accepted(name)
Matches == Accepted(name) /\ image[name].data = crc
Compare ==
  /\ pc = "compare"
  /\ \/ /\ Matches /\ NoFault
        /\ Report("ok") /\ Goto(IF op = "format" THEN "format" ELSE "stop")
     \/ ~Matches /\ NoFault /\ Fails("verify")
     \/ Fault({"usb"}) /\ Fails("verify")
  /\ Quiet /\ UNCHANGED <<card, image, op, fmt, name, total, n, crc, seen, batch, before, sessions>>

(* MciCardForceFormatWithVmcBackup(): mcFormat() may fail half way. *)
Formatted(c) == [p \in DOMAIN c |-> IF p = 0 THEN Cardinality(DOMAIN c) ELSE Erased]
Format ==
  /\ pc = "format" /\ Goto("stop")
  /\ \/ card' = Formatted(card) /\ NoFault /\ Report("ok")
     \/ /\ Fault({"card"}) /\ report' = [report EXCEPT !.result = "format"]
        /\ card' \in {card, [card EXCEPT ![0] = Erased]}
  /\ Quiet /\ UNCHANGED <<image, op, fmt, name, total, n, crc, seen, batch, before, sessions>>

-----------------------------------------------------------------------------
(* The rest of MciCardImageRestoreExact() *)

BlockAfter(p) == {q \in DOMAIN card : q \div BlockPages = 1 + p \div BlockPages}
Block(p) == {q \in DOMAIN card : q \div BlockPages = p \div BlockPages}
Cleared(pages) == [p \in DOMAIN card |-> IF p \in pages THEN Erased ELSE card[p]]

Erase ==
  /\ pc = "erase"
  /\ \/ /\ n = total /\ NoFault
        /\ n' = 0 /\ Goto("readback") /\ UNCHANGED <<card, report>>
     \/ /\ n < total /\ n % BlockPages # 0 /\ NoFault
        /\ Goto("program") /\ UNCHANGED <<card, n, report>>
     \/ /\ n < total /\ n % BlockPages = 0 /\ n \in DOMAIN card /\ NoFault
        /\ card' = Cleared(Block(n)) /\ Goto("program") /\ UNCHANGED <<n, report>>
     \/ /\ n < total /\ n % BlockPages = 0
        /\ \/ Fault({"card"}) /\ card' \in {card, Cleared(Block(n))}
           \/ n \notin DOMAIN card /\ NoFault /\ UNCHANGED card
        /\ Fails("write") /\ UNCHANGED n
  /\ Quiet /\ UNCHANGED <<image, op, fmt, name, total, crc, seen, batch, before, sessions>>

(* One page is read from the image and programmed.  The page may be        *)
(* damaged on either way without an error; .ps2 spare bytes show the first.*)
Program ==
  /\ pc = "program"
  /\ n \in DOMAIN card
  /\ \/ /\ card' = [card EXCEPT ![n] = image[name].data[n + 1]]
        /\ n' = n + 1 /\ Goto("erase") /\ NoFault /\ UNCHANGED report
     \/ /\ Fault({"silent"}) /\ card' = [card EXCEPT ![n] = Damaged]
        /\ n' = n + 1 /\ Goto("erase") /\ UNCHANGED report
     \/ fmt = "ps2" /\ Fault({"silent"}) /\ Fails("verify") /\ UNCHANGED <<card, n>>
     \/ Fault({"usb"}) /\ Fails("usb") /\ UNCHANGED <<card, n>>
     \/ /\ Fault({"card"}) /\ Fails("write") /\ UNCHANGED n
        /\ card' \in {card, [card EXCEPT ![n] = Damaged]}
  /\ Quiet /\ UNCHANGED <<image, op, fmt, name, total, crc, seen, batch, before, sessions>>

RestoredLength == Len(seen) = Len(crc)
Restored == seen = crc
Readback ==
  /\ pc = "readback" /\ NoFault
  /\ IF n < total
       THEN ReadPage(n, "check") /\ UNCHANGED report
       ELSE Fails(IF Restored THEN "ok" ELSE "verify") /\ UNCHANGED read
  /\ UNCHANGED <<card, async, bulk, image, op, fmt, name, total, n, crc, seen, batch, before, sessions>>

Check ==
  /\ pc = "check" /\ NoFault
  /\ \/ rc = "io" /\ Fails("verify") /\ UNCHANGED <<n, seen>>
     \/ /\ rc = "ok" /\ seen' = Append(seen, buf) /\ n' = n + 1
        /\ Goto("readback") /\ UNCHANGED report
  /\ Quiet /\ UNCHANGED <<card, image, op, fmt, name, total, crc, batch, before, sessions>>

-----------------------------------------------------------------------------
(* MciRawCardSessionStop(): the request in flight is waited for before the *)
(* IOP is reset; the report is shown.                                      *)
Leave ==
  /\ Goto("idle") /\ bound' = FALSE /\ Reset /\ ResetReads
  /\ op' = "none" /\ fmt' = "vmc" /\ name' = NoPath /\ total' = 0 /\ n' = 0
  /\ crc' = <<>> /\ seen' = <<>> /\ batch' = <<>> /\ report' = NoReport
  /\ before' = World(card, image)
  /\ UNCHANGED <<card, async, image, sessions>>

Stop == pc = "stop" /\ flight.state # "issued" /\ NoFault /\ Leave

(* Power is lost and comes back: card and stick keep what they hold. *)
PowerCut == pc # "idle" /\ Fault({"power"}) /\ Leave

SwapCard ==
  /\ pc \in SwapPoints
  /\ card' \in InitialCards
  /\ before' = IF pc = "idle" THEN World(card', image) ELSE before
  /\ NoFault
  /\ UNCHANGED <<async, bulk, pc, read, image, job>>

Init ==
  /\ card \in InitialCards /\ image \in InitialImages
  /\ faults = 0 /\ before = World(card, image)
  /\ async \in Builds
  /\ bound = FALSE /\ cache = NoCache /\ cur = -1 /\ limit = 0
  /\ last = NoPage /\ flight = NoFlight
  /\ pc = "idle" /\ want = 0 /\ back = "idle" /\ buf = Erased /\ rc = "ok"
  /\ op = "none" /\ fmt = "vmc" /\ name = NoPath
  /\ total = 0 /\ n = 0 /\ crc = <<>> /\ seen = <<>> /\ batch = <<>>
  /\ report = NoReport
  /\ sessions = 0

ReadCard == ReadNext /\ UNCHANGED <<image, job, before>>
IopStep  == IopBulk /\ UNCHANGED <<image, job, before>>

Engine ==
  \/ Source \/ Info \/ Probe \/ Candidate
  \/ Create \/ Capture \/ Record \/ Close \/ Compare \/ Format
  \/ Erase \/ Program \/ Readback \/ Check
  \/ Stop
  \/ ReadCard

Next == Start \/ Engine \/ IopStep \/ PowerCut \/ SwapCard

Spec == Init /\ [][Next]_vars

(* The EE keeps running the operation and the IOP answers its requests. *)
FairSpec == Spec /\ WF_vars(Engine) /\ WF_vars(IopStep)
=============================================================================
