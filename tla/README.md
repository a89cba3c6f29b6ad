# Drebin (PS2 MagicGate Inspector): verification

Drebin is a PlayStation 2 homebrew program for memory cards. It inspects a card, installs the FMCB package on
it, images, restores and formats whole cards, and moves saves between cards, images and USB. It runs in one
thread on the EE and calls services of the IOP (memory card, USB mass storage) by RPC. What makes it hard is
what it changes outside itself: a memory card and a USB stick, over minutes, while the user may cut the power,
pull the stick or exchange the card. The questions asked here are about those two devices: what they hold after
any sequence of steps, faults and restarts, and what the program then says about them.

`PROJECT.json` lists the components, the lines each definition translates, the runs, the hazards, the findings
and the theorems. This file explains them. Paths below are those of the repository.

## 1. Inventory

| Component (source) | State | Operations | What makes it correct |
|---|---|---|---|
| Recovery journal (`src/fmcb_recovery.c`) | `journal0.bin`, `journal1.bin`, backups `bNN.bin` on USB; the status copy in RAM | Begin, record directory, capture, commit, run, discard, probe | Every destination that differs from its pre-install content has that content in the newest valid journal, and its backup |
| Marker and token (`src/fmcb_recovery_marker.c`) | `card-token.bin` on USB, marker file on the card | arm, check, clear, discard; the linker wrappers of Begin, Run, Finish, Probe | Only the armed card is ever written; a commit is visible to everybody or nobody |
| Transactional installer (`src/fmcb_transaction.c`) | locals of one call: inventory, options | one installation, its verification and its rollback | All or nothing; a commit means every destination is installed |
| Dashboard (`src/app_main.c`, `src/app_main_v2.c`) | the last status | install, recover, refresh, Card Tools | Never says that nothing is pending while something is |
| Page batch cache (`src/raw_bulk_read.c`) | two buffers, page limit, NOWAIT request | read page, drain, reset, bind | Serves the card in the slot, as it is now |
| Card images (`src/card_image.c`, `src/force_format_vmc.c`) | files on USB, the card | probe, export, verify, restore, format | A verified image is the card; a restore leaves the image on the card; a format has its backup |
| Image write-behind, read-ahead (`src/image_write_behind.c`, `src/image_read_ahead.c`) | slots and buffers keyed by descriptor | write, reserve, commit, close; read, seek | The file is the sequence of records, the stream is the file |
| Diagnostic logger (`src/diag_log.c`, `src/diag_wrap.c`) | ring of lines, pause depth, attachment | log, flush, pause, attach | No log write while an image is open; lines kept in order |
| IOP personalities (`src/card_raw_session.c`, `src/magicgate_session.c`) | modules in the IOP, shim flags on the EE | start, stop, reset | Flags and modules agree; no reset under a request |
| Image file system, save transfer (`src/card_image_fs.c`, `src/save_transfer*.c`) | created paths; the .psu files | import, export, rollback | A failed import leaves what was there, PASS means all of it; an export equals the card and, if the stick says rightly which names are taken, spares the other files |
| Settings, KELF cache, hot swap | a file; one entry; none | save, load; lookup; probe | A cut leaves old or new settings, or in the gap of the rename the new ones under the temporary name; no stale binary |
| MagicGate, discovery, inspection, mathematics, user interface, scripts | none that persists | read and compute | left out, see section 10 |

How they interact. The dashboard calls one operation at a time and waits for it. The installer calls the journal
through linker wrappers that add the token; both write the same two devices, the journal only USB, the installer
and the rollback also the card. A Card Tools action tears the IOP down, starts a raw session, runs the image
engine and tears the session down; the engine reads pages through the batch cache, which a linker wrapper puts
in front of `mcReadPage` (but not of `mcWritePage` and `mcEraseBlock`), and writes its file through the
write-behind layer. The only true concurrency is an RPC issued with NOWAIT: the IOP fills a buffer while the EE
goes on. Failures are those of the devices, and a power cut, after which only the devices remain.

## 2. Plan

1. *(done)* `FmcbJournal`, `FmcbRecovery`, `FmcbTransaction`: the transaction, with power cuts, device faults and
   exchanged cards; `AtomicInstall` is what it promises. All the invariants and `OnlyArmedCardWritten` are proved, and
   the refinement of `AtomicInstall` as far as it holds.
2. *(done)* `RawBulkRead`, `CardImage`: the image pipeline over the page cache. All the safety properties are proved.
3. *(done)* `FileXio`, `WriteBehind`, `ReadAhead`, `DiagLog`, composed in `ImageStream`: the record streams of all three
   builds and the log beside them; `RecordStream` is what a stream of writes promises. The refinement and all the
   safety properties are proved.
4. *(done)* `SaveMedia`, `SaveImport`, `PsuTransfer`, `SettingsFile`, `KelfBinding`, composed in `CardTools`: the tools
   for saves, settings and KELF files as one program. All their properties but the liveness are proved.
5. The shim flags of the two IOP sessions, once the modules they stand for can be read.

Proof modules keep clear of recursive operators.

## 3. The installer: modules and correspondence

`FmcbJournal` is the on-disk journal: a record with a state, a generation `seq` and one entry per destination, plus
torn and absent slots; `SlotOf` is `sequence & 1` and `LatestOf` is `LoadLatestJournal()`.

`FmcbRecovery` has the operations. One step changes at most one durable object, so that a cut falls between any two:
opening a file for writing truncates it (a torn slot, an absent backup), writing it is another step. Functions with
several callers (`SaveJournal`, `RemoveRecoveryFiles`, the two that clear the token) are run by their own actions;
`k`, `by` and `goal` are the return addresses. `FmcbTransaction` has the installer from the inventory to the commit,
the dashboard's three entries (`UiInstall`, `UiRecover`, `UiRefresh`), `PowerCut`, `Boot` and `SwapCard`.

| Variable | Code |
|---|---|
| `slot`, `backup`, `token` | `journal0/1.bin`, `bNN.bin`, `card-token.bin` |
| `file`, `dir`, `marker`, `inserted` | files, directories and marker of each card; the card in the slot |
| `status` | `RecoveryStatus` of the dashboard |
| `jr`, `i`, `err`, `inv`, `opt` | locals: journal in RAM, loop index, `first_error`, inventory, options |
| `rc` | class of the last result of `FmcbRecoveryRun()` |
| `hist` | history of the armed transaction: its card and what that card held |

Contents are "absent", "empty", "old", "new" or damaged; that is what the properties tell apart. Tokens come from the
system timer and are taken to be distinct. One file system stands for the three `mass:` roots.

Properties (`FmcbSafety`): `Recoverable`, `OnlyArmedCardWritten`, `SaveKeepsNewest`, `CommitMeansInstalled`,
`ReportedRestored`, `PendingShown`, `DirectoriesKept`, the refinement `InstallIsAtomic` and the liveness property
`RecoveryCompletes`; each is stated in words beside its definition.

The refinement maps `contents` to the *logical* contents of a card: while a journal stands and the card carries its
token, a destination counts as holding what the journal would restore, and otherwise what it holds. Under that
mapping an installation is one step, the one that makes the COMMITTED journal complete; everything before it, every
rollback and every cut are stutters.

## 4. Card images: modules and correspondence

`RawBulkRead` is one page read, as a subroutine (`pc = "read"`, ends at `back` with `buf` and `rc`), over `cache` (both
buffers, each a partial function from pages), `cur` (`CurrentCache`), `limit` (`PageLimit`), `last` (`LastPage`) and
`flight` (the NOWAIT request, completed by `IopBulk` at any moment). `async` chooses the build: without it there is one
buffer and no request in flight. The synthetic completion of a cached page is taken by the caller right after the
command, so it is part of the read.

`CardImage` is a session: `Start`, the geometry probe (`Info`, `Probe`, `Candidate`), export (`Create`, `Capture`, `Record`,
`Close`, `Compare`), `Format`, restore (`Source`, `Erase`, `Program`, `Readback`, `Check`) and `Stop`. A page holds an
integer: the superblock of a card of n pages is n, `Erased` is 0, `Damaged` is -1, other contents are below. The spare
bytes of a .ps2 page reveal a damaged page, those of a .vmc page do not exist. A CRC is the sequence of the pages it
was computed from, so a collision is not modelled. The write-behind layer appears as its synchronous build: records
gather in `batch` and the one that fills it writes it; the asynchronous ones are in `ImageStream`. A cut or a failure leaves partial files as the code does.
The name of a new image (`Free`) is the first number whose stat fails, because there is no such file or because the call
failed; the file is then opened without truncation, so batches are laid over what is there (`Overwrite`), and is removed
when the operation fails later.
The probe of a card without superblock tries the candidate sizes from the largest down (`Tries`), and the first whose last
page can be read is taken for its size. `InitialImages` are the files that may be on the stick before the first session.

Properties (`CardImageSafety`): `CacheFresh`, `PrefetchOwnsItsBuffer`, `ExportFaithful`, `FormatKeepsBackup`,
`RestoreInOrder`, `OthersKept`, `RestoreVerifiedPastProbe`, and `OperationEnds` (liveness). `RestoreVerifiedPastProbe` leaves out
the pages whose batch the probe may have left in the cache (`Probed`): the batch of page 0, which the `restore` finding is
about, and on a card without superblock also the batch of the last page of the size that was found. The proof attempt
showed the second case, which the bounds of the runs do not reach. `OthersKept` leaves out one image: when a call failed in the
session, the number of an export or a backup may be that of an earlier image (`card_image.c:261`), which is then overwritten
or removed. No other image is, and without a failure none. `ExportFaithful` speaks of the pages of the size that was found;
whether that is the whole card is the question of `FormatKeepsWholeCard` (`truncated`).

## 5. Record streams and the log: modules and correspondence

`FileXio` is the client of the IOP's file server: one descriptor, one block mode for all callers, one request accepted in
NOWAIT mode, served by `IopServe` at any moment or by the next call that waits. A call is a set of outcomes, so that a
function of the code is an operator from a world to the worlds it may leave, and one action is one call of the engine.
`WriteBehind` (`wb`) and `ReadAhead` (`ra`) are the linker wrappers around it, `build` chooses among the synchronous build
and the two asynchronous ones. Data is counted in units, two to a record, so that a short transfer can end inside a record.

`DiagLog` (`log`) is the ring of pending lines, the log file, the attachment and the depth of the pause. A line is its
number; the notice of an overflow takes a number of its own, which `notices` remembers.

`ImageStream` runs an operation as a script, the calls that `diag_wrap.c`, `card_image.c` and the raw session make in order:
export, backup-first format, restore, and the verification of a file with the mismatch locator after it. What the engine
calls is skipped once something failed; what ends a scope always runs. Lines are also logged from inside an operation.

| Variable | Code |
|---|---|
| `fx` | block mode, request, descriptor and its position, the image file |
| `wb` | enable depth, the slots and their fill, the slot in flight, the descriptor they belong to |
| `ra` | enable depth, slots with length and offset, the slot being consumed, `ActiveFd`, `ActiveStride` |
| `log` | the statics of `diag_log.c` and the log file |
| `op` | the script left to do, the first error, the records delivered |

Properties (`StreamSafety`): the refinement `StreamImplements` (the batch keeps the contract of a plain stream of writes:
at every moment the file is a beginning of the records accepted, and a close that succeeds has them all),
`AsyncOwnsItsBuffer`, `WaitBetweenImages`, `ReadFaithful`, `FormatOnlyWithImage`, `LogAlone`, `NoSilentLoss`, `LogInOrder`
and `OpEnds` (liveness).

The client of the file server has one completion state for all its calls, and an open leaves its descriptor there (`fx.last`,
`Answers`). This is the assumption of `FileXio` that is not in the repository; `image_read_ahead.c` relies on the state of the
last call being the one it waits for. In the build that prefetches reads it is not: a verification leaves a prefetch at the
end of the file outstanding, close and open wait it out, and `FinishAsync` then takes the descriptor for the number of bytes in
the buffer, which holds an older refill. So a restore starts with that many stale units and goes on with the file from its
beginning. `ReadFaithful` states this exception for that build and that call, and that nothing is skipped or repeated after
the stale units; every other stream is the file from its first unit. What the code then does is in `Program`: a wrong spare ends
a .ps2 restore after the first block was erased (-21), a .vmc restore writes the shifted pages and reports -22 after it read
the card back. The release build does not prefetch.

## 6. Saves, settings and KELF files: modules and correspondence

`SaveMedia` has the cards as trees of objects, the card commands as sets of outcomes (each may fail; a write may be
reported done and store something else) and `job`, the record of the import or export in hand. `SaveImport` is the
browser and the recursive import from a card image, `PsuTransfer` the import and the export of a .psu container,
`SettingsFile` the save and the load of the settings, `KelfBinding` the KELF cache, the preflight that binds each source
to the card and the transaction that looks the bound bytes up. `CardTools` composes them under the main loop: one tool
after another (`plan`), a card pulled at any time, one put in while the program waits, a power cut and a boot.

| Variable | Code |
|---|---|
| `op`, `job.pc` | the tool that runs and where it is |
| `card`, `inserted` | the objects of each card; the card in the port |
| `job.todo`, `job.stack`, `job.path` | selected saves, the walk of the directories, the file being copied |
| `job.created`, `job.full` | the paths `RecordCreated()` noted; an object did not fit |
| `job.before`, `job.want`, `job.kept`, `job.begun` | history: the card and the stick before, what the card is to hold, the failures before the name of an export was chosen |
| `psu` | the .psu files of the stick |
| `file`, `temp`, `disk` | the settings file, its temporary, and what a cut may leave of both |
| `cache`, `pre`, `known`, `sizes` | `CachedPath/Data`, `PreboundKelfs`, the remembered package root and its sizes |
| `package`, `wrote` | the KELF files of the stick; what the transaction wrote |

Abstractions. There is one port. Free room is counted in objects. A `mkdir` or create that reports a failure has made
nothing. The stick applies writes in order, so that a cut leaves some state since the last sync that worked. The files of a
container are copied in any order. The stick is not exchanged between the scan of an image and its import. A card is put in
only at the points of `WaitPoints` and at the menu: an exchange in the middle of an import would make the rollback, which
knows paths and a port but no card, delete from the wrong card, and one between the preflight and the transaction would
write bindings of the other card; the theorem about bindings names this assumption.

Properties (`CardToolsSafety`): `RolledBackMeansAsBefore`, `PassMeansCopied`, `SavesKept`, `ExportKeepsFiles`,
`ExportedEqualsCard`, `ConfigWhole`, `SettingsSurvive`, `BoundFromPackage`, `MissMeansRewritten`, `ToolEnds` (liveness).
They are stated with the exceptions the code has, which a reader should know of:

- `RolledBackMeansAsBefore`: when the table of 384 created objects is full, a directory just made is not in it and stays,
  although the rollback reports no error.
- `ExportKeepsFiles`: a device that fails during an export may cost the one file whose name it chose, and no other.
  `PreparePsuExportPathV2` takes any failure of a stat for a free name, and the open then truncates the file that was there;
  nobody looks at whether the removal of a failed export worked (`save_transfer_psu.c:837`), so a part of it may stay. As long
  as no call fails, the name was not taken, and an export that ends without success (a card pulled, a save with
  directories in it) leaves the stick as it was.
- `SettingsSurvive`: between the removal of the old settings and the rename (`settings.c:424`) the settings exist only
  under the temporary name, which the load never reads; a rename that fails removes the temporary as well.
- `MissMeansRewritten`: after a file of the package was replaced by one of the same size, the cache still answers with the
  old bytes; the transaction then finds no binding and refuses, at every attempt until the root is forgotten.

## 7. Runs

| Run | Expected | What it shows |
|---|---|---|
| `crash` | pass | Two cards, two destinations, one directory, two faults (power cuts, failing or silent writes of either device), card exchanged at the menu: the seven invariants and `OnlyArmedCardWritten` |
| `atomic` | pass | One card, three directories and destinations: `InstallIsAtomic` and `RecoveryCompletes` |
| `refused` | violation | A cut before the first capture leaves a journal whose recovery is refused with -5144, although README.md says that interrupted transactions are recoverable |
| `resurrect` | violation | The COMMITTED journal may be removed before its ACTIVE predecessor: after a cut in between the good installation is offered for rollback |
| `idempotent` | violation | Backups are removed before journals: the recovery of a cut-off cleanup finds a journal without its backups |
| `readerror` | violation | One unreadable slot lets an older journal count as the newest, and what the newer one captured is lost |
| `image` | pass | Two Card Tools sessions, both builds, four kinds of card, any two faults: all the properties of section 4 |
| `restore` | violation | The read-back of a restored card takes the batch of page 0 from the cache the probe filled before the card was erased; a page damaged there passes as verified |
| `truncated` | violation | The size of a card without superblock is the largest page that can be read; two read errors halve it, and half a backup unlocks the format |
| `stream` | pass | All three builds, export, format, restore and scan, one failure of the image or of the log, one short transfer, one line from inside: all the properties of section 5 |
| `locator` | violation | The synchronous read-ahead keeps records across a close and a reopen with the same descriptor: the mismatch locator, which `image_read_ahead.c` promises page-exact reads, reports another page than the first wrong one |
| `tools` | pass | Five plans of one to three operations (image or container import, export, two saves of the settings, a MagicGate test and two installs), two faults, one power cut, one rewrite of the package: all the properties of section 6 |

The findings in `PROJECT.json` quote the text each violation contradicts. Every property of a passing run has a mutant,
a plausible bug in one mapped definition, under which TLC finds the property violated.

Two consequences seen on the way are not runs. In `atomic`, the number of saves before the commit (begin, one directory,
two captures, commit) puts COMMITTED in slot 1, which is removed last; with an even number it lands in slot 0, which is
the `resurrect` run with one destination. And the stale batch of `restore` also makes good restores fail: if the card's
first sixteen pages differed from the image, the read-back reports -22.

## 8. Bounds and fairness

`MaxFaults = 2`: a fault in an operation and another in the recovery from it, or a failed batch and a failed page.
`MaxTokens = 2` is two transactions: the second meets whatever the first left. `MaxSeq` (8 and 9) is above the longest
sequence of journal saves of two transactions with their rollbacks; it appears in the guards of a save. Two destinations
and one directory are the least with which one is captured and the other not; two cards are the least with an
exchange. The two-page batches, blocks and write batches of `MCCardImage` give cards of exactly one and of two batches,
and so a boundary of each kind in the middle of a card; pages of a card that is smaller than it states are read and
programmed too. `MaxSessions = 2` lets a session start with what another left in the cache and on the stick.
Symmetry is not used: the liveness properties would not allow it and the runs do not need it.

In `stream` a batch is two records and an image two batches, the least with a full pipeline, a last batch and a record
that straddles two refills; the ring has three lines and every operation logs more than that while the log is detached, so
that it overflows. `RingLines` and the sizes stand for `DIAG_PENDING_LINES`, 16896 bytes and the length of an image; the descriptors 1 and 2 for one that, taken for a length, ends inside a record or with it. `MaxFaults`,
`LogFaults` and `MaxFailures` of 1 give one failure of either side, anywhere, in one operation (`MaxOps`) of each kind: nothing
but the log outlives an operation, and the proofs have no such bound. In `tools` card A has room for the whole image and card B
for none of its directories, and B already holds a save of the image; the table of created objects has four entries, fewer
than the image needs, so that it fills up; the container and the image differ in their saves. `Plans` bounds the number
of operations: an import before an export of what it made, an export before an import, two saves of the settings (the second
after a cut or a failed first), a test that fills the cache before two installs.

`CHECK_DEADLOCK FALSE` appears where the bounds on tokens and journal generations stop the installer for good, and in `stream` and `tools`, where the bounded operations are used up. The card
image runs check for deadlock: at the menu the user may always take the card out and put it back.

Fairness. The installer's steps are weakly fair (`Program`): the EE runs one operation to its end. `Boot` is weakly fair:
the console is switched on again. `RecoveryCompletes` assumes in `RecoveringUser` that the user keeps asking for a
recovery that is offered again and again (strong fairness of `UiRecover`), as the program asks him to; without it
nothing could follow from the code alone. `OperationEnds` needs weak fairness of the engine and of the IOP's answer, as
the program waits for it without a timeout. `OpEnds` and `ToolEnds` need weak fairness of the program's own steps only:
a step that waits is one step with the answer in it, and nothing is assumed of the user.

## 9. Proofs

`FmcbTypeProofs` proves `TypeInvariance` (`Spec => []TypeInv`) and from it `TypeCorrect` (`Spec => []TypeOK`). `TypeOK` is not
inductive: an action indexes `file`, `backup` and the entries of a journal with `i`, which is only within its range while
the program is in certain places. `TypeInv` adds `IndexOK`, which says in which. The proof has a lemma per control
operator (`Step`, `Loop`, `StartSave`, `ProbeReturns`, ...), used by all the actions that end in it, then a lemma per group
of actions with a step per action.

`FmcbProofs` has six parts. The first proves `ArmedCardOnly`: the action property `OnlyArmedCardWritten` for any set
of cards, any plan and any number of faults and transactions, under the assumption that cards are exchanged only at
the menu. The invariant `CardInv` says that tokens drawn are below `drawn` (`TokenOK`), that no card carries a token
that was not drawn yet (`Fresh`), that only the card of the transaction carries its token (`Owner`), and that wherever
the program may write a destination the card in the slot is that card with that token (`OnCard`). `Owner` is what an
exchange between a cut and the recovery could break, and `Fresh` is what makes it hold again for the next token. The
assumptions are those named in the modules that declare the constants, and TLC evaluates them in the runs.

The second part proves `NewestAlwaysKept`: `SaveKeepsNewest` for any number of generations. A slot holds only generations
of its own parity (`Parity`), so the generation after the newest goes to the other slot; and a save starts from the newest
journal (`OtherNewest`). The latter is why the theorem assumes that no slot read fails: with a read error the older
slot is loaded and its successor overwrites the newest.

The third part proves `CommitAlwaysInstalled`: `CommitMeansInstalled` for every kind of fault, read errors included. `CommitInv`
says that the destinations before the current one are done, and that the preserved ones, never the current one, are as
they were when the card was armed.

The fourth part proves `AlwaysRecoverable`: `Recoverable` for any plan, set of cards and number of faults (power cuts, failing
or silent writes, failing removals), if no slot read fails and cards are exchanged only at the menu. `RecoverInv` says
what every valid slot must say (`SlotsTrue`: the truth about destinations and backups, and nothing the newest does not
say), what a journal on its way to a slot must say (`Saving`), what is not captured yet at each point of an install
(`Installing`: a capture overwrites `bNN.bin`, so no journal may rely on it), that a write finds its entry in the newest
journal (`CapturedFirst`, `Restoring`), and that slots and backups are removed only when they say nothing or the transaction
has ended (`RemovingOK`). It rests on `CardInv` (what is captured is the armed card) and `OtherNewest` (what was saved is the
newest). All of it was first checked as an invariant of the instance of `crash`.

The fifth part proves the other invariants of the installer. `SuccessIsRestored` is `ReportedRestored`, if no removal
fails: when a recovery reports success, what it was to restore is restored. `EndInv` follows the run to its end (the entries
before the current one are done while no error was noted), `ReportInv` carries the result to the report. `PendingAlwaysShown`
is `PendingShown`, if no slot read fails: `ShownInv` compares the status in RAM with the slots and the token, step by step
between the places where the dashboard shows it. `DirectoriesAlwaysKept` is `DirectoriesKept`: a rollback removes a directory
only if this transaction made it (`DirsInv` says which entries of a journal may say so). Like `AlwaysRecoverable` they assume
that cards are exchanged only at the menu.

The sixth part proves the refinement. `InstallsAtOnce`: every step leaves the logical contents of all cards alone, or is a
step of `AtomicInstall`, or is a removal of a journal after a commit whose journal is in slot 0 (`Uncovers`, the `resurrect`
finding and no other step). It holds for every plan, with preserved files or without, any set of cards, and any number of
cuts and of failing or silent writes, if destinations are verified, no slot read and no removal fails, and cards are
exchanged only at the menu. The invariant `AtomicInv` cannot speak of `hist`, since it must carry on where a cleanup was cut
off. It says that the newest journal says what the other says (`NowGrown`); that a save adds to it at most the entry of one
destination, as it is on the card (`SavesSame`); that it is not COMMITTED while an install or a rollback is at work
(`Standing`); that preserved destinations exist and have no entry (`Spared`); that a restored entry is what the card holds
(`PutBack`); and that journals, token and marker are removed only when every valid journal of a card that carries the token
agrees with the card, when they say nothing, or after a commit (`Cleaning`). So a write is hidden by its entry
(`WriteHidden`), a save and a removal show nothing new (`SaveShown`, `ShownNext`), and the commit shows all at once
(`CommitShown`).

`OddPlansInstallAtOnce` is `InstallIsAtomic` itself, under the same conditions and two more: no file is preserved, and the
plan has an odd number of directories and destinations together. `Counting` gives the generation of the newest journal at
each place of an install; the COMMITTED one has number `NDirs + NFiles + 2`, which is odd, and goes to slot 1 (`Closing`, `Closed`),
so `Uncovers` never happens. With an even number it does, and `resurrect` shows it: the condition cannot be dropped.

`CardImageProofs` proves the properties of the image engine, for every number of pages, batch and block size, build, candidate
list, set of images on the stick and number of faults. `TypeInv` is the type invariant with the ranges that each place needs;
`CardImageTypeCorrect` follows. `PrefetchSeparate` (`PrefetchOwnsItsBuffer`) needs nothing else: the request in flight has the
buffer that is not current. The others assume that a card is exchanged only while no session runs, which is what the program
asks for: `SessionInv` says what the cache holds in every place of a session (`CacheAlwaysFresh`), and `JobInv`, place by place,
which pages the file or the card holds already (`ExportsAreFaithful`, `RestoresInOrder`, `OthersAlwaysKept`,
`RestoresVerified`, and the action property `FormatsKeepBackup`). What was read from the cache is what the card holds now
only because nothing but the session writes the card; that is where `CacheFresh` enters `JobInv`.

`ToolsProofs` has the proofs about the tools, in the whole of `CardTools`.

- Settings: `ConfigAlwaysWhole` and `SettingsAlwaysSurvive`. Neither is inductive: that the renamed file is whole follows from
  the read-back three steps before. `SaveInv` says where the two files stand at each step of a save (the temporary equals
  the settings from the read-back to the rename, the file is the old one until it is removed), and that no other tool runs
  meanwhile; a lemma per tool says which operation its steps belong to.
- KELF files: `AlwaysBoundFromPackage`. The invariant `PreBound` says that each preflight result carries the bytes it was
  bound from and the card in the slot; it holds because no card is put in while an install runs (`JobFree` with
  `WaitAssumption`). The match by bytes at the transaction then gives the property for the bytes of the stick at that moment,
  whatever the cache had answered. `MissAlwaysMeansRewritten` is the action property `MissMeansRewritten`: a transaction
  that finds no match has a bound source of that name with other bytes, because the preflight had bound every source
  before the current one, and goes on to the transaction only when none is left (`Collected`).
- Export: `ExportAlwaysKeepsFiles` and `ExportAlwaysEqualsCard`. `ExportStages` says, step by step, that the file being written
  is a container of the save, that what it is to hold is what the card in the slot holds (`Copying`), and that the other
  files are those of the beginning; the comparison at the end does the rest, whatever was read wrongly before.
- Imports: `SavesAlwaysKept` (the action property `SavesKept`, of every tool, without further assumption) and
  `FailedImportRestores` (`RolledBackMeansAsBefore`, if no other card is put in while the result is shown). `ImportIInv` says
  that a card is a tree (`Trees`), that nothing of what the job created was there before and that the directories it walks are
  among what it created (`Listed`, `Placed`), and that the card holds what it held before, what is in the list, and at most
  one object more, made when the list was full (`Grown`). The last is not inductive without its place in the tree: that stray
  object must not lose its directory, and it does not, because the removal of a directory that is not empty fails and counts
  as an error of the rollback (`Stray`). A command of the card is proved once to do nothing, to store one object or to delete
  one; each step of both imports then only says which object that is. The assumptions are that the first content of a
  card is a tree (`FirstCardAssumption`) and that a container is flat (`FlatAssumption`), as the format has it.
- The whole copy: `PassAlwaysCopied` (`PassMeansCopied`, if no other card is put in while the result is shown). For an image,
  `WalkInv` says of every object of the chosen saves that it has been created or is still ahead of the walk: in a save not yet
  begun, or at or after the next entry of a directory on the stack (`Ahead`); and of every created object that it is as the
  source has it, unless it is a directory being walked or the file in hand (`Copied`). When stack and list are empty nothing
  is ahead and nothing is being done. That the walk meets every object rests on `ListingAssumption`: the image is a tree
  whose directories list what is in them. The copy of a container has no order to follow; there `PsuInv` counts the created
  objects, and as many as the container lists are all of them (`FlatAssumption`: it lists finitely many).
- Types: `ToolsAlwaysTyped` (`ToolsTypeOK`). Each card command is shown once to answer with what keeps the types (`Answers`).
  That the list of created objects of a container never outgrows what the container lists is not a matter of types: it
  follows from `PsuInv` (`CopyFits`).

`StreamWriteProofs`, `StreamReadProofs`, `StreamPhaseProofs` and `StreamProofs` are about the streams and the log, for
every size of an image, a record, a batch, a refill and the ring, every build, and any number of operations, failures,
short transfers and lines from inside an operation. A call of the engine is a set of outcomes, so the first two
modules have a lemma per call: from what held before, what any outcome of it keeps and what it did.

- `StreamWriteProofs`: a request is sound (`Sound`: it fits its buffer and nobody else uses that buffer), what the IOP
  has been given starts where the file ends (`Pending`), and what is in the buffer being filled starts where that ends
  (`Fed`). For the log, the lines in the ring come after those in the file and the number of the next line after both
  (`Tidy`), whatever a torn flush left.
- `StreamReadProofs`: the rest of the current refill, the refill that is ready and the one on its way follow each other
  without a gap, and the file position is where the last of them ends (`Prefetched`); so what a read returns is the file
  from the current unit on (`Spot`), or it reports an error. A current unit below the first one stands for the stale units
  of a restore after a verification: the buffer then ends where the file begins.
- `StreamPhaseProofs`: an operation is a script, and `todo` what is left of it. A phase says how deep the scopes are,
  what is being done to the image and whether there is one; `Leads` says that the calls left lead from the phase of the
  operation to one where everything is closed again. For each phase `Good` says where descriptor, batch, cache and
  records are, and a lemma per call leads from it to `Good` of the next phase.
- `StreamProofs`: `StreamInv` says that some phase is `Good` and leads to the end, or that nothing runs and all scopes
  are closed. The phase is needed because no single variable says it: that `resume` finds a pause to end, or that a
  format finds an image, follows from the calls that came before and those that still come. `StepSafe` shows for each
  call that it leads to the next phase, leaves alone the buffer that is with the IOP, touches the log file only while no
  image is open, and is a step of `RecordStream` or none.

From it follow `BatchImplementsStream` (the refinement `StreamImplements`), `BufferIsOwned` (`AsyncOwnsItsBuffer`),
`LogTouchesAlone` (`LogAlone`), `WaitsBetween` (`WaitBetweenImages`), `ReadsFaithfully` (`ReadFaithful`),
`FormatsWithImage` (`FormatOnlyWithImage`), `LogStaysInOrder` (`LogInOrder`) and `StreamsTyped` (`StreamTypeOK`).

`LossIsAdmitted` (`NoSilentLoss`) is an account kept beside them: `Owes(L, b)` says that the numbers formatted so far
which are neither in the file nor in the ring nor a notice's, and not in the hand `b` of a call that is under way, are no
more than the log admits, now or in the notices of its file. A call formats a line (one number in hand), may push the
oldest line out of the ring (one lost, one more counted), may write a notice (the count moves into the file, in one piece
or, when it is torn, not at all) and puts the line down; `FormatOwes`, `QueueOwes`, `FlushedOwes` and `PutOwes` say so of
each, for logs that are `Tidy`. The losses a file speaks of are counted as the pairs of a notice and a number up to its
own (`Claims`), so that no sum over the lines of the file is needed.

The theorems of the streams assume nothing beyond the assumptions named at the constants: sizes are positive, a batch is
a whole number of records and an image of batches.

The SMT encoding of the prover states `0 <= Len(s)` for every `s`, sequence or not, which is stronger than the definition of
`Len`. No proof rests on it: all of them were also checked with that axiom removed from what the solver is given.

Only model-checked: liveness (`RecoveryCompletes`, `OperationEnds`, `OpEnds`, `ToolEnds`), and whatever rests on ENABLED, which
are out of the prover's reach, and what a recursive definition computes. `InstallIsAtomic` is false for plans whose COMMITTED
journal lands in slot 0 and so has no proof for all plans; `InstallsAtOnce` says what holds for them.

## 10. Not modelled, and why

The cryptography of MagicGate ends in success or failure; discovery, compatibility, console profile and card inspection
only read; card mathematics is checked by `tools/verify_card_math.py`; the user interface draws; scripts patch sources. The
EE-side shim flags of the raw and MagicGate sessions describe modules in the IOP that are not in the repository, and what a
stale flag does is decided there; the sessions appear as the steps that start and stop them, the drain included.

Within the modelled parts: the choice among `mass:` roots, statistics, the contents of the sidecar file, the FAT walk and
the directory decoding of an image, offsets and padding of a container, the text format of the settings, the format of
result pages, superblocks with a page count that the program does not know, and an exchange of the card in the middle of an
operation.
