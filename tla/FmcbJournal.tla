----------------------------- MODULE FmcbJournal -----------------------------
(***************************************************************************)
(* The dual-slot checksummed USB journal of fmcb_recovery.c: what a slot   *)
(* holds, which slot a sequence number is written to, and which journal    *)
(* LoadLatestJournal() picks.  Pure definitions, no state.                 *)
(*                                                                         *)
(* A slot file is absent, torn (present, but size or checksum is wrong) or *)
(* a complete journal.  Checksums, magic and struct_size are abstracted to *)
(* the distinction between "torn" and valid.  entries[] is keyed by the    *)
(* manifest index: a captured destination has a value other than "none".   *)
(***************************************************************************)
EXTENDS Integers

CONSTANTS
  NFiles,   \* destinations of the install plan (manifest entries)
  NDirs     \* directories the plan may create: the system folders, then SYS-CONF

ASSUME NFilesAssumption == NFiles \in Nat \ {0}
ASSUME NDirsAssumption  == NDirs \in Nat \ {0}

Files == 1 .. NFiles
Dirs  == 1 .. NDirs

(* What a card file can hold: nothing, a zero-byte file, the bytes of      *)
(* before the installer ever ran, the installer's bytes, or damaged bytes. *)
Content == {"absent", "empty", "old", "new", "bad"}

(* The value of a journal entry or of a backup file that does not exist.   *)
Entry == Content \cup {"none"}

NoEntries == [f \in Files |-> "none"]

JournalStates == {"ACTIVE", "ROLLING_BACK", "COMMITTED"}

Journal ==
  [seq   : Nat,
   state : JournalStates \cup {"absent", "torn"},
   entry : [Files -> Entry],
   dirs  : SUBSET Dirs]

AbsentSlot == [seq |-> 0, state |-> "absent", entry |-> NoEntries, dirs |-> {}]
TornSlot   == [AbsentSlot EXCEPT !.state = "torn"]

Slots == {0, 1}

JournalValid(j) == j.state \in JournalStates

(* entry_count # 0 *)
Prepared(j) == \E f \in Files : j.entry[f] # "none"

(* The in-RAM journal FmcbRecoveryBegin() starts from. *)
EmptyJournal == [AbsentSlot EXCEPT !.state = "ACTIVE"]

(* slot = sequence & 1 *)
SlotOfOne(seq) == 0
SlotOf(seq) == seq % 2

(* LoadLatestJournal(): the valid slot with the greater sequence; without  *)
(* a valid slot, "torn" stands for -5112 and "absent" for -ENOENT.         *)
LatestOfOldest(s) ==
  IF JournalValid(s[0]) /\ JournalValid(s[1])
    THEN IF s[0].seq <= s[1].seq THEN s[0] ELSE s[1]
  ELSE IF JournalValid(s[0]) THEN s[0]
  ELSE IF JournalValid(s[1]) THEN s[1]
  ELSE IF s[0] = AbsentSlot /\ s[1] = AbsentSlot THEN AbsentSlot
  ELSE TornSlot
LatestOf(s) ==
  IF JournalValid(s[0]) /\ JournalValid(s[1])
    THEN IF s[0].seq >= s[1].seq THEN s[0] ELSE s[1]
  ELSE IF JournalValid(s[0]) THEN s[0]
  ELSE IF JournalValid(s[1]) THEN s[1]
  ELSE IF s[0] = AbsentSlot /\ s[1] = AbsentSlot THEN AbsentSlot
  ELSE TornSlot
=============================================================================
