----------------------------- MODULE SaveMedia -----------------------------
(***************************************************************************)
(* What the save tools of the dashboard share: the one operation the       *)
(* program's thread runs, the memory cards as the ROM card stack serves    *)
(* them, and the record of an import or an export in progress.             *)
(*                                                                         *)
(* A card maps paths (sequences of names) to objects.  A card command is   *)
(* the set of its outcomes, each with the cards and the faults after it:   *)
(* it may fail, and a write may be reported done and store something else. *)
(***************************************************************************)
EXTENDS Naturals, Sequences, SequencesExt, FiniteSets, TLC

CONSTANTS Cards,
          NoCard,           \* the empty slot
          FirstCard,        \* what each card holds at first
          Capacity,         \* objects a card has room for
          MaxFaults         \* failing commands in one behaviour

(* A card is a tree: the directory of every object is there.               *)
IsPath(p) == p \in Seq(ToSet(p)) /\ p # <<>>
Rooted(tree) == \A p \in DOMAIN tree :
                   IsPath(p) /\ (Len(p) > 1 => Front(p) \in DOMAIN tree)

ASSUME CardAssumption == NoCard \notin Cards
ASSUME FirstCardAssumption ==
    /\ FirstCard \in [Cards -> {FirstCard[c] : c \in Cards}]
    /\ \A c \in Cards : /\ FirstCard[c] = [p \in DOMAIN FirstCard[c] |-> FirstCard[c][p]]
                        /\ Rooted(FirstCard[c])
ASSUME MetaAssumption ==
    \A c \in Cards : \A p \in DOMAIN FirstCard[c] : FirstCard[c][p].meta \in {"fresh", "source"}
ASSUME FaultAssumption == MaxFaults \in Nat

VARIABLES op,         \* the dashboard operation
          card,       \* what the cards hold
          inserted,   \* the card in the port the operations work on
          faults,     \* faults so far
          job         \* the import or export in progress, or its result

mediaVars == <<op, card, inserted, faults, job>>

-----------------------------------------------------------------------------
(* ---------------------------- card commands ---------------------------- *)
Ok == 0
Failed == 1

Object(data, meta) == [data |-> data, meta |-> meta]
Folder(meta) == Object("dir", meta)
Below(tree, p) == {q \in DOMAIN tree : Len(q) = Len(p) + 1 /\ IsPrefix(p, q)}
Subtree(tree, s) == {q \in DOMAIN tree : q[1] = s}
Put(tree, p, o) == [q \in {p} \cup DOMAIN tree |-> IF q = p THEN o ELSE tree[q]]
Drop(tree, P) == [q \in DOMAIN tree \ P |-> tree[q]]

Here == card[inserted]
Free == Capacity[inserted] - Cardinality(DOMAIN Here)

Outcome(rc, tree, n) ==
    [rc |-> rc, card |-> [card EXCEPT ![inserted] = tree], faults |-> faults + n]
(* Every command fails while no card is in the slot.                       *)
Command(outcomes) ==
    IF inserted = NoCard THEN {[rc |-> Failed, card |-> card, faults |-> faults]}
    ELSE {o \in outcomes : o.faults <= MaxFaults}

McMkDir(p) ==
    Command({IF p \in DOMAIN Here THEN Outcome(Failed, Here, 0)
             ELSE Outcome(Ok, Put(Here, p, Folder("fresh")), 0),
             Outcome(Failed, Here, 1)})
McCreate(p) ==
    Command({Outcome(Ok, Put(Here, p, Object("empty", "fresh")), 0), Outcome(Failed, Here, 1)})
(* mcWrite of every chunk, mcFlush and mcClose.                            *)
McWrite(p, data) ==
    LET stored(d) == Put(Here, p, Object(d, "fresh")) IN
    Command({Outcome(Ok, stored(data), 0), Outcome(Ok, stored("wrong"), 1)}
            \cup {Outcome(Failed, stored(d), 1) : d \in {"empty", "part", data}})
(* The file is opened again and read to its end.                           *)
McSame(p, data) ==
    Command({Outcome(IF Here[p].data = data THEN Ok ELSE Failed, Here, 0),
             Outcome(Failed, Here, 1)})
McSetInfo(p) ==
    Command({Outcome(Ok, Put(Here, p, Object(Here[p].data, "source")), 0),
             Outcome(Failed, Here, 1)})
(* A directory that is not empty is not deleted.                           *)
McDelete(p) ==
    Command({IF p \notin DOMAIN Here THEN Outcome(Ok, Here, 0)
             ELSE IF Below(Here, p) # {} THEN Outcome(Failed, Here, 0)
             ELSE Outcome(Ok, Drop(Here, {p}), 0),
             Outcome(Failed, Here, 1)})

(* mcGetInfo and mcGetDir answer, or do not.                               *)
Reads == inserted # NoCard /\ UNCHANGED <<faults, card>>
FaultSpent == faults < MaxFaults /\ faults' = faults + 1
ReadFails == /\ UNCHANGED card
             /\ IF inserted = NoCard THEN UNCHANGED faults ELSE FaultSpent

-----------------------------------------------------------------------------
(* --------------------------- the job in hand --------------------------- *)
NoTree == <<>>
NoJob == [pc |-> "none",       \* where the operation is
          free |-> 0,          \* free room and conflicts the browser showed
          conflict |-> {},
          todo |-> <<>>,       \* saves still to do
          stack |-> <<>>,      \* directories being walked, next entry of each
          path |-> <<>>,       \* the file being copied
          created |-> <<>>,    \* what a rollback deletes
          full |-> FALSE,      \* an object did not fit in that list
          before |-> NoTree,   \* what the card held when the copying began
          want |-> NoTree,     \* what it is to hold
          file |-> "none",     \* the .psu file
          begun |-> 0,         \* the faults before its name was chosen
          kept |-> NoTree,     \* the .psu files when an export began
          rb |-> Ok,           \* first error of the rollback
          res |-> "none"]

At(o, pc) == op = o /\ job.pc = pc
Runs(outcomes, j(_)) ==
    \E o \in outcomes : /\ card' = o.card /\ faults' = o.faults /\ job' = j(o)
Stays == UNCHANGED <<op, inserted>>
Ends(j, res) == [j EXCEPT !.pc = "done", !.res = res]
Refuse(res) == job' = Ends(job, res) /\ Stays
Fails(j) == [j EXCEPT !.pc = "rollback"]

(* A started copy: what the card is to hold once the job has succeeded.    *)
Onto(base, tree) ==
    [p \in DOMAIN tree \cup DOMAIN base |-> IF p \in DOMAIN tree THEN tree[p] ELSE base[p]]
Starting(j, tree) ==
    [j EXCEPT !.before = Here, !.pc = "walk", !.want = Onto(Here, tree)]

MediaInit ==
    /\ op = "menu" /\ card = FirstCard /\ faults = 0 /\ job = NoJob
    /\ inserted \in Cards
=============================================================================
