--------------------------- MODULE RecordStream ---------------------------
(***************************************************************************)
(* What the export is promised by the batch below it: the file is always a *)
(* beginning of the records that were accepted, and the close that reports *)
(* success has all of them in the file, whatever was deferred before.      *)
(***************************************************************************)
EXTENDS Integers, Sequences, SequencesExt

CONSTANTS RecordUnits, ImageUnits

VARIABLES accepted,       \* units accepted by write calls that succeeded
          stored,         \* the image file
          state           \* "closed", "open", "complete" or "aborted"

recordVars == <<accepted, stored, state>>

Whole == [i \in 1..ImageUnits |-> i]
StreamUpto(n) == SubSeq(Whole, 1, n)

Grows(n) == IsPrefix(stored, stored') /\ IsPrefix(stored', StreamUpto(n))

StreamInit == accepted = 0 /\ stored = <<>> /\ state = "closed"
StreamOpen == state = "closed" /\ state' = "open" /\ accepted' = 0 /\ stored' = <<>>
Accept == /\ state = "open" /\ state' = "open"
          /\ accepted' = accepted + RecordUnits
          /\ Grows(accepted')
Store == /\ state \in {"open", "aborted"} /\ UNCHANGED <<accepted, state>>
         /\ Grows(IF state = "open" THEN accepted ELSE ImageUnits)
Seal == /\ state = "open" /\ accepted = ImageUnits
        /\ state' = "complete" /\ stored' = Whole /\ UNCHANGED accepted
Abort == /\ state \in {"closed", "open"} /\ state' = "aborted"
         /\ accepted' = 0 /\ IsPrefix(stored', Whole)
Discard == /\ state' \in {"closed", "aborted"} /\ accepted' = 0 /\ stored' = <<>>

StreamNext == StreamOpen \/ Accept \/ Store \/ Seal \/ Abort \/ Discard
StreamSpec == StreamInit /\ [][StreamNext]_recordVars
=============================================================================
