---------------------------- MODULE AtomicInstall ----------------------------
(***************************************************************************)
(* What the transactional installer promises, without journals, tokens or  *)
(* power cuts: the contents of a card are either untouched or, in a single *)
(* step, those of the complete installation.                               *)
(***************************************************************************)
CONSTANTS
  Cards,      \* memory cards
  Files,      \* destinations of the install plan
  Cnf,        \* destinations the user may have asked to preserve
  Content     \* what a destination can hold

VARIABLE contents

TypeOK == contents \in [Cards -> [Files -> Content]]

AtomicInit == TypeOK

(* One installation on card c; the existing destinations of "kept" stay. *)
AtomicCommit(c, kept) ==
  /\ \A f \in kept : contents[c][f] # "absent"
  /\ contents' = [contents EXCEPT ![c] =
                    [f \in Files |-> IF f \in kept THEN contents[c][f] ELSE "new"]]

AtomicNext == \E c \in Cards, kept \in SUBSET Cnf : AtomicCommit(c, kept)

AtomicSpec == AtomicInit /\ [][AtomicNext]_contents
=============================================================================
