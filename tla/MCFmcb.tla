------------------------------- MODULE MCFmcb -------------------------------
(***************************************************************************)
(* Model-checking instances of the FMCB installer and its recovery.        *)
(***************************************************************************)
EXTENDS FmcbSafety

CONSTANTS c1, c2

TwoCards == {c1, c2}
OneCard  == {c1}

(* Every destination in the only directory. *)
OneDirectory == [f \in Files |-> 1]

Hardware == {"power", "card", "usb", "silent"}
PowerOnly == {"power"}
ReadErrors == {"read"}

Clean == {NoToken}
MaybeForeign == {NoToken, Foreign}
=============================================================================
