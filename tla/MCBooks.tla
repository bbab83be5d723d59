------------------------------- MODULE MCBooks -------------------------------
(***************************************************************************)
(* The bookkeeping of one Presence for TLC: one statement ledger, whose two *)
(* statements overlap, the ledger of typed lines, two calls.              *)
(***************************************************************************)
EXTENDS Books, TLC

CONSTANTS c1, c2, checking, manual, jan, feb, rent, cash, office, none, changed

MCLinesOf == [f \in File |-> {rent}]
MCSymmetry == Permutations(Call)

=============================================================================
