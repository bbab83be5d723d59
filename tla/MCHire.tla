-------------------------------- MODULE MCHire -------------------------------
(***************************************************************************)
(* Hires for TLC: ann and bob hire each other, cat recruited ann (where    *)
(* cat = bob, one party of the hire is also its affiliate).  Funds pay for *)
(* one hire, so that a second open_hire of the same buyer fails.           *)
(***************************************************************************)
EXTENDS Hire, TLC

CONSTANTS ann, bob, cat

Recruited == [m \in {ann} |-> cat]

CallerSymmetry == Permutations(Caller)

=============================================================================
