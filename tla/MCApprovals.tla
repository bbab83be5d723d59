------------------------------ MODULE MCApprovals ----------------------------
(***************************************************************************)
(* Approvals for TLC: a push and a site edit, asked for by two agents and  *)
(* answered by two requests at once (a double click, or two tabs).         *)
(***************************************************************************)
EXTENDS Approvals, TLC

CONSTANTS push, edit

Symmetry == Permutations(Agent) \cup Permutations(Handler)

=============================================================================
