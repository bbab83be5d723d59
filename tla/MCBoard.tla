-------------------------------- MODULE MCBoard ------------------------------
(***************************************************************************)
(* The board for TLC: one edit adds a line, one moves a voice note's items *)
(* to Completed and one clears that lane; of the notes, the second has no  *)
(* items in it.                                                            *)
(***************************************************************************)
EXTENDS Board, TLC

CONSTANTS add, move, clear, r1, r2

RowMoved == move :> 1

RunSymmetry == Permutations(Run)

=============================================================================
