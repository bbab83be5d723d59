----------------------------- MODULE MCTuningSweep ---------------------------
(***************************************************************************)
(* The tuning for TLC: two agents of the team and a presence, two Drops    *)
(* that take turns, three calls.                                           *)
(***************************************************************************)
EXTENDS TuningSweep

=============================================================================
