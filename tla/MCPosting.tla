------------------------------ MODULE MCPosting ------------------------------
(***************************************************************************)
(* Public posts for TLC: one card, a tick and a Publish Now, and a request *)
(* that rewrites the card's platform_data.                                 *)
(***************************************************************************)
EXTENDS Posting

CONSTANTS clip, tick, now, w

=============================================================================
