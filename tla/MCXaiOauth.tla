------------------------------ MODULE MCXaiOauth ------------------------------
(***************************************************************************)
(* xAI tokens for TLC: two calls of the model and the settings page.       *)
(***************************************************************************)
EXTENDS XaiOauth

CONSTANTS chat1, chat2, poll

=============================================================================
