---------------------------- MODULE MCStewardQueue ---------------------------
(***************************************************************************)
(* The queue for TLC: two tickets, a pull request, and the changes that    *)
(* handlers make on the way of a ticket through review.                    *)
(***************************************************************************)
EXTENDS StewardQueue, TLC

CONSTANTS repoA, note

\* Linked and remarked on, which may be repeated; then closed.
ReviewUpdates == {[status |-> "in_review", pr |-> <<repoA, 1>>, note |-> note],
                  [status |-> "done", pr |-> Keep, note |-> Keep]}

CallerSymmetry == Permutations(Caller)

=============================================================================
