SPECIFICATION Spec
CONSTANTS
  repoA = repoA
  note = note
  Caller = {c1, c2}
  RowId = {1, 2}
  Source = {d1, d2}
  Repo = {repoA}
  Number = {1}
  Words = {note}
  NoPR = NoPR
  Keep = Keep
  Update <- ReviewUpdates
  MaxNotes = 2
  Pulls = {d2}
  Turns = {d1}
INVARIANTS
  MergeNotesAreTrue
  MergeNotedOnce
  BoardAgrees
  OneOpenRowPerSource
PROPERTIES
  FeedbackNeverMoves
  LegalMoves
SYMMETRY CallerSymmetry
CHECK_DEADLOCK FALSE
