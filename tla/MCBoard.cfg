SPECIFICATION Spec
CONSTANTS
  add = add
  move = move
  clear = clear
  r1 = r1
  r2 = r2
  Edit = {add, move, clear}
  Additive = {add}
  Clearing = {clear}
  MovedRow <- RowMoved
  Answered = {move, clear}
  Run = {r1, r2}
  Note = {1, 2}
  Actionable = {1}
  MaxAttempts = 2
  MaxTries = 2
  BoardExists = TRUE
  OnPresence = FALSE
  Calm = TRUE
INVARIANTS
  RetriesAddOnce
  ArchivedIsOnBoard
  NoteOnce
PROPERTIES
  EditorsNeverStomp
SYMMETRY RunSymmetry
CHECK_DEADLOCK FALSE
