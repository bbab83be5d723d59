SPECIFICATION Spec
CONSTANTS
  push = push
  edit = edit
  Agent = {a1, a2}
  Handler = {h1, h2}
  Req = {1, 2, 3}
  Call = {push, edit}
  SiteEdit = {edit}
  Calm = {push}
INVARIANTS
  ReportsAreTrue
  OneCardPerCall
  EditsAreKept
PROPERTY
  KeepsConsent
SYMMETRY Symmetry
CHECK_DEADLOCK FALSE
