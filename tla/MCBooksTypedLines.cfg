SPECIFICATION Spec
SYMMETRY MCSymmetry
CONSTANTS
  c1 = c1
  c2 = c2
  checking = checking
  manual = manual
  jan = jan
  feb = feb
  rent = rent
  cash = cash
  office = office
  none = none
  changed = changed
  Call = {c1, c2}
  Statement = {checking}
  Manual = manual
  File = {jan, feb}
  LinesOf <- MCLinesOf
  Typed = {cash}
  Category = {office}
  NoMark = none
  Changed = changed
  MaxRows = 2
  Attempts = 2
  Calm = FALSE
INVARIANTS
  TypedLinesStay
