SPECIFICATION Spec
CONSTANTS
  clip = clip
  tick = tick
  now = now
  w = w
  Card = {clip}
  NoCard = NoCard
  Tick = {tick}
  Now = {now}
  Rewriter = {w}
  CardSent = {"draft", "queued", "uploaded"}
  RowSent = {"queued", "uploaded"}
  Limit = 1
  MaxRows = 2
  Alone = TRUE
INVARIANTS
  OneRowPerCard
  PublicCardsAreTrue
PROPERTIES
  TicksUploadOnce
  CardsCatchUp
