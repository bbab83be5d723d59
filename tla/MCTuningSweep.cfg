SPECIFICATION FairSpec
CONSTANTS
  Team = {stuart, mann}
  Steward = stuart
  Presence = {atlas}
  Drop = {courage, presence}
  NoDrop = NoDrop
  NoAgent = NoAgent
  Broken = {stuart}
  Starter = {"schedule", "force", "route"}
INVARIANTS
  OneDispatch
PROPERTIES
  TeamTunesOnce
  CooldownKept
  EveryoneTunes
