CONSTANTS
  Top = 1
  Stale = 1
  ShiftHold = 1
  Prompt = 1
  Escalate = 2
  Strike = 2
  SlowEvery = 1
  SlowBy = 1
  InFlight = 1
  Acts = 2
  Mishaps = 1
SPECIFICATION LiveSpec
INVARIANTS
  ModesCoherent
PROPERTIES
  AskStands
  TakeoverStands
  StruckStops
