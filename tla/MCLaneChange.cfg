CONSTANTS
  Leads = {v1}
  Sides <- MCSides
  Road = 8
  LaneEnd = 7
  Ramp = 3
  OutMax = 4
  PassMax = 1
  ReturnMaxS = 4
  ReturnMaxM = 4
  Retry = 3
  CarLength = 4
  PassRoom = 5
  RequestRoom = 1
  StopMax = 3
  Pickup = 1
  Lag = 1
SPECIFICATION LiveSpec
INVARIANTS OffsetTold HomeBeforeLaneEnds
PROPERTIES AimNeverJumps TriesApart ChangeEnds
