CONSTANTS
  N = 3
  Layouts <- MCLayouts
  StopTie = 1
  StopDwell = 2
  BoxTimeout = 3
  BoxHoldMax = 8
  LastArrival = 3
  Dither = 2
  Horizon = 60
SPECIFICATION LiveSpec
INVARIANTS
  OneCarInBox
  EgoMeetsNobody
PROPERTIES
  FirstComeFirst
  EveryoneThrough
