CONSTANTS
  IdleS = 10
  SessionMaxS = 12
  IdleWarnMax = 3
  CapWarnMax = 5
  Tick = 1
  Late = 1
  Horizon = 24
SPECIFICATION Spec
CHECK_DEADLOCK FALSE
INVARIANTS IdleClosedInTime CapClosedInTime NeverUnwarned NoticeHonest
