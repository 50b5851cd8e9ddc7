CONSTANTS
  QueueLimit = 2
  DownAfter = 2
  MaxCmd = 4
SPECIFICATION FairSearchSpec
CHECK_DEADLOCK FALSE
INVARIANTS OneSocket VerdictHolds FailureHonest CommandsInOrder LockHasKey
PROPERTIES Reconnects SidebarUnlocks
