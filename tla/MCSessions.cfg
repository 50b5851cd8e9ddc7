CONSTANTS
  Conn = {c1, c2, c3}
  Limit = 1
  QueueMax = 2
SPECIFICATION FairSpec
INVARIANTS SlotsConserved NoIdleSlot LineSound NoLostWakeup
PROPERTIES WaiterServed GoneIsReleased ImplementsPool
