CONSTANTS
  Conn = {c1}
  Kinds = {"load_location"}
  Notes = FALSE
  MaxCmd = 2
  LogMax = 8
SPECIFICATION FairSpec
INVARIANTS FrameNeverAhead
PROPERTIES FailureHeard BuildAnswered ToldCurrent
