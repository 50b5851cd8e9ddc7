CONSTANTS
  Conn = {c1, c2}
  Kinds = {"load_scenario"}
  Notes = FALSE
  MaxCmd = 1
  LogMax = 8
SPECIFICATION FairSpec
PROPERTIES ToldCurrent
