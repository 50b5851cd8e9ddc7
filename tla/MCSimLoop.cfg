CONSTANTS
  Conn = {c1}
  Kinds = {"load_location", "load_scenario", "unknown_scenario"}
  Notes = TRUE
  MaxCmd = 2
  LogMax = 2
SPECIFICATION Spec
INVARIANTS EventsOnce LatestBuildWins
