SPECIFICATION GitSpec
CONSTANTS
  Repos = {r1}
  EmptyRemotes = {}
  MaxRounds = 1
  MaxFailures = 0
CHECK_DEADLOCK FALSE
INVARIANT EasyShipped
