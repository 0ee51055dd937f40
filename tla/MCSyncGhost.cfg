\* A session that was disconnected.
CONSTANTS
  Sessions = {1, 2}
  Disconnects = {d1}
  Checks = {}
  Simulated = TRUE
  Limit = 2
  MaxBytes = 0
SPECIFICATION FairSpec
PROPERTIES EndedIsOff
