\* A session on the Redis simulator, two disconnects and a probe or toggle.
CONSTANTS
  Sessions = {1}
  Disconnects = {d1, d2}
  Checks = {c1}
  Simulated = TRUE
  Limit = 1
  MaxBytes = 2
SPECIFICATION Spec
SYMMETRY DisconnectSymmetry
INVARIANTS EndedOnce RecordsCoverBytes
PROPERTIES EndedIsFinal GoneForGood
