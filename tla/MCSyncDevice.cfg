\* Two sessions on a real router.
CONSTANTS
  Sessions = {1, 2}
  Disconnects = {d1}
  Checks = {}
  Simulated = FALSE
  Limit = 1
  MaxBytes = 2
SPECIFICATION FairSpec
INVARIANTS UsageNotInvented
PROPERTIES VanishedAreClosed
