\* Two requests of any kind, two addresses, both kinds of router.
CONSTANTS
  Requests = {q1, q2}
  Addresses = {a1, a2}
  Kinds = {"simulated", "device"}
SPECIFICATION FairSpec
INVARIANTS TypeOK
PROPERTIES DeletedStaysDeleted  StatusFollowsDevice
