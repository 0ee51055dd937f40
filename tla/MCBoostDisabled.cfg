\* A hotspot that is edited and disabled.
CONSTANTS
  Requests = {q1}
  Windows = {1}
  Boost <- OneBoost
  Rate = 1
  Kinds = {"simulated"}
SPECIFICATION Spec
PROPERTIES DisabledUntilStaff
