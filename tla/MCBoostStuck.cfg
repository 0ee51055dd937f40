\* One window on the simulator, while the hotspot is edited.
CONSTANTS
  Requests = {q1}
  Windows = {1}
  Boost <- OneBoost
  Rate = 1
  Kinds = {"simulated"}
SPECIFICATION FairSpec
PROPERTIES CapsReturn
