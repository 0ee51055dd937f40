\* Two windows and an edit or another operation, on both kinds of router.
CONSTANTS
  Requests = {q1}
  Windows = {1, 2}
  Boost <- TwoBoosts
  Rate = 1
  Kinds = {"simulated", "device"}
SPECIFICATION FairSpec
INVARIANTS TypeOK BoostsHaveBegun
PROPERTIES   JobsEnd  BoostsStayGone
