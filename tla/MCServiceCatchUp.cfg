\* One deal on the chain and two requests; no symmetry, for the temporal property.
SPECIFICATION FairSpec
CONSTANTS
  Ids = {e1}
  Milestones = {m1}
  Requests = {r1, r2}
  Shapes <- WholeDeals
PROPERTIES
  FundedRowCatchesUp
CHECK_DEADLOCK FALSE
