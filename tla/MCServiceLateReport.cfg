\* ARCHITECTURE.md:54-56 against a funding reported after the settlement.
SPECIFICATION FairSpec
CONSTANTS
  Ids = {e1}
  Milestones = {m1}
  Requests = {r1, r2}
  Shapes <- WholeDeals
PROPERTIES
  SettledDealReachesTheRow
CHECK_DEADLOCK FALSE
