\* Every kind of row, on a configured and an unconfigured backend, and three
\* requests: two that race and one that writes late.
SPECIFICATION Spec
CONSTANTS
  Ids = {e1}
  Milestones = {m1, m2}
  Requests = {r1, r2, r3}
  Shapes <- EveryShape
INVARIANTS
  TypeOK
  NeverAheadOfChain
  ReleaseWaitsForMilestones
  SettledDealHasAReport
PROPERTIES
  VerifiedOutcomeIsFinal
SYMMETRY Symmetry
CHECK_DEADLOCK FALSE
