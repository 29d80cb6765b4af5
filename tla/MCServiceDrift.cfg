\* ARCHITECTURE.md:54-56 against releaseMilestone.
SPECIFICATION Spec
CONSTANTS
  Ids = {e1}
  Milestones = {m1}
  Requests = {r1, r2}
  Shapes <- Piecemeal
INVARIANTS
  EligibleRowNeverAhead
SYMMETRY Symmetry
CHECK_DEADLOCK FALSE
