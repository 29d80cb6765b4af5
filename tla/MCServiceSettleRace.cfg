\* escrows.service.ts:222 and 274 against two requests that settle one row.
SPECIFICATION Spec
CONSTANTS
  Ids = {e1}
  Milestones = {m1}
  Requests = {r1, r2}
  Shapes <- EveryShape
PROPERTIES
  SettledRowIsFinal
SYMMETRY Symmetry
CHECK_DEADLOCK FALSE
