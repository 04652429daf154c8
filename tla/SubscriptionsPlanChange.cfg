SPECIFICATION Spec
CONSTANTS
  NONE = NONE
  FREE = FREE
  Handlers = {h1}
  Sids = {s1}
  Plans = {pro, top}
  MaxEvents = 5
  MaxNow = 2
  MaxRequests = 3
SYMMETRY Symmetry
INVARIANT PlanIsStripes
CHECK_DEADLOCK FALSE
