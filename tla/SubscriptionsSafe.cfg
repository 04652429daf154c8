SPECIFICATION Spec
CONSTANTS
  NONE = NONE
  FREE = FREE
  Handlers = {h1, h2}
  Sids = {s1, s2}
  Plans = {pro, top}
  MaxEvents = 5
  MaxNow = 2
  MaxRequests = 3
SYMMETRY Symmetry
INVARIANTS TypeOK CancelledIsEnded PaidPlanWasBought NoRenewalAfterCancel
CHECK_DEADLOCK FALSE
