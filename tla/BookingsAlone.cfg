SPECIFICATION FairSpec
CONSTANTS
  NONE = NONE
  LOST = LOST
  Handlers = {h1}
  BookingIds = {b1, b2}
  Services = {s1}
  EditedServices = {s1}
  Users = {alice, root}
  Admins = {root}
  RemovedUsers = {alice}
  Times = {0, 1}
  Durations = {1, 2}
  AskedStatuses = {"CONFIRMED"}
  MaxNow = 1
  MaxRequests = 2
INVARIANTS NoDoubleBooking BroadcastIsCurrent
PROPERTIES EveryBookingAnnounced
CHECK_DEADLOCK FALSE
