SPECIFICATION Spec
CONSTANTS
  NONE = NONE
  LOST = LOST
  Handlers = {h1, h2}
  BookingIds = {b1, b2}
  Services = {s1}
  EditedServices = {}
  Users = {alice, root}
  Admins = {root}
  RemovedUsers = {}
  Times = {0, 1}
  Durations = {1}
  AskedStatuses = {"CONFIRMED", "COMPLETED"}
  MaxNow = 0
  MaxRequests = 3
SYMMETRY Symmetry

CHECK_DEADLOCK FALSE

PROPERTY ClosedIsFinal
