SPECIFICATION Spec
CONSTANTS
  Handlers = {h1, h2, h3}
  Tables = {"users", "services", "roles", "tenants", "bookings"}
  Names = {"n1", "n2", "SUPER_ADMIN"}
  Reserved = {"SUPER_ADMIN"}
  Limit = 1
  MaxRequests = 6
SYMMETRY Symmetry
INVARIANTS OvershootBounded NamesUniqueUnlessRaced RemovedIsOff
CHECK_DEADLOCK FALSE
