SPECIFICATION Spec
CONSTANTS
  Handlers = {h1, h2}
  Addresses = {a1, a2}
  Agents = {{"Chrome/", "Safari/", "Windows NT 10", "Windows NT"}, {"Chrome/", "Safari/", "OPR/", "Windows NT 10", "Windows NT"}, {"Safari/", "Mac OS X", "iPhone"}}
  MaxAttempts = 2
  NONE = NONE
  Lookups = {TRUE, FALSE}
  MaxRequests = 5
SYMMETRY Symmetry
INVARIANTS GuessesBounded TokensBounded OldPasswordOpensNothing
CHECK_DEADLOCK FALSE
