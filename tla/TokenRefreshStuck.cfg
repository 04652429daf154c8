SPECIFICATION FairSpec
CONSTANTS
  NONE = NONE
  Tabs = {t1}
  Requests = {r1, r2}
  Tokens = {p1, p2}
  MaxLogins = 1
  FindsTokens = FALSE
PROPERTY WaitersReleased
CHECK_DEADLOCK FALSE
