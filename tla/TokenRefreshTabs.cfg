SPECIFICATION FairSpec
CONSTANTS
  NONE = NONE
  Tabs = {t1, t2}
  Requests = {r1, r2}
  Tokens = {p1, p2, p3}
  MaxLogins = 2
  FindsTokens = TRUE
INVARIANTS TypeOK FlagMeansRefresh NeverReposted
PROPERTIES WaitersReleasedUnlessRefused
CHECK_DEADLOCK FALSE
