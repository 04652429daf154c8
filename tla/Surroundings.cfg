SPECIFICATION SurroundingsSpec
CONSTANTS
  Calls = {c1, c2}
  Lines = {l1, l2}
  Shown = 2
  MaxNotes = 2
  MaxClicks = 2
  Screens = {"bookings", "services", "users", "audit"}
  PageSize = 1
  MaxRows = 2
  MaxActs = 3
  MaxOthers = 1
  MaxCalls = 2
  Forms = {"booking", "service", "user", "general", "branding", "profile", "preferences"}
  Typed = {"a", "b"}
  MaxDeeds = 4
  Passwords <- SomePasswords
  MaxSubmits = 2
  Accounts = {ana, eva}
  MaxSockets = 3
  MaxTries = 2
  MaxVisits = 2
  NOBODY = NOBODY
  MaxChanges = 3
  MaxLoads = 3
  MaxLosses = 1
  Hour = 3
  MaxDelay = 1
  Starts = {8, 9, 10}
  MaxTime = 10
  MaxCrashes = 1
  Day = 4
  Month = 3
  TrendDays = 3
  Zones <- SomeZones
  Shift = 17
  DatedRows = {b1}
  MaxNow = 26
  MaxEdits = 2
  Life = 1
  CustomPermissions <- SomePermissions
  MaxGrants = 2
SYMMETRY Symmetry
INVARIANTS
  SurroundingsTypeOK
  BadgeWithinClicks ShownReadWasRead
  ListIsTable OneFlipPerIntent
  UntouchedKept CreatedOnce HeaderIsStored
  ValidWhenAgreed
  OneSocketOfOnesOwn
  BoardSettles
  RemindersFollowDelays
  ReportsCountOnce
  OfferedIsServed RefusedWithinLife
PROPERTIES UntouchedStartKept
CHECK_DEADLOCK FALSE
