SPECIFICATION Spec
CONSTANTS
  Workers = {w1}
  MaxAttempts = 2
  LastHalfHour = 0
  HalfHoursPerDay = 2
  MaxDeferrals = 1
  Keys <- SendKeys
  Faults = {"dberror"}
  MaxMishaps = 2
  Recurring = FALSE
  None = None
CHECK_DEADLOCK FALSE
INVARIANT AtMostOnce
