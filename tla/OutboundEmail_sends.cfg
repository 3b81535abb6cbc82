SPECIFICATION FairSpec
CONSTANTS
  Workers = {w1, w2}
  MaxAttempts = 2
  LastHalfHour = 2
  HalfHoursPerDay = 1
  MaxDeferrals = 1
  Keys <- SendKeys
  Faults = {"crash", "cut", "dberror", "lapse", "withdraw", "pause", "cap", "fallback", "refuse", "repost"}
  MaxMishaps = 1
  Recurring = FALSE
  None = None
CHECK_DEADLOCK FALSE
INVARIANT TypeOK
INVARIANT SentOnceUnless
INVARIANT ForgottenOnlyBy
PROPERTY OutcomeIsFinal
PROPERTY EverySendSettles
PROPERTY QueueKept
