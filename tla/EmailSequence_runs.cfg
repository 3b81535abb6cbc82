SPECIFICATION Spec
CONSTANTS
  Steps = 2
  Workers = {w1}
  Users = {u1}
  AutoSend = TRUE
  MaxAttempts = 2
  LastHalfHour = 2
  Keys <- StepKeys
  Faults = {"crash", "throw", "lapse", "withdraw", "pause", "cancel", "suppress"}
  MaxMishaps = 1
  Recurring = FALSE
  None = None
CHECK_DEADLOCK FALSE
INVARIANT TypeOK
INVARIANT LedgerMatchesPointer
INVARIANT ComposedAfterBoth
INVARIANT StrandedOnlyBy
PROPERTY EndIsFinal
