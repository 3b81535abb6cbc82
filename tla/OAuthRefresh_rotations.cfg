SPECIFICATION Spec
CONSTANTS
  Procs = {p1, p2}
  MaxToken = 3
  Faults = {"crash", "dberror", "degrade", "lapse", "lost", "refuse", "revoke", "disconnect"}
  MaxMishaps = 1
  Recurring = TRUE
  None = None
SYMMETRY ProcSymmetry
CHECK_DEADLOCK FALSE
INVARIANT TypeOK
INVARIANT OneRefresher
INVARIANT ConnectionSurvives
INVARIANT ConsumedNeverPosted
