SPECIFICATION Spec
CONSTANTS
  Jobs = {j1, j2}
  FrontJobs = {j2}
  Procs = {p1, p2}
  Slots = {s1, s2}
  Execs <- SlotsEach
  Stamps = {c1, c2}
  MaxAttempts = 2
  AttemptCap = 2
  Unhandled = {}
  Faults = {"crash", "dberror"}
  AtDequeue = AtDequeue
  None = None
INVARIANT NoDoubleProcessing
INVARIANT PendingHasBudget
SYMMETRY Symmetric
