SPECIFICATION Spec
CONSTANTS
  Jobs = {j1}
  FrontJobs = {}
  Procs = {p1, p2}
  Slots = {s1}
  Execs <- SlotsEach
  Stamps = {c1, c2}
  MaxAttempts = 2
  AttemptCap = 2
  Unhandled = {}
  Faults = {"boot"}
  AtDequeue = AtDequeue
  None = None
INVARIANT NoDoubleProcessing
SYMMETRY Symmetric
