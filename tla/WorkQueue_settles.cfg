SPECIFICATION SettlingSpec
CONSTANTS
  Jobs = {j1, j2}
  FrontJobs = {j2}
  Procs = {p1, p2}
  Slots = {s1}
  Execs <- SlotsEach
  Stamps = {c1}
  MaxAttempts = 2
  AttemptCap = 2
  Unhandled = {}
  Faults = {"crash", "overrun"}
  AtDequeue = AtDequeue
  None = None
INVARIANT HeldIsExecuted
PROPERTY OverrunReclaimed
PROPERTY EveryJobSettles
