SPECIFICATION Spec
CONSTANTS
  Jobs = {j1}
  FrontJobs = {}
  Procs = {p1, p2}
  Slots = {s1}
  Execs <- SlotsEach
  Stamps = {c1, c2}
  MaxAttempts = 2
  AttemptCap = 2
  Unhandled = {}
  Faults = {"lapse", "dberror", "stop", "crash", "boot"}
  AtDequeue = AtDequeue
  None = None
INVARIANT TypeOK
INVARIANT FencedOutcome
INVARIANT RecoverableLease
PROPERTY ClobbersNothing
PROPERTY TerminalIsFinal
PROPERTY KeepsContract
SYMMETRY Symmetric
