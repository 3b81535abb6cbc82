SPECIFICATION Spec
CONSTANTS
  Jobs = {j1}
  FrontJobs = {j1}
  Procs = {p1, p2}
  Slots = {s1, s2}
  Execs <- OldHasLess
  Stamps = {c1, c2}
  MaxAttempts = 2
  AttemptCap = 2
  Unhandled <- OldVersion
  Faults = {"lapse", "force", "boot"}
  AtDequeue = AtDequeue
  None = None
INVARIANT FencedOutcome
INVARIANT RecoverableLease
INVARIANT HeldIsExecuted
PROPERTY TerminalIsFinal
SYMMETRY StampSymmetry
