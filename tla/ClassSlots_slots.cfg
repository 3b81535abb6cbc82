SPECIFICATION Spec
CONSTANTS
  RepairSlots = 2
  MaxSkip = 1
  Owned = {"ingestion", "repair"}
  Busy = {}
  FrontOpen = TRUE
  Requests <- ServiceRequests
  Settings = {5}
  Faults = {"dberror"}
INVARIANT TypeOK
INVARIANT SlotsAreHeld
INVARIANT WorkFitsTotal
INVARIANT ManualNotShutOut
