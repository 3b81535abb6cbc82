SPECIFICATION FairSpec
CONSTANTS
  RepairSlots = 2
  MaxSkip = 1
  Owned = {"interactive", "ingestion", "interactive_repair", "repair"}
  Busy = {"interactive", "ingestion", "interactive_repair", "repair"}
  FrontOpen = FALSE
  Requests = {}
  Settings = {}
  Faults = {}
PROPERTY EveryClassServed
