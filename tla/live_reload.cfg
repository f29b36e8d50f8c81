SPECIFICATION Spec
CONSTANTS
  tab = tab
  None = None
  Tabs = {tab}
  Capacity = 2
  WireCapacity = 1
  Outcomes <- MCOutcomes
  MaxTicks = 2
  MaxBreaks = 1
  MaxHides = 1
INVARIANTS
  DrainedMeansCurrent
PROPERTIES
  TabCatchesUp
  StoppedReaderIsReleased
CHECK_DEADLOCK FALSE
