SPECIFICATION Spec
CONSTANTS
  b1 = b1
  b2 = b2
  shared = shared
  first = first
  second = second
  order = order
  home = home
  post = post
  IslandsUrl = IslandsUrl
  None = None
  Builds = {b1, b2}
  Files = {shared, first, second}
  ScriptFiles = {order}
  Urls = {order, IslandsUrl}
  Docs = {home, post}
  Names <- MCNames
  Sites <- AllSites
  RetainedIslands = 1
  RetainedScripts = 1
  Batches <- AllBatches
  MaxTicks = 2
  MaxFailures = 1
  OverlappingAbort = FALSE
INVARIANTS
  ReadyMeansSettled
  ServedEntryResolves
  ReadyIsOnDisk
  NamedScriptsOnDisk
PROPERTIES
  BodyKeepsItsIslands
  GateIsReleased
  RepairIsPublished
CHECK_DEADLOCK FALSE
