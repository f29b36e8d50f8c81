SPECIFICATION Spec
CONSTANTS
  home = home
  post = post
  entry = entry
  island = island
  Module = Module
  Content = Content
  NoDigest = NoDigest
  NoCache = NoCache
  Paths = {home, post, entry}
  Kinds = {Module, Content}
  Components = {island}
  PageFiles = {home, post}
  ContentFiles = {entry}
  Islands = {{}, {island}}
  InitialTree = {home, entry}
  MaxWrites = 1
  MaxRemovals = 1
  MaxSessions = 2
  MaxApi = 1
INVARIANTS
  IndexesCoherent
  BootKnowsEveryRoute
PROPERTIES
  RemovalReachesEveryImporter
  NoInheritedContent
  SavesOnlyFinishedBoots
CHECK_DEADLOCK FALSE
