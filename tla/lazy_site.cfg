SPECIFICATION Spec
CONSTANTS
  a1 = a1
  a2 = a2
  idx = idx
  seed = seed
  dyn = dyn
  added = added
  blog = blog
  home = home
  preset = preset
  extra = extra
  c1 = c1
  c2 = c2
  comp = comp
  page = page
  v1 = v1
  v2 = v2
  Absent = Absent
  NoSource = NoSource
  NoFile = NoFile
  NoPath = NoPath
  Watcher = Watcher
  Nobody = Nobody
  q1 = q1
  q2 = q2
  Routes = {idx, added, seed, dyn}
  Pages = {home, extra, preset}
  Sources = {c1, comp, page}
  Modules = {comp, page}
  Values = {v1, v2}
  PageOf <- SitePageOf
  Own <- SiteOwn
  Reads <- SiteReads
  PathReads <- SitePaths
  Injected = {dyn}
  Seeds = {seed}
  IslandSources = {comp}
  Stamped = {idx, added, seed}
  Requests = {q1}
  InitialTrees <- FullSite
  EagerBoot = TRUE
  MaxEdits = 2
  MaxFaults = 1
  FaultKinds = {"refresh", "render", "tickWrite", "requestWrite", "prune", "provenanceEarly", "provenanceLate"}
INVARIANT FreshMeansCurrent
PROPERTY NeverPrunesLive
CHECK_DEADLOCK FALSE
