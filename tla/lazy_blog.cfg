SPECIFICATION Spec
CONSTANTS
  a1 = a1
  a2 = a2
  idx = idx
  seed = seed
  dyn = dyn
  added = added
  blog = blog
  home = home
  preset = preset
  extra = extra
  c1 = c1
  c2 = c2
  comp = comp
  page = page
  v1 = v1
  v2 = v2
  Absent = Absent
  NoSource = NoSource
  NoFile = NoFile
  NoPath = NoPath
  Watcher = Watcher
  Nobody = Nobody
  q1 = q1
  q2 = q2
  Routes = {a1, a2, idx}
  Pages = {blog, home}
  Sources = {c1, c2}
  Modules = {}
  Values = {v1, v2}
  PageOf <- BlogPageOf
  Own <- BlogOwn
  Reads <- BlogReads
  PathReads <- BlogPaths
  Injected = {}
  Seeds = {}
  IslandSources = {}
  Stamped = {}
  Requests = {q1, q2}
  InitialTrees <- OnePost
  EagerBoot = TRUE
  MaxEdits = 2
  MaxFaults = 1
  FaultKinds = {"provenanceEarly", "provenanceLate"}
INVARIANTS
  FreshMeansCurrent
  PlannerReachesReaders
  GuardedWriteIsLive
SYMMETRY RequestSymmetry
CHECK_DEADLOCK FALSE
