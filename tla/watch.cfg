SPECIFICATION Spec
CONSTANTS
  page = page
  dep = dep
  None = None
  Files = {page, dep}
  Rooted = {page}
  Manifests = {dep}
  MaxPending = 2
  OutCapacity = 1
  RawCapacity = 2
  Hot = {page}
  MaxEdits = 2
INVARIANTS
  TypeOK
  NoEditIsLost
  CreationIsTold
PROPERTIES
  EveryEditIsTaken
  ShutdownCompletes
CHECK_DEADLOCK FALSE
