SPECIFICATION Spec
CONSTANTS
  KernelName = 2
  MainName = 3
  LibNames = {1, 4}
  Manifests <- MCManifests
  MaxFunctions = 2
  MaxPlugins = 2
  Threads = {1, 2}
  MaxLines = 3
  MaxBuffers = 2
INVARIANTS
  TypeOK
  UserDataOwned
  DeadlockFromCallback
  MadeAsReferred
  LinesKept
PROPERTIES
  DrainEnds
CHECK_DEADLOCK FALSE
