SPECIFICATION Spec
CONSTANTS
  h1 = h1
  h2 = h2
  Plugins <- MCPlugins
  KernelPages = 1
  MaxPages = 2
  MaxMemories = 4
  Texts <- MCTexts
  Utf8 <- MCUtf8
  Handles = {h1, h2}
  VarLimit = 1
  Hosts = {"a", "b"}
  Statuses = {200}
  MaxPlaces = 2
SYMMETRY MCSymmetry
INVARIANTS TypeOK WithinLimit OwnPointers PartedByReset StoreBounded
PROPERTIES VariablesKept
\* A process that aborts, or does what is undefined, takes no step.
CHECK_DEADLOCK FALSE
