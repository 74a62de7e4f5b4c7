SPECIFICATION Spec
CONSTANTS
  PageSize = 1024
  Threshold = 32
  CompactAt = 1024
  InitPages = 1
  MaxPages = 2
  Requests = {40, 600}
  MaxBlocks = 3
INVARIANT CompactionKeepsLiveApart
