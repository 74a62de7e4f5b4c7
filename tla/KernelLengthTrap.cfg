SPECIFICATION Spec
CONSTANTS
  PageSize = 65536
  RootSize = 64
  HeaderSize = 12
  SizeEnd = 8
  SplitSize = 128
  WordMod = 1073741824
  InitPages = 16
  MaxPages = 17
  Requests = {4, 144, 60000}
  MaxBlocks = 3
INVARIANT LengthAnswers
