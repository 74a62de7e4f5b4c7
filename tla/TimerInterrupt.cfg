SPECIFICATION Spec
CONSTANTS
  p1 = p1
  Plugins = {p1}
  Timed = {p1}
  NoPlugin = NoPlugin
  MaxCalls = 1
  MaxQueue = 2
PROPERTY TimeoutInterrupts
\* Once every call is made and the thread waits in recv, nothing need happen.
CHECK_DEADLOCK FALSE
