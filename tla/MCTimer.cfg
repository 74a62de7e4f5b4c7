SPECIFICATION Spec
CONSTANTS
  p1 = p1
  p2 = p2
  Plugins = {p1, p2}
  Timed = {p1}
  NoPlugin = NoPlugin
  MaxCalls = 2
  MaxQueue = 2
INVARIANTS TypeOK OverCallsStop
PROPERTIES OwnEntryOnly ReturnedForgotten ShutdownCompletes
\* Once every call is made and the thread waits in recv, nothing need happen.
CHECK_DEADLOCK FALSE
