SPECIFICATION Spec
CONSTANTS
  t1 = t1
  t2 = t2
  Threads = {t1, t2}
  NoThread = NoThread
  MaxCalls = 3
INVARIANT SuccessCode
\* When the operations are used up or every thread has panicked, all is done.
CHECK_DEADLOCK FALSE
