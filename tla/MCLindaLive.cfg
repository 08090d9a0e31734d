\* Waits, and what ends them. The threads may all be out of calls, or asleep.
SPECIFICATION FairSpec
CONSTANTS
  main = main
  a = a
  b = b
  k1 = k1
  k2 = k2
  v1 = v1
  v2 = v2
  fn = fn
  ud = ud
  Lane <- Lanes
  Main <- Mains
  Key = {k1, k2}
  Val = {v1, v2, fn, ud}
  Nil = Nil
  NilSentinel = NilSentinel
  Unsupported = Unsupported
  Foreign <- ForeignTo
  Calls <- WaitCalls
  MaxCalls = 2
PROPERTIES CallsEnd Served
CHECK_DEADLOCK FALSE
