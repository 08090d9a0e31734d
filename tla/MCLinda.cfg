\* One sending and one receiving lane, and a main thread that limits, sets,
\* reads and cancels. The three may all be out of calls, or asleep.
SPECIFICATION UsedSpec
CONSTANTS
  main = main
  a = a
  b = b
  k1 = k1
  k2 = k2
  v1 = v1
  v2 = v2
  fn = fn
  ud = ud
  Lane <- Lanes
  Main <- Mains
  Key = {k1, k2}
  Val = {v1, v2, fn, ud}
  Nil = Nil
  NilSentinel = NilSentinel
  Unsupported = Unsupported
  Foreign <- ForeignTo
  Calls <- AllCalls
  MaxCalls = 2
INVARIANTS TypeOK FifoShape NoLostWakeup
PROPERTIES QueueRefined NoSleepOnCancelled
CHECK_DEADLOCK FALSE
