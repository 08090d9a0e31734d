\* A lane that is cancelled on its way to sleep.
SPECIFICATION Spec
CONSTANTS
  main = main
  a = a
  b = b
  k1 = k1
  k2 = k2
  v1 = v1
  v2 = v2
  fn = fn
  ud = ud
  Lane <- Lanes
  Main <- Mains
  Key = {k1, k2}
  Val = {v1, v2, fn, ud}
  Nil = Nil
  NilSentinel = NilSentinel
  Unsupported = Unsupported
  Foreign <- ForeignTo
  Calls <- CancelCalls
  MaxCalls = 1
INVARIANTS CancelAwakens
CHECK_DEADLOCK FALSE
