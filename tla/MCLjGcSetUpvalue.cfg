SPECIFICATION SpecApi
INVARIANTS PropagationInvariant
CHECK_DEADLOCK FALSE
CONSTANTS
  Thread = {main}
  Main = main
  Tab = {reg, t1}
  Registry = reg
  Func = {f1, f2}
  Upval = {u1}
  Udata = {}
  Str = {}
  FixedStr = {}
  WeakKeyTab = {}
  WeakValTab = {}
  FinMeta = {}
  Node = {n1}
  NSlot = 2
  LJ_MIN_STRTAB = 1
  LJ_MAX_STRTAB = 8
  HasJit = FALSE
  Hooked = FALSE
  Nil = Nil
  Hash <- HashOne
