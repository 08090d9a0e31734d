SPECIFICATION SpecTables
INVARIANTS TypeOK NoDangling TriColor ListsSound SweepComplete
CONSTANTS
  Thread = {main}
  Main = main
  Tab = {reg, t1, w1}
  Registry = reg
  Func = {}
  Upval = {}
  Udata = {d1}
  Str = {s1, s2, s3}
  FixedStr = {}
  WeakKeyTab = {w1}
  WeakValTab = {w1}
  FinMeta = {w1}
  Node = {n1}
  NSlot = 2
  LJ_MIN_STRTAB = 1
  LJ_MAX_STRTAB = 8
  HasJit = TRUE
  Hooked = TRUE
  Nil = Nil
  Hash <- HashSpread
