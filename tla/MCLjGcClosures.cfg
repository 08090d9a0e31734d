SPECIFICATION SpecClosures
SYMMETRY Symmetry
INVARIANTS NoDangling TriColor OpenUvHasThread
PROPERTIES HeapSafe CollectorInvisible
CONSTANTS
  Thread = {main, co}
  Main = main
  Tab = {reg}
  Registry = reg
  Func = {f1, f2}
  Upval = {u1, u2}
  Udata = {}
  Str = {}
  FixedStr = {}
  WeakKeyTab = {}
  WeakValTab = {}
  FinMeta = {}
  Node = {n1}
  NSlot = 2
  LJ_MIN_STRTAB = 1
  LJ_MAX_STRTAB = 8
  HasJit = FALSE
  Hooked = FALSE
  Nil = Nil
  Hash <- HashOne
