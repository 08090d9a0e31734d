SPECIFICATION FairFin
PROPERTIES Reclaimed FinalizersRun CyclesEnd
CONSTANTS
  Thread = {main}
  Main = main
  Tab = {reg, t1}
  Registry = reg
  Func = {}
  Upval = {}
  Udata = {d1}
  Str = {}
  FixedStr = {}
  WeakKeyTab = {}
  WeakValTab = {}
  FinMeta = {t1}
  Node = {n1}
  NSlot = 2
  LJ_MIN_STRTAB = 1
  LJ_MAX_STRTAB = 8
  HasJit = TRUE
  Hooked = FALSE
  Nil = Nil
  Hash <- HashOne
