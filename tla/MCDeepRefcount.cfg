\* The same instances, against what docs/index.html says of keepers.
SPECIFICATION SpecMC
CONSTANTS
  Lane = {a}
  Main = main
  Keeper = {k1, k2}
  First = k1
  Second = k2
  Linda = {timer, d1, d2, e2}
  d1 = d1
  d2 = d2
  e2 = e2
  Timer = timer
  KeeperOf <- TwoKeepers
  None = None
  MaxPending = 1
INVARIANT KeepersUncounted
CHECK_DEADLOCK FALSE
