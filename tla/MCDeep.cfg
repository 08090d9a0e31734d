\* The main state and a lane, with the timer linda and another on one keeper
\* up to the end of the universe, and with four lindas on two keepers.
SPECIFICATION SpecMC
CONSTANTS
  Lane = {a}
  Main = main
  Keeper = {k1, k2}
  First = k1
  Second = k2
  Linda = {timer, d1, d2, e2}
  d1 = d1
  d2 = d2
  e2 = e2
  Timer = timer
  KeeperOf <- TwoKeepers
  None = None
  MaxPending = 1
INVARIANTS TypeOK RefcountExact NoStalePointer FreshEmpty NoneLeaked
PROPERTIES CallsEnd
CHECK_DEADLOCK FALSE
