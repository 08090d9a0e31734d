\* Two lanes, which may be made by the main state or by one another. All
\* threads may be over, or killed.
SPECIFICATION FairSpec
CONSTANTS
  Lane = {a, b}
  Main = main
  None = None
  KillOutcome = {"ends", "ignored"}
INVARIANTS TypeOK StateExclusive FreedUnused NoLaneLost ChainSound NoMissedSignal
PROPERTIES ShutdownEnds
CHECK_DEADLOCK FALSE
