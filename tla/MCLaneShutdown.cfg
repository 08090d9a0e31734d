\* One lane, and the end of the process.
SPECIFICATION Spec
CONSTANTS
  Lane = {a}
  Main = main
  None = None
  KillOutcome = {"ends", "ignored"}
INVARIANTS ShutdownWaits
CHECK_DEADLOCK FALSE
