CONSTANTS
  Tasks = {t}
  KeepAlive = {TRUE, FALSE}
  MaxRunning = 1
  MaxGen = 3
SPECIFICATION FairSpec
INVARIANTS CapacityKept OneOutcomeReported
PROPERTIES DeliveredNeverAgain StopMeansDisk ClosedSilent CloseEnds EndReported
CHECK_DEADLOCK FALSE
