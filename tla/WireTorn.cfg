CONSTANTS
  Turns = {t1}
  MaxRecords = 4
  MaxCrashes = 2
SPECIFICATION Spec
INVARIANT ResumeReads
CHECK_DEADLOCK FALSE
